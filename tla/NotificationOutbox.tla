-------------------------- MODULE NotificationOutbox --------------------------
(***************************************************************************)
(* One notification intent (apps/api/src/modules/notifications): the row   *)
(* notification_intents that every worker process polls, the outbound      *)
(* message and the secure command it leads to, and the message that the    *)
(* provider accepts at the end of it.                                      *)
(*                                                                         *)
(* A worker process runs one cycle at a time: claim and consume, list the  *)
(* intents to reconcile, execute or observe them, sweep what ran out of    *)
(* time or attempts.  Workers share nothing but the rows, and write them   *)
(* under the version they read.                                            *)
(*                                                                         *)
(* A deadline is "live" or "lapsed", a retry "waiting" or "due".  A cycle  *)
(* reads the clock once: a deadline it did not see pass is one that passes *)
(* right after.  The guards leaseExpiresAt > now of the writes that end a  *)
(* consumption use that same reading, so they hold of any lease the cycle  *)
(* took; the guards of renewClaim read the clock afresh.                   *)
(*                                                                         *)
(* The secure command is modelled step by step in SecureCommand; here the  *)
(* approval, the claim, the handler and the outcome are one step each.     *)
(* Activated says that the policy lets SOFIA_SEND_WHATSAPP run; today      *)
(* CommandHandlerRegistry.definition says it does not.                     *)
(***************************************************************************)
EXTENDS Integers

CONSTANTS Workers,      \* worker processes
          MaxAttempts,  \* NotificationOutboxService.OPTIONS.maxAttempts
          MaxCrashes,   \* bound: how often processes die
          Activated     \* the command policy allows SOFIA_SEND_WHATSAPP

ASSUME OutboxAssumption == /\ MaxAttempts \in Nat \ {0} /\ MaxCrashes \in Nat
                           /\ Activated \in BOOLEAN

VARIABLES intent,     \* the notification_intents row
          expired,    \* intent.expiresAt <= now
          message,    \* status of the whatsapp_outbound_messages row
          command,    \* the sofia_commands row
          commandDue, \* command.expiresAt <= now
          worker,     \* what each worker does next, and what it holds
          delivered,  \* history: messages the provider accepted
          entered,    \* history: times the handler was entered
          crashes     \* history: processes that died

rows  == <<intent, message, command>>
audit == <<delivered, entered, crashes>>
vars  == <<rows, expired, commandDue, worker, audit>>

Settled  == {"SUCCEEDED", "FAILED", "UNKNOWN_RESULT", "EXPIRED", "SUPPRESSED"}
Queued   == {"PENDING", "CLAIMED"}
HandedOn == {"COMMAND_PENDING", "DISPATCHED"}
Statuses == {"ABSENT"} \cup Queued \cup HandedOn \cup Settled

Nobody == "nobody"

Intent == [status : Statuses, attempts : Nat, version : Nat, owner : Workers \cup {Nobody},
           lease : {"none", "live", "lapsed"}, retry : {"none", "waiting", "due"}]
NoIntent == [status |-> "ABSENT", attempts |-> 0, version |-> 0, owner |-> Nobody,
             lease |-> "none", retry |-> "none"]

Messages == {"none", "APPROVAL_PENDING", "SENT", "FAILED", "UNKNOWN_RESULT", "CANCELLED"}

(* open: received, not approved.  retryable: FAILED before the handler was *)
(* entered.  sent, refused: SUCCEEDED with that result.  unknown, failed:  *)
(* FAILED for good.                                                        *)
Running  == {"claimed", "executing"}
Commands == {"none", "open", "approved", "rejected", "expired", "retryable",
             "sent", "refused", "unknown", "failed"} \cup Running

Outcomes == {"none", "DISPATCHED", "COMMAND_PENDING", "COMMAND_REJECTED", "RESULT_UNKNOWN",
             "OUTBOUND_SUCCEEDED", "OUTBOUND_FAILED", "OUTBOUND_PENDING",
             "sent", "refused", "unknown", "guard"} \cup Settled

Steps == {"idle", "claim", "read", "policy", "suppress", "materialize", "receive", "bind",
          "giveUp", "list", "execute", "enter", "send", "complete", "record", "observe",
          "apply", "sweep", "settle"}

Idle == [step |-> "idle", version |-> 0, status |-> "ABSENT", outcome |-> "none"]

Init ==
  /\ intent = NoIntent /\ expired = FALSE
  /\ message = "none"
  /\ command = [status |-> "none", by |-> Nobody, lapsed |-> FALSE] /\ commandDue = FALSE
  /\ worker = [w \in Workers |-> Idle]
  /\ delivered = 0 /\ entered = 0 /\ crashes = 0

----------------------------------------------------------------------------
(* enqueue(): an upsert; a second call finds the row and changes nothing.  *)

Enqueue ==
  /\ intent.status = "ABSENT"
  /\ \E status \in {"PENDING", "SUPPRESSED"} : intent' = [NoIntent EXCEPT !.status = status]
  /\ UNCHANGED <<message, command, expired, commandDue, worker, audit>>

----------------------------------------------------------------------------
(* A cycle.                                                                *)

At(w, step) == worker[w].step = step
Goto(w, step) == worker' = [worker EXCEPT ![w].step = step]

(* Rows the worker selected, with the version and status it saw.           *)
Take(w, step, outcome) ==
  worker' = [worker EXCEPT ![w] = [step |-> step, version |-> intent.version,
                                   status |-> intent.status, outcome |-> outcome]]

Finish(w) == worker' = [worker EXCEPT ![w] = Idle]

(* Every write of the intent takes it to a new version and drops the       *)
(* claim; the retry time of a settled row means nothing.                   *)
Settle(status) ==
  intent' = [intent EXCEPT !.status = status, !.version = @ + 1, !.owner = Nobody,
               !.lease = "none", !.retry = IF status \in Settled THEN "none" ELSE @]

FreeWithoutLease == \/ intent.status = "PENDING"
                    \/ intent.status \in {"CLAIMED", "COMMAND_PENDING"} /\ intent.lease # "live"

Free == \/ intent.status = "PENDING"
        \/ intent.status = "CLAIMED" /\ intent.lease = "lapsed"

Claimable == /\ Free /\ ~expired
             /\ intent.attempts < MaxAttempts /\ intent.retry # "waiting"

StartCycle(w) ==
  /\ At(w, "idle") /\ intent.status # "ABSENT"
  /\ Goto(w, IF Claimable THEN "claim" ELSE "list")
  /\ UNCHANGED <<rows, expired, commandDue, audit>>

(* claim(): expire the row, or take it, or fail it once nothing is left.   *)
Claim(w) ==
  /\ At(w, "claim")
  /\ \/ /\ intent.status \in Queued /\ expired
        /\ Settle("EXPIRED") /\ Goto(w, "list")
     \/ /\ Claimable
        /\ intent' = [intent EXCEPT !.status = "CLAIMED", !.owner = w, !.lease = "live",
                        !.retry = "none", !.attempts = @ + 1, !.version = @ + 1]
        /\ Goto(w, "read")
     \/ /\ Free /\ ~expired /\ intent.attempts >= MaxAttempts
        /\ Settle("FAILED") /\ Goto(w, "list")
     \/ /\ ~Claimable
        /\ ~(intent.status \in Queued /\ expired)
        /\ ~(Free /\ intent.attempts >= MaxAttempts)
        /\ Goto(w, "list") /\ UNCHANGED intent
  /\ UNCHANGED <<message, command, expired, commandDue, audit>>

(* The row is read back in a statement of its own.                         *)
Read(w) ==
  /\ At(w, "read")
  /\ Take(w, "policy", "none")
  /\ UNCHANGED <<rows, expired, commandDue, audit>>

(* The writes that end a consumption hold the claim by version and owner.  *)
HoldsClaim(w) == /\ intent.version = worker[w].version
                 /\ intent.status = "CLAIMED" /\ intent.owner = w

(* renewClaim: the lease must still be live now.                           *)
Renews(w) == HoldsClaim(w) /\ intent.lease = "live"

(* After a renewal that fails, NOTIFICATION_CLAIM_LEASE_LOST.              *)
GoIfRenewed(w, steps) ==
  \E step \in IF Renews(w) THEN steps ELSE {"list"} : Goto(w, step)

Evaluate(w) ==
  /\ At(w, "policy")
  /\ GoIfRenewed(w, {"suppress", "materialize"}) \/ Goto(w, "giveUp")
  /\ UNCHANGED <<rows, expired, commandDue, audit>>

Materialize(w) ==
  /\ At(w, "materialize")
  /\ \/ /\ message' = IF message = "none" THEN "APPROVAL_PENDING" ELSE message
        /\ GoIfRenewed(w, {"receive"})
     \/ /\ \E step \in {"suppress", "giveUp"} : Goto(w, step)
        /\ UNCHANGED message
  /\ UNCHANGED <<intent, command, expired, commandDue, audit>>

(* SecureCommandService.receive(): the key is the intent, so a second call *)
(* finds the command of the first.                                         *)
ReceiveCommand(w) ==
  /\ At(w, "receive")
  /\ \/ /\ ~expired
        /\ command' = IF command.status = "none" THEN [command EXCEPT !.status = "open"] ELSE command
        /\ GoIfRenewed(w, {"bind"})
     \/ /\ \E step \in {"suppress", "giveUp"} : Goto(w, step)
        /\ UNCHANGED command
  /\ UNCHANGED <<intent, message, expired, commandDue, audit>>

MarkCommandPending(w) ==
  /\ At(w, "bind")
  /\ IF HoldsClaim(w) THEN Settle("COMMAND_PENDING") ELSE UNCHANGED intent
  /\ Goto(w, "list")
  /\ UNCHANGED <<message, command, expired, commandDue, audit>>

MarkSuppressed(w) ==
  /\ At(w, "suppress")
  /\ IF HoldsClaim(w) THEN Settle("SUPPRESSED") ELSE UNCHANGED intent
  /\ Goto(w, "list")
  /\ UNCHANGED <<message, command, expired, commandDue, audit>>

MarkPreDispatchFailure(w) ==
  /\ At(w, "giveUp")
  /\ IF ~HoldsClaim(w) THEN UNCHANGED intent
     ELSE IF intent.attempts < MaxAttempts
     THEN intent' = [intent EXCEPT !.status = "PENDING", !.version = @ + 1, !.owner = Nobody,
                                   !.lease = "none", !.retry = "waiting"]
     ELSE Settle("FAILED")
  /\ Goto(w, "list")
  /\ UNCHANGED <<message, command, expired, commandDue, audit>>

----------------------------------------------------------------------------
(* Dispatch and reconciliation.                                            *)

(* findReconciliationCandidates: one snapshot for both stages.             *)
List(w) ==
  /\ At(w, "list")
  /\ IF intent.status \in HandedOn /\ intent.attempts < MaxAttempts /\ intent.retry # "waiting"
     THEN Take(w, IF intent.status = "COMMAND_PENDING" THEN "execute" ELSE "observe", "none")
     ELSE Goto(w, "sweep")
  /\ UNCHANGED <<rows, expired, commandDue, audit>>

Conclude(w, outcome) ==
  worker' = [worker EXCEPT ![w].step = "apply", ![w].outcome = outcome]

SetCommand(status) == command' = [status |-> status, by |-> Nobody, lapsed |-> FALSE]

StartableAfterAnyLapse == \/ command.status \in {"approved", "retryable"}
                          \/ command.status \in Running /\ command.lapsed

(* A claim that lapsed before the handler leaves a retryable command.      *)
Startable == \/ command.status \in {"approved", "retryable"}
             \/ command.status = "claimed" /\ command.lapsed

ApprovalRequired == command.status \in {"open", "rejected"} /\ ~commandDue

NotRetryable == command.status \in {"unknown", "failed"}

(* SecureCommandService.execute() up to the claim, and what the adapter    *)
(* makes of its answer.                                                    *)
Execute(w) ==
  /\ At(w, "execute")
  /\ \/ /\ command.status = "sent"
        /\ Conclude(w, "DISPATCHED") /\ UNCHANGED command
     \/ /\ command.status = "refused" \/ NotRetryable
        /\ Conclude(w, "COMMAND_REJECTED") /\ UNCHANGED command
     \/ /\ (command.status \in Running /\ ~command.lapsed) \/ ApprovalRequired
        /\ Conclude(w, "COMMAND_PENDING") /\ UNCHANGED command
     \/ /\ command.status = "executing" /\ command.lapsed
        /\ SetCommand("unknown") /\ Conclude(w, "RESULT_UNKNOWN")
     \/ /\ commandDue /\ (Startable \/ command.status \in {"open", "rejected", "expired"})
        /\ IF command.status \in {"rejected", "expired"} THEN UNCHANGED command
                                                         ELSE SetCommand("expired")
        /\ Conclude(w, "COMMAND_REJECTED")
     \/ /\ Startable /\ ~commandDue               \* policy or approval refuses
        /\ IF command.status = "claimed" THEN SetCommand("retryable") ELSE UNCHANGED command
        /\ Conclude(w, "COMMAND_REJECTED")
     \/ /\ Startable /\ ~commandDue /\ Activated
        /\ command' = [status |-> "claimed", by |-> w, lapsed |-> FALSE]
        /\ Goto(w, "enter")
  /\ UNCHANGED <<intent, message, expired, commandDue, audit>>

RunsCommand(w, status) == command.status = status /\ command.by = w

(* BEFORE_HANDLER policy and markExecuting.                                *)
EnterHandler(w) ==
  /\ At(w, "enter")
  /\ \/ /\ RunsCommand(w, "claimed") /\ ~commandDue
        /\ command' = [command EXCEPT !.status = "executing"]
        /\ entered' = entered + 1 /\ Goto(w, "send")
     \/ /\ IF RunsCommand(w, "claimed") THEN SetCommand("failed") ELSE UNCHANGED command
        /\ Conclude(w, "COMMAND_REJECTED") /\ UNCHANGED entered
     \/ /\ ~RunsCommand(w, "claimed") /\ ~commandDue
        /\ Conclude(w, "RESULT_UNKNOWN") /\ UNCHANGED <<command, entered>>
  /\ UNCHANGED <<intent, message, expired, commandDue, delivered, crashes>>

(* The handler: a guard of its own throws, or the provider answers.  When  *)
(* the answer is lost nobody knows whether the message was accepted.       *)
Send(w) ==
  /\ At(w, "send")
  /\ \E result \in {"guard", "sent", "refused", "unknown"}, accepted \in {0, 1} :
       /\ result = "sent" => accepted = 1
       /\ result \in {"guard", "refused"} => accepted = 0
       /\ delivered' = delivered + accepted
       /\ worker' = [worker EXCEPT ![w].outcome = result,
                       ![w].step = IF result = "guard" THEN "record" ELSE "complete"]
  /\ UNCHANGED <<rows, expired, commandDue, entered, crashes>>

(* completeOutbound overwrites whatever the row says.  If it throws, the   *)
(* command fails, and the adapter lets the error through.                  *)
CompleteOutbound(w) ==
  /\ At(w, "complete")
  /\ \/ /\ message' = IF worker[w].outcome = "sent" THEN "SENT"
                      ELSE IF worker[w].outcome = "refused" THEN "FAILED" ELSE "UNKNOWN_RESULT"
        /\ Goto(w, "record") /\ UNCHANGED command
     \/ /\ IF RunsCommand(w, "executing") THEN SetCommand("failed") ELSE UNCHANGED command
        /\ Goto(w, "sweep") /\ UNCHANGED message
  /\ UNCHANGED <<intent, expired, commandDue, audit>>

(* succeed() or fail(), and the classification of the result.              *)
Record(w) ==
  /\ At(w, "record")
  /\ LET result == worker[w].outcome
     IN IF RunsCommand(w, "executing")
        THEN /\ SetCommand(IF result = "guard" THEN "failed" ELSE result)
             /\ Conclude(w, IF result = "sent" THEN "DISPATCHED"
                            ELSE IF result = "refused" THEN "COMMAND_REJECTED"
                            ELSE "RESULT_UNKNOWN")
        ELSE Conclude(w, "RESULT_UNKNOWN") /\ UNCHANGED command
  /\ UNCHANGED <<intent, message, expired, commandDue, audit>>

(* The evidence about a DISPATCHED intent.                                 *)
Evidence ==
  IF message \in {"none", "UNKNOWN_RESULT"} THEN "RESULT_UNKNOWN"
  ELSE IF message = "SENT" THEN "OUTBOUND_SUCCEEDED"
  ELSE IF message \in {"FAILED", "CANCELLED"} THEN "OUTBOUND_FAILED"
  ELSE IF command.status \in {"none", "unknown", "sent", "refused"} THEN "RESULT_UNKNOWN"
  ELSE IF command.status \in {"failed", "retryable", "rejected", "expired"} THEN "COMMAND_REJECTED"
  ELSE "OUTBOUND_PENDING"

Observe(w) ==
  /\ At(w, "observe")
  /\ Conclude(w, Evidence)
  /\ UNCHANGED <<rows, expired, commandDue, audit>>

TargetAssumesDelivered(status, outcome) ==
  IF outcome \in {"OUTBOUND_SUCCEEDED", "RESULT_UNKNOWN"} THEN "SUCCEEDED"
  ELSE IF outcome = "OUTBOUND_FAILED" THEN "FAILED"
  ELSE IF outcome = "DISPATCHED" THEN "DISPATCHED"
  ELSE IF outcome = "COMMAND_REJECTED" THEN IF status = "COMMAND_PENDING" THEN "FAILED" ELSE "none"
  ELSE "defer"

(* decideNotificationReconciliation; "none": the policy throws.            *)
Target(status, outcome) ==
  IF outcome = "RESULT_UNKNOWN" THEN "UNKNOWN_RESULT"
  ELSE IF outcome = "OUTBOUND_SUCCEEDED" THEN "SUCCEEDED"
  ELSE IF outcome = "OUTBOUND_FAILED" THEN "FAILED"
  ELSE IF outcome = "DISPATCHED" THEN "DISPATCHED"
  ELSE IF outcome = "COMMAND_REJECTED" THEN IF status = "COMMAND_PENDING" THEN "FAILED" ELSE "none"
  ELSE "defer"

MatchesLate(w) == intent.version >= worker[w].version

Matches(w) == intent.version = worker[w].version /\ intent.status = worker[w].status

(* deferReconciliation: the attempt counts, the intent waits.              *)
Defer ==
  intent' = [intent EXCEPT !.attempts = @ + 1, !.version = @ + 1, !.retry = "waiting"]

(* markDispatched or reconcile, under the version of the snapshot.         *)
Apply(w) ==
  /\ At(w, "apply")
  /\ LET target == Target(worker[w].status, worker[w].outcome)
     IN IF ~Matches(w) \/ target = "none" THEN UNCHANGED intent
        ELSE IF target = "defer" THEN Defer
        ELSE Settle(target)
  /\ Goto(w, "sweep")
  /\ UNCHANGED <<message, command, expired, commandDue, audit>>

----------------------------------------------------------------------------
(* Maintenance.                                                            *)

ExhaustedUnclaimed == intent.attempts >= MaxAttempts /\ Free

Exhausted ==
  /\ intent.attempts >= MaxAttempts
  /\ \/ Free
     \/ intent.status \in HandedOn /\ intent.retry # "waiting"

SweepTarget ==
  IF expired THEN "EXPIRED"
  ELSE IF intent.status \in HandedOn THEN "UNKNOWN_RESULT"
  ELSE "FAILED"

Sweep(w) ==
  /\ At(w, "sweep")
  /\ IF Exhausted \/ (intent.status \in Queued /\ expired)
     THEN Take(w, "settle", SweepTarget)
     ELSE Finish(w)
  /\ UNCHANGED <<rows, expired, commandDue, audit>>

SettleMaintenance(w) ==
  /\ At(w, "settle")
  /\ IF Matches(w) /\ (intent.status = "CLAIMED" => intent.lease = "lapsed")
     THEN Settle(worker[w].outcome)
     ELSE UNCHANGED intent
  /\ Finish(w)
  /\ UNCHANGED <<message, command, expired, commandDue, audit>>

----------------------------------------------------------------------------
(* The environment: administrators, deadlines, dying processes.            *)

Approve ==
  /\ command.status = "open" /\ ~commandDue
  /\ SetCommand("approved")
  /\ UNCHANGED <<intent, message, expired, commandDue, worker, audit>>

RejectCommand ==
  /\ command.status \in {"open", "approved"}
  /\ SetCommand("rejected")
  /\ UNCHANGED <<intent, message, expired, commandDue, worker, audit>>

(* The flag unknownResult of an UNKNOWN_RESULT message survives.           *)
CancelOutbound ==
  /\ message \notin {"none", "UNKNOWN_RESULT"}
  /\ message' = "CANCELLED"
  /\ UNCHANGED <<intent, command, expired, commandDue, worker, audit>>

LeaseLapses ==
  /\ intent.lease = "live"
  /\ intent' = [intent EXCEPT !.lease = "lapsed"]
  /\ UNCHANGED <<message, command, expired, commandDue, worker, audit>>

RetryDue ==
  /\ intent.retry = "waiting"
  /\ intent' = [intent EXCEPT !.retry = "due"]
  /\ UNCHANGED <<message, command, expired, commandDue, worker, audit>>

(* commandExpiry(): the command never outlives its intent.                 *)
IntentExpires ==
  /\ intent.status # "ABSENT" /\ ~expired
  /\ expired' = TRUE
  /\ commandDue' = (command.status # "none")
  /\ UNCHANGED <<rows, worker, audit>>

CommandExpires ==
  /\ command.status # "none" /\ ~commandDue
  /\ commandDue' = TRUE
  /\ UNCHANGED <<rows, expired, worker, audit>>

CommandLeaseLapses ==
  /\ command.status \in Running /\ ~command.lapsed
  /\ command' = [command EXCEPT !.lapsed = TRUE]
  /\ UNCHANGED <<intent, message, expired, commandDue, worker, audit>>

WorkerDies(w) ==
  /\ ~At(w, "idle") /\ crashes < MaxCrashes
  /\ Finish(w) /\ crashes' = crashes + 1
  /\ UNCHANGED <<rows, expired, commandDue, delivered, entered>>

Consume(w) == \/ Claim(w) \/ Read(w) \/ Evaluate(w) \/ Materialize(w) \/ ReceiveCommand(w)
              \/ MarkCommandPending(w) \/ MarkSuppressed(w) \/ MarkPreDispatchFailure(w)

Dispatch(w) == \/ Execute(w) \/ EnterHandler(w) \/ Send(w) \/ CompleteOutbound(w) \/ Record(w)

Cycle(w) == \/ StartCycle(w) \/ Consume(w)
            \/ List(w) \/ Dispatch(w) \/ Observe(w) \/ Apply(w)
            \/ Sweep(w) \/ SettleMaintenance(w)

Next ==
  \/ Enqueue
  \/ \E w \in Workers : Cycle(w) \/ WorkerDies(w)
  \/ Approve \/ RejectCommand \/ CancelOutbound
  \/ LeaseLapses \/ RetryDue \/ IntentExpires \/ CommandExpires \/ CommandLeaseLapses

Spec == Init /\ [][Next]_vars

(* The worker's timer starts a cycle a second after the last one ended,    *)
(* every stage catches what it throws, and time passes.                    *)
Fairness ==
  /\ \A w \in Workers : WF_vars(Cycle(w))
  /\ WF_vars(LeaseLapses) /\ WF_vars(RetryDue) /\ WF_vars(CommandLeaseLapses)

FairSpec == Spec /\ Fairness

----------------------------------------------------------------------------
(* Properties.                                                             *)

(* Every variable keeps its type: the rows the notification workers share  *)
(* and what each of them holds between two statements.                     *)
TypeOK ==
  /\ intent \in Intent
  /\ message \in Messages
  /\ command \in [status : Commands, by : Workers \cup {Nobody}, lapsed : BOOLEAN]
  /\ expired \in BOOLEAN /\ commandDue \in BOOLEAN
  /\ worker \in [Workers -> [step : Steps, version : Nat, status : Statuses, outcome : Outcomes]]
  /\ delivered \in Nat /\ entered \in Nat /\ crashes \in Nat

(* Claims and reconciliations share one counter of attempts, and the       *)
(* deferral adds to it without looking: only the version of the snapshot   *)
(* keeps two workers from counting past maxAttempts.                       *)
BudgetRespected == intent.attempts <= MaxAttempts

(* The provider accepts the message of an intent at most once, whatever    *)
(* was claimed twice, recovered, retried or executed by two workers.       *)
DeliveredOnce == delivered <= 1

(* No false success: an intent is DISPATCHED or SUCCEEDED only if the      *)
(* provider accepted its message.                                          *)
NoFalseSuccess == intent.status \in {"DISPATCHED", "SUCCEEDED"} => delivered > 0

(* A settled intent stays as it is: no late worker, sweep or observation   *)
(* of an older snapshot writes it again.                                   *)
SettledForever == [][intent.status \in Settled => UNCHANGED intent]_vars

(* Every intent is settled in the end, whatever was lost on the way.       *)
EventuallySettled == intent.status # "ABSENT" ~> intent.status \in Settled

(* The pipeline keeps the promise its command makes: nothing is sent       *)
(* before the intent is handed on, at most once, and SUCCEEDED is said of  *)
(* a message that was sent.                                                *)
PhaseOf(status) ==
  IF status \in {"ABSENT"} \cup Queued THEN "waiting"
  ELSE IF status \in HandedOn THEN "started"
  ELSE IF status = "SUCCEEDED" THEN "succeeded"
  ELSE "abandoned"

Promise == INSTANCE OnceOnly WITH phase <- PhaseOf(intent.status), ran <- delivered > 0

KeepsPromise == Promise!Spec
=============================================================================
