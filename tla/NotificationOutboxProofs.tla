---------------------- MODULE NotificationOutboxProofs ----------------------
(***************************************************************************)
(* NotificationOutbox, for any number of workers, attempts and crashes,    *)
(* and whether or not the command policy lets the message be sent.         *)
(*                                                                         *)
(* Three arguments meet in the inductive invariant.  Every write takes the *)
(* row to a new version, so a snapshot of an older version writes nothing  *)
(* and one of this version still says the truth about the row (Snapshot).  *)
(* A command that was entered is never startable again, so only one worker *)
(* is ever inside the handler, and nothing was delivered before it was     *)
(* (HandlerOnce).  Whatever says that the message was sent, a row or the   *)
(* outcome a worker carries to it, says it after the fact (Truthful).      *)
(***************************************************************************)
EXTENDS NotificationOutbox, TLAPS

(* Steps of a worker that holds a snapshot of a row that was handed on.    *)
Reconciling == {"execute", "enter", "send", "complete", "record", "observe", "apply"}
Inside      == {"send", "complete", "record"}

(* What a command says that no worker has entered.                         *)
Unentered == {"none", "open", "approved", "rejected", "expired", "retryable", "claimed"}

RowAtRest ==
  /\ intent.status = "ABSENT" => intent = NoIntent
  /\ intent.status \in Settled => intent.lease = "none" /\ intent.retry = "none"

Snapshot(w) ==
  /\ worker[w].version <= intent.version
  /\ worker[w].step \in Reconciling =>
       /\ worker[w].status \in HandedOn
       /\ intent.status \in HandedOn \cup Settled
       /\ worker[w].version = intent.version => intent.attempts < MaxAttempts
  /\ worker[w].step = "settle" =>
       /\ worker[w].status \in Queued \cup HandedOn
       /\ worker[w].outcome \in {"EXPIRED", "UNKNOWN_RESULT", "FAILED"}

HandlerOnce ==
  /\ command.status \in Unentered => entered = 0
  /\ entered = 0 => delivered = 0 /\ \A w \in Workers : worker[w].step \notin Inside
  /\ entered <= 1 /\ delivered <= 1
  /\ \A w \in Workers : worker[w].step = "send" =>
       delivered = 0 /\ \A v \in Workers \ {w} : worker[v].step # "send"

Truthful(w) ==
  /\ worker[w].step = "complete" => worker[w].outcome \in {"sent", "refused", "unknown"}
  /\ worker[w].step = "record" => worker[w].outcome \in {"sent", "refused", "unknown", "guard"}
  /\ worker[w].step \in {"complete", "record"} /\ worker[w].outcome = "sent" => delivered > 0
  /\ worker[w].step = "apply" /\ worker[w].outcome \in {"DISPATCHED", "OUTBOUND_SUCCEEDED"} =>
       delivered > 0

RowsTruthful ==
  command.status = "sent" \/ message = "SENT" \/ intent.status \in {"DISPATCHED", "SUCCEEDED"} =>
    delivered > 0

Inductive ==
  /\ TypeOK
  /\ RowAtRest
  /\ BudgetRespected
  /\ \A w \in Workers : Snapshot(w)
  /\ HandlerOnce
  /\ RowsTruthful
  /\ \A w \in Workers : Truthful(w)

----------------------------------------------------------------------------
(* What the operators that the actions share do to the fields of a row.    *)

WorkerRow  == [step : Steps, version : Nat, status : Statuses, outcome : Outcomes]
CommandRow == [status : Commands, by : Workers \cup {Nobody}, lapsed : BOOLEAN]

USE DEF WorkerRow, CommandRow

(* The other workers keep what they hold.                                  *)
OthersKeep(w) == \A v \in Workers \ {w} : worker'[v] = worker[v]

LEMMA Typed ==
  ASSUME TypeOK
  PROVE  /\ intent \in Intent
         /\ worker \in [Workers -> WorkerRow]
         /\ command \in CommandRow
         /\ message \in Messages
         /\ expired \in BOOLEAN /\ commandDue \in BOOLEAN
         /\ delivered \in Nat /\ entered \in Nat /\ crashes \in Nat
BY DEF TypeOK

LEMMA WorkerGoes ==
  ASSUME TypeOK, NEW w \in Workers, NEW step \in Steps, Goto(w, step)
  PROVE  /\ worker' \in [Workers -> WorkerRow] /\ OthersKeep(w)
         /\ worker'[w].step = step /\ worker'[w].version = worker[w].version
         /\ worker'[w].status = worker[w].status /\ worker'[w].outcome = worker[w].outcome
BY Typed DEF Goto, OthersKeep

LEMMA WorkerTakes ==
  ASSUME TypeOK, NEW w \in Workers, NEW step \in Steps, NEW outcome \in Outcomes,
         Take(w, step, outcome)
  PROVE  /\ worker' \in [Workers -> WorkerRow] /\ OthersKeep(w)
         /\ worker'[w].step = step /\ worker'[w].version = intent.version
         /\ worker'[w].status = intent.status /\ worker'[w].outcome = outcome
BY Typed DEF Take, OthersKeep, Intent

LEMMA WorkerFinishes ==
  ASSUME TypeOK, NEW w \in Workers, Finish(w)
  PROVE  worker' \in [Workers -> WorkerRow] /\ OthersKeep(w) /\ worker'[w] = Idle
BY Typed DEF Finish, OthersKeep, Idle, Steps, Statuses, Outcomes

LEMMA WorkerConcludes ==
  ASSUME TypeOK, NEW w \in Workers, NEW outcome \in Outcomes, Conclude(w, outcome)
  PROVE  /\ worker' \in [Workers -> WorkerRow] /\ OthersKeep(w)
         /\ worker'[w].step = "apply" /\ worker'[w].version = worker[w].version
         /\ worker'[w].status = worker[w].status /\ worker'[w].outcome = outcome
BY Typed DEF Conclude, OthersKeep, Steps

LEMMA IntentSettles ==
  ASSUME TypeOK, NEW status \in Statuses, Settle(status)
  PROVE  /\ intent' \in Intent /\ intent'.status = status
         /\ intent'.version = intent.version + 1 /\ intent'.attempts = intent.attempts
         /\ intent'.lease = "none" /\ (status \in Settled => intent'.retry = "none")
<1> DEFINE version == intent.version + 1
           retry   == IF status \in Settled THEN "none" ELSE intent.retry
<1>1. intent' = [intent EXCEPT !.status = status, !.version = version, !.owner = Nobody,
                   !.lease = "none", !.retry = retry]
  BY DEF Settle
<1>2. version \in Nat /\ version = intent.version + 1
  BY Typed DEF Intent
<1>3. retry \in {"none", "waiting", "due"} /\ (status \in Settled => retry = "none")
  BY Typed DEF Intent
<1> HIDE DEF version, retry
<1> QED
  BY Typed, <1>1, <1>2, <1>3 DEF Intent

LEMMA IntentDefers ==
  ASSUME TypeOK, Defer
  PROVE  /\ intent' \in Intent /\ intent'.status = intent.status
         /\ intent'.version = intent.version + 1 /\ intent'.attempts = intent.attempts + 1
         /\ intent'.lease = intent.lease /\ intent'.retry = "waiting"
<1> DEFINE version == intent.version + 1  attempts == intent.attempts + 1
<1>1. intent' = [intent EXCEPT !.attempts = attempts, !.version = version, !.retry = "waiting"]
  BY DEF Defer
<1>2. /\ version \in Nat /\ version = intent.version + 1
      /\ attempts \in Nat /\ attempts = intent.attempts + 1
  BY Typed DEF Intent
<1> HIDE DEF version, attempts
<1> QED
  BY Typed, <1>1, <1>2 DEF Intent

LEMMA CommandSet ==
  ASSUME TypeOK, NEW status \in Commands, SetCommand(status)
  PROVE  command' \in CommandRow /\ command'.status = status
BY Typed DEF SetCommand

----------------------------------------------------------------------------
(* What a step may do to the row.  A settled row stays; a row that was     *)
(* handed on is never queued again; SUCCEEDED comes after handing on; and  *)
(* a write that keeps the version keeps what a snapshot is about.          *)
RowMoves ==
  \/ /\ intent'.version = intent.version /\ intent'.status = intent.status
     /\ intent'.attempts = intent.attempts
     /\ intent.status \in Settled => UNCHANGED intent
  \/ /\ intent.status \notin Settled
     /\ intent'.version >= intent.version
     /\ intent'.version = intent.version => intent.status = "ABSENT"
     /\ intent.status \in HandedOn => intent'.status \in HandedOn \cup Settled
     /\ intent'.status = "SUCCEEDED" => intent.status \in HandedOn

RowKept == RowMoves /\ RowAtRest' /\ BudgetRespected'

(* The message is delivered by a step that leaves the row alone, once.     *)
DeliveryMoves ==
  delivered' # delivered =>
    /\ UNCHANGED intent /\ intent.status \in HandedOn \cup Settled
    /\ delivered = 0 /\ delivered' = 1

StepKeeps == Inductive' /\ RowMoves /\ DeliveryMoves

(* A step that does not write the row, or settles it or hands it on.      *)
LEMMA SameRow ==
  ASSUME Inductive, UNCHANGED intent
  PROVE  RowKept
BY DEF Inductive, RowKept, RowMoves, RowAtRest, BudgetRespected

LEMMA SettledRow ==
  ASSUME Inductive, NEW status \in HandedOn \cup Settled, Settle(status),
         intent.status \in Queued \cup HandedOn,
         status = "SUCCEEDED" => intent.status \in HandedOn
  PROVE  RowKept
<1>1. status \in Statuses /\ status # "ABSENT"
  BY DEF Statuses, HandedOn, Settled
<1>2. intent.status \notin Settled
  BY DEF Queued, HandedOn, Settled
<1>3. intent.status # "ABSENT"
  BY DEF Queued, HandedOn
<1>4. TypeOK /\ BudgetRespected
  BY DEF Inductive
<1>5. intent.version \in Nat
  BY <1>4, Typed DEF Intent
<1> QED
  BY <1>1, <1>2, <1>3, <1>4, <1>5, IntentSettles DEF RowKept, RowMoves, RowAtRest, BudgetRespected

(* The workers that do not move stay true to the row.                      *)
LEMMA OthersStay ==
  ASSUME Inductive, NEW v \in Workers, worker'[v] = worker[v], RowMoves, TypeOK',
         delivered' >= delivered
  PROVE  Snapshot(v)' /\ Truthful(v)'
<1>1. Snapshot(v) /\ Truthful(v)
  BY DEF Inductive
<1>2. /\ worker[v].version \in Nat /\ intent.version \in Nat /\ intent'.version \in Nat
      /\ delivered \in Nat /\ delivered' \in Nat
  BY Typed DEF Inductive, TypeOK, Intent
<1>3. Snapshot(v)'
  <2>1. worker[v].version <= intent'.version
    BY <1>1, <1>2 DEF Snapshot, RowMoves
  <2>2. CASE worker[v].step \in Reconciling
    <3>1. intent'.status \in HandedOn \cup Settled
      BY <1>1, <2>2 DEF Snapshot, RowMoves
    <3>2. ASSUME worker[v].version = intent'.version PROVE intent'.attempts < MaxAttempts
      <4>1. worker[v].version = intent.version /\ intent'.version = intent.version
        BY <1>1, <1>2, <3>2 DEF Snapshot, RowMoves
      <4>2. intent.status # "ABSENT"
        BY <1>1, <2>2 DEF Snapshot, HandedOn, Settled
      <4> QED
        BY <1>1, <2>2, <4>1, <4>2 DEF Snapshot, RowMoves
    <3> QED
      BY <1>1, <2>1, <2>2, <3>1, <3>2 DEF Snapshot, Reconciling
  <2>3. CASE worker[v].step \notin Reconciling
    BY <1>1, <2>1, <2>3 DEF Snapshot
  <2> QED
    BY <2>2, <2>3
<1>4. Truthful(v)'
  BY <1>1, <1>2 DEF Truthful
<1> QED
  BY <1>3, <1>4

(* A step of a worker that does not send keeps everything if it keeps the  *)
(* row, and what that worker holds is true.                                *)
LEMMA WorkerStep ==
  ASSUME Inductive, NEW w \in Workers, OthersKeep(w), TypeOK', RowKept,
         Snapshot(w)', Truthful(w)', RowsTruthful',
         UNCHANGED <<delivered, entered>>,
         command'.status \in Unentered => command.status \in Unentered,
         worker'[w].step \in Inside => worker[w].step \in Inside,
         worker'[w].step # "send"
  PROVE  StepKeeps
<1>1. /\ TypeOK' /\ RowMoves /\ RowAtRest' /\ BudgetRespected' /\ RowsTruthful' /\ DeliveryMoves
  BY DEF RowKept, DeliveryMoves
<1>2. ASSUME NEW v \in Workers PROVE Snapshot(v)' /\ Truthful(v)'
  BY <1>1, OthersStay, Typed DEF OthersKeep, Inductive
<1>3. HandlerOnce'
  BY DEF Inductive, HandlerOnce, OthersKeep
<1> QED
  BY <1>1, <1>2, <1>3 DEF StepKeeps, Inductive

(* The same for a step of no worker.                                       *)
LEMMA EnvironmentStep ==
  ASSUME Inductive, TypeOK', RowKept, RowsTruthful', UNCHANGED <<worker, delivered, entered>>,
         command'.status \in Unentered => command.status \in Unentered
  PROVE  StepKeeps
<1>1. /\ TypeOK' /\ RowMoves /\ RowAtRest' /\ BudgetRespected' /\ RowsTruthful' /\ DeliveryMoves
  BY DEF RowKept, DeliveryMoves
<1>2. ASSUME NEW v \in Workers PROVE Snapshot(v)' /\ Truthful(v)'
  BY <1>1, OthersStay, Typed DEF Inductive
<1>3. HandlerOnce'
  BY DEF Inductive, HandlerOnce
<1> QED
  BY <1>1, <1>2, <1>3 DEF StepKeeps, Inductive

(* A worker that goes on outside the handler, with a row that is kept.     *)
LEMMA QuietStep ==
  ASSUME Inductive, NEW w \in Workers,
         NEW step \in Steps \ (Inside \cup Reconciling \cup {"settle"}), Goto(w, step),
         intent' \in Intent, RowKept, RowsTruthful', message' \in Messages,
         UNCHANGED <<command, expired, commandDue, audit>>
  PROVE  StepKeeps
<1>1. TypeOK /\ Snapshot(w) /\ Truthful(w)
  BY DEF Inductive
<1>2. /\ worker' \in [Workers -> WorkerRow] /\ OthersKeep(w)
      /\ worker'[w].step = step /\ worker'[w].version = worker[w].version
  BY <1>1, WorkerGoes
<1>3. TypeOK'
  BY <1>1, <1>2, Typed DEF TypeOK, audit
<1>4. Snapshot(w)'
  <2>1. worker[w].version \in Nat /\ intent.version \in Nat /\ intent'.version \in Nat
    BY <1>1, Typed DEF Intent
  <2>2. intent.version <= intent'.version
    BY <2>1 DEF RowKept, RowMoves
  <2> QED
    BY <1>1, <1>2, <2>1, <2>2 DEF Snapshot
<1>5. Truthful(w)'
  BY <1>2 DEF Truthful, Inside, Reconciling
<1> QED
  BY <1>2, <1>3, <1>4, <1>5, WorkerStep DEF audit, Inside

(* It writes nothing, or settles the row, or hands it on.                  *)
LEMMA OutsideStep ==
  ASSUME Inductive, NEW w \in Workers,
         NEW step \in Steps \ (Inside \cup Reconciling \cup {"settle"}), Goto(w, step),
         UNCHANGED <<rows, expired, commandDue, audit>>
  PROVE  StepKeeps
<1>1. intent' \in Intent /\ message' \in Messages /\ UNCHANGED intent
  BY Typed DEF Inductive, rows
<1>2. RowsTruthful'
  BY DEF Inductive, RowsTruthful, rows, audit
<1> QED
  BY <1>1, <1>2, SameRow, QuietStep DEF rows

LEMMA WriteStep ==
  ASSUME Inductive, NEW w \in Workers,
         NEW step \in Steps \ (Inside \cup Reconciling \cup {"settle"}), Goto(w, step),
         NEW status \in (HandedOn \cup Settled) \ {"DISPATCHED", "SUCCEEDED"}, Settle(status),
         intent.status \in Queued \cup HandedOn,
         UNCHANGED <<message, command, expired, commandDue, audit>>
  PROVE  StepKeeps
<1>1. TypeOK /\ status \in Statuses
  BY DEF Inductive, Statuses
<1>2. intent' \in Intent /\ intent'.status = status /\ message' \in Messages
  BY <1>1, Typed, IntentSettles
<1>3. RowKept
  BY SettledRow
<1>4. RowsTruthful'
  BY <1>2 DEF Inductive, RowsTruthful, audit
<1> QED
  BY <1>2, <1>3, <1>4, QuietStep

----------------------------------------------------------------------------
(* A cycle: the consumption of the intent.                                 *)

LEMMA StartCycleStep ==
  ASSUME Inductive, NEW w \in Workers, StartCycle(w) PROVE StepKeeps
<1> DEFINE step == IF Claimable THEN "claim" ELSE "list"
<1>1. TypeOK /\ step \in Steps \ (Inside \cup Reconciling \cup {"settle"})
  BY DEF Inductive, Steps, Inside, Reconciling
<1>2. Goto(w, step) /\ UNCHANGED <<rows, expired, commandDue, audit>>
  BY DEF StartCycle
<1> HIDE DEF step
<1> QED
  BY <1>1, <1>2, OutsideStep

(* The three ways of taking a claim: the row expires, is claimed, or fails. *)
LEMMA ClaimStep ==
  ASSUME Inductive, NEW w \in Workers, Claim(w) PROVE StepKeeps
<1> USE DEF Inside, Reconciling, Steps
<1>1. TypeOK /\ intent \in Intent /\ message \in Messages
  BY Typed DEF Inductive
<1>2. UNCHANGED <<message, command, expired, commandDue, audit>>
  BY DEF Claim
<1>3. CASE intent.status \in Queued /\ Settle("EXPIRED") /\ Goto(w, "list")
  BY <1>1, <1>2, <1>3, WriteStep DEF HandedOn, Settled
<1>4. CASE Free /\ Settle("FAILED") /\ Goto(w, "list")
  BY <1>1, <1>2, <1>4, WriteStep DEF HandedOn, Settled, Free, Queued
<1>5. CASE Goto(w, "list") /\ UNCHANGED intent
  BY <1>1, <1>2, <1>5, OutsideStep DEF rows
<1>6. CASE Claimable /\ Goto(w, "read")
           /\ intent' = [intent EXCEPT !.status = "CLAIMED", !.owner = w, !.lease = "live",
                           !.retry = "none", !.attempts = @ + 1, !.version = @ + 1]
  <2> DEFINE version == intent.version + 1  attempts == intent.attempts + 1
  <2>1. /\ version \in Nat /\ version > intent.version
        /\ attempts \in Nat /\ attempts <= MaxAttempts
    BY <1>1, <1>6, OutboxAssumption DEF Intent, Claimable
  <2>2. intent' = [intent EXCEPT !.status = "CLAIMED", !.owner = w, !.lease = "live",
                     !.retry = "none", !.attempts = attempts, !.version = version]
    BY <1>6
  <2> HIDE DEF version, attempts
  <2>3. /\ intent' \in Intent /\ intent'.status = "CLAIMED" /\ intent'.version > intent.version
        /\ intent'.attempts <= MaxAttempts
    BY <1>1, <2>1, <2>2 DEF Intent, Statuses, Queued
  <2>4. intent.status \in Queued
    BY <1>6 DEF Claimable, Free, Queued
  <2>5. RowKept
    BY <1>1, <2>3, <2>4
       DEF RowKept, RowMoves, RowAtRest, BudgetRespected, Queued, HandedOn, Settled, Intent
  <2>6. RowsTruthful'
    BY <1>2, <2>3 DEF Inductive, RowsTruthful, audit
  <2> QED
    BY <1>1, <1>2, <1>6, <2>3, <2>5, <2>6, QuietStep
<1> QED
  BY <1>3, <1>4, <1>5, <1>6 DEF Claim

LEMMA ReadStep ==
  ASSUME Inductive, NEW w \in Workers, Read(w) PROVE StepKeeps
<1>1. /\ worker' \in [Workers -> WorkerRow] /\ OthersKeep(w)
      /\ worker'[w].step = "policy" /\ worker'[w].version = intent.version
  BY WorkerTakes DEF Read, Inductive, Steps, Outcomes
<1>2. UNCHANGED <<rows, expired, commandDue, audit>>
  BY DEF Read
<1>3. TypeOK'
  BY <1>1, <1>2, Typed DEF Inductive, TypeOK, rows, audit
<1>4. RowKept
  BY <1>2, SameRow DEF rows
<1>5. Snapshot(w)' /\ Truthful(w)'
  BY <1>1, <1>2, Typed DEF Inductive, Snapshot, Truthful, Reconciling, Intent, rows
<1>6. RowsTruthful'
  BY <1>2 DEF Inductive, RowsTruthful, rows, audit
<1> QED
  BY <1>1, <1>2, <1>3, <1>4, <1>5, <1>6, WorkerStep DEF Inside, rows, audit

LEMMA EvaluateStep ==
  ASSUME Inductive, NEW w \in Workers, Evaluate(w) PROVE StepKeeps
<1> USE DEF Inside, Reconciling, Steps
<1>1. PICK step \in {"suppress", "materialize", "list", "giveUp"} : Goto(w, step)
  BY DEF Evaluate, GoIfRenewed
<1> QED
  BY <1>1, OutsideStep DEF Evaluate

LEMMA MaterializeStep ==
  ASSUME Inductive, NEW w \in Workers, Materialize(w) PROVE StepKeeps
<1> USE DEF Inside, Reconciling, Steps
<1>1. PICK step \in {"receive", "list", "suppress", "giveUp"} : Goto(w, step)
  BY DEF Materialize, GoIfRenewed
<1>2. message' \in Messages /\ (message' = "SENT" => message = "SENT")
  BY Typed DEF Inductive, Materialize, Messages
<1>3. UNCHANGED <<intent, command, expired, commandDue, audit>>
  BY DEF Materialize
<1>4. RowsTruthful'
  BY <1>2, <1>3 DEF Inductive, RowsTruthful, audit
<1> QED
  BY <1>1, <1>2, <1>3, <1>4, SameRow, Typed, QuietStep DEF Inductive

(* The command of an earlier call is found, not received again.            *)
LEMMA ReceiveStep ==
  ASSUME Inductive, NEW w \in Workers, ReceiveCommand(w) PROVE StepKeeps
<1>1. PICK step \in {"bind", "list", "suppress", "giveUp"} : Goto(w, step)
  BY DEF ReceiveCommand, GoIfRenewed
<1>2. UNCHANGED <<intent, message, expired, commandDue, audit>>
  BY DEF ReceiveCommand
<1>3. /\ command' \in CommandRow /\ (command'.status = "sent" => command.status = "sent")
      /\ command'.status \in Unentered => command.status \in Unentered
  BY Typed DEF Inductive, ReceiveCommand, Commands, Unentered
<1>4. /\ worker' \in [Workers -> WorkerRow] /\ OthersKeep(w)
      /\ worker'[w].step = step /\ worker'[w].version = worker[w].version
  BY <1>1, WorkerGoes DEF Inductive, Steps
<1>5. TypeOK'
  BY <1>2, <1>3, <1>4, Typed DEF Inductive, TypeOK, audit
<1>6. Snapshot(w)' /\ Truthful(w)'
  BY <1>2, <1>4 DEF Inductive, Snapshot, Truthful, Reconciling
<1>7. RowsTruthful'
  BY <1>2, <1>3 DEF Inductive, RowsTruthful, audit
<1> QED
  BY <1>2, <1>3, <1>4, <1>5, <1>6, <1>7, SameRow, WorkerStep DEF Inside, audit

LEMMA MarkCommandPendingStep ==
  ASSUME Inductive, NEW w \in Workers, MarkCommandPending(w) PROVE StepKeeps
<1> USE DEF Inside, Reconciling, Steps
<1>1. CASE HoldsClaim(w)
  BY <1>1, WriteStep DEF MarkCommandPending, HoldsClaim, HandedOn, Queued
<1>2. CASE ~HoldsClaim(w)
  BY <1>2, OutsideStep DEF MarkCommandPending, rows
<1> QED
  BY <1>1, <1>2

LEMMA MarkSuppressedStep ==
  ASSUME Inductive, NEW w \in Workers, MarkSuppressed(w) PROVE StepKeeps
<1> USE DEF Inside, Reconciling, Steps
<1>1. CASE HoldsClaim(w)
  BY <1>1, WriteStep DEF MarkSuppressed, HoldsClaim, Settled, Queued
<1>2. CASE ~HoldsClaim(w)
  BY <1>2, OutsideStep DEF MarkSuppressed, rows
<1> QED
  BY <1>1, <1>2

LEMMA MarkPreDispatchFailureStep ==
  ASSUME Inductive, NEW w \in Workers, MarkPreDispatchFailure(w) PROVE StepKeeps
<1> USE DEF Inside, Reconciling, Steps
<1>1. Goto(w, "list") /\ UNCHANGED <<message, command, expired, commandDue, audit>>
  BY DEF MarkPreDispatchFailure
<1>2. CASE ~HoldsClaim(w)
  BY <1>1, <1>2, OutsideStep DEF MarkPreDispatchFailure, rows
<1>3. CASE HoldsClaim(w) /\ intent.attempts >= MaxAttempts
  <2>1. Settle("FAILED")
    BY <1>3, Typed, OutboxAssumption DEF MarkPreDispatchFailure, Inductive, Intent
  <2> QED
    BY <1>1, <1>3, <2>1, WriteStep DEF HoldsClaim, Settled, Queued
<1>4. CASE HoldsClaim(w) /\ intent.attempts < MaxAttempts
  <2> DEFINE version == intent.version + 1
  <2>1. version \in Nat /\ version > intent.version /\ intent.status = "CLAIMED"
    BY <1>4, Typed DEF Inductive, Intent, HoldsClaim
  <2>2. intent' = [intent EXCEPT !.status = "PENDING", !.version = version, !.owner = Nobody,
                     !.lease = "none", !.retry = "waiting"]
    BY <1>4 DEF MarkPreDispatchFailure
  <2> HIDE DEF version
  <2>3. /\ intent' \in Intent /\ intent'.status = "PENDING" /\ intent'.version > intent.version
        /\ intent'.attempts = intent.attempts
    BY <2>1, <2>2, Typed DEF Inductive, Intent, Statuses, Queued
  <2>4. RowKept
    BY <2>1, <2>3, Typed
       DEF Inductive, RowKept, RowMoves, RowAtRest, BudgetRespected, HandedOn, Settled, Intent
  <2>5. RowsTruthful' /\ message' \in Messages
    BY <1>1, <2>3, Typed DEF Inductive, RowsTruthful, audit
  <2> QED
    BY <1>1, <2>3, <2>4, <2>5, QuietStep
<1> QED
  BY <1>2, <1>3, <1>4, Typed, OutboxAssumption DEF Inductive, Intent

----------------------------------------------------------------------------
(* A cycle: dispatch and reconciliation.                                   *)

(* A worker that moves on with its snapshot of a row it does not write.    *)
LEMMA SnapshotCarried ==
  ASSUME Inductive, NEW w \in Workers, UNCHANGED intent,
         worker[w].step \in Reconciling, worker'[w].step \in Reconciling,
         worker'[w].version = worker[w].version, worker'[w].status = worker[w].status
  PROVE  Snapshot(w)'
BY DEF Inductive, Snapshot, Reconciling

LEMMA ListStep ==
  ASSUME Inductive, NEW w \in Workers, List(w) PROVE StepKeeps
<1>1. UNCHANGED <<rows, expired, commandDue, audit>> /\ TypeOK
  BY DEF List, Inductive
<1>2. CASE Goto(w, "sweep")
  BY <1>1, <1>2, OutsideStep DEF Inside, Reconciling, Steps
<1>3. ASSUME NEW step \in {"execute", "observe"}, Take(w, step, "none"),
             intent.status \in HandedOn, intent.attempts < MaxAttempts
      PROVE  StepKeeps
  <2>1. /\ worker' \in [Workers -> WorkerRow] /\ OthersKeep(w) /\ worker'[w].step = step
        /\ worker'[w].version = intent.version /\ worker'[w].status = intent.status
    BY <1>1, <1>3, WorkerTakes DEF Steps, Outcomes
  <2>2. TypeOK'
    BY <1>1, <2>1, Typed DEF TypeOK, rows, audit
  <2>3. Snapshot(w)' /\ Truthful(w)'
    BY <1>1, <1>3, <2>1, Typed DEF Snapshot, Truthful, Intent, rows
  <2>4. RowKept /\ RowsTruthful'
    BY <1>1, SameRow DEF Inductive, RowsTruthful, rows, audit
  <2> QED
    BY <1>1, <2>1, <2>2, <2>3, <2>4, WorkerStep DEF Inside, rows, audit
<1> QED
  BY <1>2, <1>3 DEF List

(* The answer to a reconciling worker, with what it did to the command.    *)
LEMMA Concluded ==
  ASSUME Inductive, NEW w \in Workers, worker[w].step \in Reconciling,
         NEW outcome \in Outcomes, Conclude(w, outcome),
         command' \in CommandRow,
         command'.status \in Unentered => command.status \in Unentered,
         outcome \in {"DISPATCHED", "OUTBOUND_SUCCEEDED"} \/ command'.status = "sent" =>
           delivered > 0,
         UNCHANGED <<intent, message, expired, commandDue, audit>>
  PROVE  StepKeeps
<1>1. /\ worker' \in [Workers -> WorkerRow] /\ OthersKeep(w)
      /\ worker'[w].step = "apply" /\ worker'[w].version = worker[w].version
      /\ worker'[w].status = worker[w].status /\ worker'[w].outcome = outcome
  BY WorkerConcludes DEF Inductive
<1>2. TypeOK'
  BY <1>1, Typed DEF Inductive, TypeOK, audit
<1>3. Snapshot(w)'
  BY <1>1, SnapshotCarried DEF Reconciling
<1>4. Truthful(w)' /\ RowsTruthful'
  BY <1>1 DEF Inductive, Truthful, RowsTruthful, audit
<1> QED
  BY <1>1, <1>2, <1>3, <1>4, SameRow, WorkerStep DEF Inside, audit

LEMMA ExecuteStep ==
  ASSUME Inductive, NEW w \in Workers, Execute(w) PROVE StepKeeps
<1>1. worker[w].step \in Reconciling /\ command \in CommandRow
  BY Typed DEF Execute, At, Reconciling, Inductive
<1>2. UNCHANGED <<intent, message, expired, commandDue, audit>>
  BY DEF Execute
<1>3. command.status = "sent" => delivered > 0
  BY DEF Inductive, RowsTruthful
<1>4. ASSUME NEW outcome \in {"DISPATCHED", "COMMAND_REJECTED", "COMMAND_PENDING"},
             Conclude(w, outcome), UNCHANGED command,
             outcome = "DISPATCHED" => command.status = "sent"
      PROVE  StepKeeps
  BY <1>1, <1>2, <1>3, <1>4, Concluded DEF Outcomes
<1>5. ASSUME NEW outcome \in {"COMMAND_REJECTED", "RESULT_UNKNOWN"}, Conclude(w, outcome),
             NEW status \in {"unknown", "expired", "retryable"}, SetCommand(status),
             status \in Unentered => command.status \in Unentered
      PROVE  StepKeeps
  <2>1. command' \in CommandRow /\ command'.status = status
    BY <1>5, CommandSet DEF Inductive, Commands
  <2> QED
    BY <1>1, <1>2, <1>5, <2>1, Concluded DEF Outcomes
<1>6. CASE Startable /\ Goto(w, "enter")
           /\ command' = [status |-> "claimed", by |-> w, lapsed |-> FALSE]
  <2>1. /\ worker' \in [Workers -> WorkerRow] /\ OthersKeep(w)
        /\ worker'[w].step = "enter" /\ worker'[w].version = worker[w].version
        /\ worker'[w].status = worker[w].status
    BY <1>6, WorkerGoes DEF Inductive, Steps
  <2>2. command' \in CommandRow /\ command'.status = "claimed" /\ command.status \in Unentered
    BY <1>6 DEF Commands, Running, Startable, Unentered
  <2>3. TypeOK'
    BY <1>2, <2>1, <2>2, Typed DEF Inductive, TypeOK, audit
  <2>4. Snapshot(w)'
    BY <1>1, <1>2, <2>1, SnapshotCarried DEF Reconciling
  <2>5. Truthful(w)' /\ RowsTruthful'
    BY <1>2, <2>1, <2>2 DEF Inductive, Truthful, RowsTruthful, audit
  <2> QED
    BY <1>2, <2>1, <2>2, <2>3, <2>4, <2>5, SameRow, WorkerStep DEF Inside, audit
<1> QED
  <2>1. \/ \E outcome \in {"DISPATCHED", "COMMAND_REJECTED", "COMMAND_PENDING"} :
             /\ Conclude(w, outcome) /\ UNCHANGED command
             /\ outcome = "DISPATCHED" => command.status = "sent"
        \/ \E outcome \in {"COMMAND_REJECTED", "RESULT_UNKNOWN"},
              status \in {"unknown", "expired", "retryable"} :
             /\ Conclude(w, outcome) /\ SetCommand(status)
             /\ status \in Unentered => command.status \in Unentered
        \/ /\ Startable /\ Goto(w, "enter")
           /\ command' = [status |-> "claimed", by |-> w, lapsed |-> FALSE]
    BY DEF Execute, Startable, Unentered
  <2> QED
    BY <1>4, <1>5, <1>6, <2>1

(* Entering the handler: the command was never entered, so nobody else is  *)
(* inside and nothing was delivered.                                       *)
LEMMA EnterHandlerStep ==
  ASSUME Inductive, NEW w \in Workers, EnterHandler(w) PROVE StepKeeps
<1>1. worker[w].step \in Reconciling /\ command \in CommandRow /\ worker[w].step = "enter"
  BY Typed DEF EnterHandler, At, Reconciling, Inductive
<1>2. UNCHANGED <<intent, message, expired, commandDue, delivered, crashes>>
  BY DEF EnterHandler
<1>3. CASE RunsCommand(w, "claimed") /\ command' = [command EXCEPT !.status = "executing"]
           /\ entered' = entered + 1 /\ Goto(w, "send")
  <2>1. /\ worker' \in [Workers -> WorkerRow] /\ OthersKeep(w)
        /\ worker'[w].step = "send" /\ worker'[w].version = worker[w].version
        /\ worker'[w].status = worker[w].status
    BY <1>3, WorkerGoes DEF Inductive, Steps
  <2>2. command' \in CommandRow /\ command'.status = "executing"
    BY <1>1, <1>3 DEF Commands, Running
  <2>3. /\ entered = 0 /\ delivered = 0 /\ entered' = 1
        /\ \A v \in Workers : worker[v].step \notin Inside
    BY <1>3 DEF Inductive, HandlerOnce, RunsCommand, Unentered
  <2>4. TypeOK'
    BY <1>2, <2>1, <2>2, <2>3, Typed DEF Inductive, TypeOK
  <2>5. Snapshot(w)'
    BY <1>1, <1>2, <2>1, SnapshotCarried DEF Reconciling
  <2>6. RowKept
    BY <1>2, SameRow
  <2>7. ASSUME NEW v \in Workers PROVE Snapshot(v)' /\ Truthful(v)'
    <3>1. CASE v = w
      BY <2>1, <2>5, <3>1 DEF Truthful
    <3>2. CASE v # w
      BY <1>2, <2>1, <2>3, <2>4, <2>6, <3>2, OthersStay DEF OthersKeep, RowKept
    <3> QED
      BY <3>1, <3>2
  <2>8. HandlerOnce'
    BY <1>2, <2>1, <2>2, <2>3 DEF HandlerOnce, OthersKeep, Unentered, Inside
  <2>9. RowsTruthful' /\ DeliveryMoves
    BY <1>2, <2>2 DEF Inductive, RowsTruthful, DeliveryMoves
  <2> QED
    BY <2>4, <2>6, <2>7, <2>8, <2>9 DEF StepKeeps, Inductive, RowKept
<1>4. CASE SetCommand("failed") /\ Conclude(w, "COMMAND_REJECTED") /\ UNCHANGED entered
  <2>1. command' \in CommandRow /\ command'.status = "failed"
    BY <1>4, CommandSet DEF Inductive, Commands
  <2> QED
    BY <1>1, <1>2, <1>4, <2>1, Concluded DEF Outcomes, Unentered, audit
<1>5. ASSUME NEW outcome \in {"COMMAND_REJECTED", "RESULT_UNKNOWN"}, Conclude(w, outcome),
             UNCHANGED <<command, entered>>
      PROVE  StepKeeps
  BY <1>1, <1>2, <1>5, Concluded DEF Outcomes, audit, Inductive, RowsTruthful
<1> QED
  BY <1>3, <1>4, <1>5 DEF EnterHandler

(* The handler: nothing was delivered before, and nobody else is sending.  *)
LEMMA SendStep ==
  ASSUME Inductive, NEW w \in Workers, Send(w) PROVE StepKeeps
<1>1. /\ worker[w].step = "send" /\ worker[w].step \in Reconciling /\ worker[w].step \in Inside
      /\ UNCHANGED <<rows, expired, commandDue, entered, crashes>>
  BY DEF Send, At, Reconciling, Inside
<1>2. /\ delivered = 0 /\ entered # 0
      /\ \A v \in Workers \ {w} : worker[v].step # "send"
  BY <1>1 DEF Inductive, HandlerOnce
<1>3. PICK result \in {"guard", "sent", "refused", "unknown"}, accepted \in {0, 1} :
        /\ result = "sent" => accepted = 1
        /\ delivered' = delivered + accepted
        /\ worker' = [worker EXCEPT ![w].outcome = result,
                        ![w].step = IF result = "guard" THEN "record" ELSE "complete"]
  BY DEF Send
<1> DEFINE step == IF result = "guard" THEN "record" ELSE "complete"
<1>4. step \in {"record", "complete"} /\ (result = "guard" => step = "record")
  OBVIOUS
<1>5. worker' = [worker EXCEPT ![w] = [worker[w] EXCEPT !.outcome = result, !.step = step]]
  BY <1>3
<1> HIDE DEF step
<1>6. /\ worker' \in [Workers -> WorkerRow] /\ OthersKeep(w)
      /\ worker'[w].step = step /\ worker'[w].outcome = result
      /\ worker'[w].version = worker[w].version /\ worker'[w].status = worker[w].status
  <2> DEFINE row == [worker[w] EXCEPT !.outcome = result, !.step = step]
  <2>1. worker \in [Workers -> WorkerRow]
    BY Typed DEF Inductive
  <2>2. /\ row \in WorkerRow /\ row.step = step /\ row.outcome = result
        /\ row.version = worker[w].version /\ row.status = worker[w].status
    BY <1>4, <2>1 DEF Steps, Outcomes
  <2>3. worker' = [worker EXCEPT ![w] = row]
    BY <1>5
  <2> HIDE DEF row
  <2> QED
    BY <2>1, <2>2, <2>3 DEF OthersKeep
<1>7. delivered' \in {0, 1} /\ (result = "sent" => delivered' = 1)
  BY <1>2, <1>3
<1>8. TypeOK'
  BY <1>1, <1>6, <1>7, Typed DEF Inductive, TypeOK, rows
<1>9. RowKept /\ UNCHANGED intent
  BY <1>1, SameRow DEF rows
<1>10. Snapshot(w)'
  BY <1>1, <1>4, <1>6, <1>9, SnapshotCarried DEF Reconciling
<1>11. Truthful(w)'
  BY <1>3, <1>4, <1>6, <1>7 DEF Truthful
<1>12. ASSUME NEW v \in Workers PROVE Snapshot(v)' /\ Truthful(v)'
  <2>1. CASE v = w
    BY <1>10, <1>11, <2>1
  <2>2. CASE v # w
    BY <1>2, <1>6, <1>7, <1>8, <1>9, <2>2, OthersStay DEF OthersKeep, RowKept
  <2> QED
    BY <2>1, <2>2
<1>13. HandlerOnce'
  BY <1>1, <1>2, <1>4, <1>6, <1>7 DEF Inductive, HandlerOnce, OthersKeep, rows
<1>14. RowsTruthful'
  BY <1>1, <1>2, <1>7 DEF Inductive, RowsTruthful, rows
<1>15. DeliveryMoves
  BY <1>1, <1>2, <1>7, <1>9 DEF Inductive, Snapshot, DeliveryMoves
<1> QED
  BY <1>8, <1>9, <1>12, <1>13, <1>14, <1>15 DEF StepKeeps, Inductive, RowKept

LEMMA CompleteOutboundStep ==
  ASSUME Inductive, NEW w \in Workers, CompleteOutbound(w) PROVE StepKeeps
<1>1. /\ worker[w].step = "complete" /\ UNCHANGED <<intent, expired, commandDue, audit>>
      /\ TypeOK /\ Truthful(w) /\ RowsTruthful
  BY DEF CompleteOutbound, At, Inductive
<1>2. CASE /\ message' = IF worker[w].outcome = "sent" THEN "SENT"
                         ELSE IF worker[w].outcome = "refused" THEN "FAILED" ELSE "UNKNOWN_RESULT"
           /\ Goto(w, "record") /\ UNCHANGED command
  <2>1. /\ worker' \in [Workers -> WorkerRow] /\ OthersKeep(w)
        /\ worker'[w].step = "record" /\ worker'[w].outcome = worker[w].outcome
        /\ worker'[w].version = worker[w].version /\ worker'[w].status = worker[w].status
    BY <1>1, <1>2, WorkerGoes DEF Steps
  <2>2. message' \in Messages
    BY <1>2 DEF Messages
  <2>3. TypeOK'
    BY <1>1, <1>2, <2>1, <2>2, Typed DEF TypeOK, audit
  <2>4. Snapshot(w)'
    BY <1>1, <2>1, SnapshotCarried DEF Reconciling
  <2>5. Truthful(w)' /\ RowsTruthful'
    BY <1>1, <1>2, <2>1 DEF Truthful, RowsTruthful, audit
  <2> QED
    BY <1>1, <1>2, <2>1, <2>3, <2>4, <2>5, SameRow, WorkerStep DEF Inside, audit
<1>3. CASE /\ IF RunsCommand(w, "executing") THEN SetCommand("failed") ELSE UNCHANGED command
           /\ Goto(w, "sweep") /\ UNCHANGED message
  <2>1. /\ worker' \in [Workers -> WorkerRow] /\ OthersKeep(w)
        /\ worker'[w].step = "sweep" /\ worker'[w].version = worker[w].version
    BY <1>1, <1>3, WorkerGoes DEF Steps
  <2>2. command' \in CommandRow /\ (command'.status = "failed" \/ command' = command)
    BY <1>1, <1>3, CommandSet, Typed DEF Commands
  <2>3. TypeOK'
    BY <1>1, <1>3, <2>1, <2>2, Typed DEF TypeOK, audit
  <2>4. Snapshot(w)' /\ Truthful(w)'
    BY <1>1, <2>1 DEF Inductive, Snapshot, Truthful, Reconciling
  <2>5. RowsTruthful'
    BY <1>1, <1>3, <2>2 DEF RowsTruthful, audit
  <2> QED
    BY <1>1, <2>1, <2>2, <2>3, <2>4, <2>5, SameRow, WorkerStep DEF Inside, Unentered, audit
<1> QED
  BY <1>2, <1>3 DEF CompleteOutbound

LEMMA RecordStep ==
  ASSUME Inductive, NEW w \in Workers, Record(w) PROVE StepKeeps
<1> DEFINE result == worker[w].outcome
<1>1. /\ worker[w].step = "record" /\ worker[w].step \in Reconciling
      /\ UNCHANGED <<intent, message, expired, commandDue, audit>>
      /\ TypeOK /\ command \in CommandRow
  BY Typed DEF Record, At, Reconciling, Inductive
<1>2. /\ result \in {"sent", "refused", "unknown", "guard"}
      /\ result = "sent" => delivered > 0
      /\ command.status = "sent" => delivered > 0
  BY <1>1 DEF Inductive, Truthful, RowsTruthful
<1>3. CASE RunsCommand(w, "executing")
  <2> DEFINE status  == IF result = "guard" THEN "failed" ELSE result
             outcome == IF result = "sent" THEN "DISPATCHED"
                        ELSE IF result = "refused" THEN "COMMAND_REJECTED" ELSE "RESULT_UNKNOWN"
  <2>1. SetCommand(status) /\ Conclude(w, outcome)
    BY <1>3 DEF Record
  <2>2. /\ status \in {"sent", "refused", "unknown", "failed"}
        /\ outcome \in {"DISPATCHED", "COMMAND_REJECTED", "RESULT_UNKNOWN"}
        /\ status = "sent" \/ outcome = "DISPATCHED" => delivered > 0
    BY <1>2
  <2> HIDE DEF status, outcome
  <2>3. command' \in CommandRow /\ command'.status = status
    BY <1>1, <2>1, <2>2, CommandSet DEF Commands
  <2> QED
    BY <1>1, <2>1, <2>2, <2>3, Concluded DEF Outcomes, Unentered
<1>4. CASE Conclude(w, "RESULT_UNKNOWN") /\ UNCHANGED command
  BY <1>1, <1>2, <1>4, Concluded DEF Outcomes
<1> QED
  BY <1>3, <1>4 DEF Record

LEMMA ObserveStep ==
  ASSUME Inductive, NEW w \in Workers, Observe(w) PROVE StepKeeps
<1>1. /\ worker[w].step \in Reconciling /\ Conclude(w, Evidence)
      /\ UNCHANGED <<rows, expired, commandDue, audit>> /\ command \in CommandRow
  BY Typed DEF Observe, At, Reconciling, Inductive
<1>2. /\ Evidence \in {"RESULT_UNKNOWN", "OUTBOUND_SUCCEEDED", "OUTBOUND_FAILED",
                       "COMMAND_REJECTED", "OUTBOUND_PENDING"}
      /\ Evidence = "OUTBOUND_SUCCEEDED" => message = "SENT"
  BY DEF Evidence
<1>3. message = "SENT" \/ command.status = "sent" => delivered > 0
  BY DEF Inductive, RowsTruthful
<1> QED
  BY <1>1, <1>2, <1>3, Concluded DEF Outcomes, rows

(* Applying the outcome to a row that is still the one of the snapshot.    *)
LEMMA ApplyStep ==
  ASSUME Inductive, NEW w \in Workers, Apply(w) PROVE StepKeeps
<1> DEFINE target == Target(worker[w].status, worker[w].outcome)
<1> USE DEF Inside, Reconciling, Steps
<1>1. /\ worker[w].step = "apply" /\ Goto(w, "sweep")
      /\ UNCHANGED <<message, command, expired, commandDue, audit>>
      /\ TypeOK /\ Truthful(w) /\ Snapshot(w) /\ message \in Messages
  BY Typed DEF Apply, At, Inductive
<1>2. CASE UNCHANGED intent
  BY <1>1, <1>2, OutsideStep DEF rows
<1>3. CASE Matches(w) /\ Defer
  <2>1. /\ intent' \in Intent /\ intent'.status = intent.status /\ intent'.retry = "waiting"
        /\ intent'.version = intent.version + 1 /\ intent'.attempts = intent.attempts + 1
        /\ intent'.lease = intent.lease
    BY <1>1, <1>3, IntentDefers
  <2>2. intent.status \in HandedOn /\ intent.attempts < MaxAttempts
    BY <1>1, <1>3 DEF Matches, Snapshot
  <2>3. /\ intent.version \in Nat /\ intent.attempts \in Nat
        /\ intent'.version > intent.version /\ intent'.attempts <= MaxAttempts
    BY <1>1, <2>1, <2>2, Typed, OutboxAssumption DEF Intent
  <2>4. RowKept
    BY <2>1, <2>2, <2>3
       DEF RowKept, RowMoves, RowAtRest, BudgetRespected, HandedOn, Settled
  <2>5. RowsTruthful'
    BY <1>1, <2>1 DEF Inductive, RowsTruthful, audit
  <2> QED
    BY <1>1, <2>1, <2>4, <2>5, QuietStep
<1>4. CASE Matches(w) /\ target \notin {"none", "defer"} /\ Settle(target)
  <2>1. /\ target \in {"UNKNOWN_RESULT", "SUCCEEDED", "FAILED", "DISPATCHED"}
        /\ target \in {"SUCCEEDED", "DISPATCHED"} =>
             worker[w].outcome \in {"DISPATCHED", "OUTBOUND_SUCCEEDED"}
    BY <1>4 DEF Target
  <2>2. intent.status \in HandedOn
    BY <1>1, <1>4 DEF Matches, Snapshot
  <2> HIDE DEF target
  <2>3. target \in HandedOn \cup Settled /\ target \in Statuses
    BY <2>1 DEF HandedOn, Settled, Statuses
  <2>4. intent' \in Intent /\ intent'.status = target
    BY <1>1, <1>4, <2>3, IntentSettles
  <2>5. RowKept
    BY <1>4, <2>2, <2>3, SettledRow
  <2>6. RowsTruthful'
    BY <1>1, <2>1, <2>4 DEF Inductive, RowsTruthful, Truthful, audit
  <2> QED
    BY <1>1, <2>4, <2>5, <2>6, QuietStep
<1> QED
  BY <1>2, <1>3, <1>4 DEF Apply

----------------------------------------------------------------------------
(* A cycle: maintenance; and the environment.                              *)

LEMMA SweepStep ==
  ASSUME Inductive, NEW w \in Workers, Sweep(w) PROVE StepKeeps
<1>1. UNCHANGED <<rows, expired, commandDue, audit>> /\ TypeOK
  BY DEF Sweep, Inductive
<1>2. /\ worker' \in [Workers -> WorkerRow] /\ OthersKeep(w)
      /\ worker'[w].step \in {"idle", "settle"} /\ worker'[w].version <= intent.version
      /\ worker'[w].step = "settle" =>
           /\ worker'[w].status \in Queued \cup HandedOn
           /\ worker'[w].outcome \in {"EXPIRED", "UNKNOWN_RESULT", "FAILED"}
  <2>1. CASE Take(w, "settle", SweepTarget)
             /\ (Exhausted \/ (intent.status \in Queued /\ expired))
    <3>1. intent.status \in Queued \cup HandedOn
      BY <2>1 DEF Exhausted, Free, Queued
    <3>2. SweepTarget \in {"EXPIRED", "UNKNOWN_RESULT", "FAILED"}
      BY DEF SweepTarget
    <3>3. SweepTarget \in Outcomes /\ "settle" \in Steps
      BY <3>2 DEF Outcomes, Settled, Steps
    <3>4. /\ worker' \in [Workers -> WorkerRow] /\ OthersKeep(w)
          /\ worker'[w].step = "settle" /\ worker'[w].version = intent.version
          /\ worker'[w].status = intent.status /\ worker'[w].outcome = SweepTarget
      BY <1>1, <2>1, <3>3, WorkerTakes
    <3> QED
      BY <1>1, <3>1, <3>2, <3>4, Typed DEF Intent
  <2>2. CASE Finish(w)
    BY <1>1, <2>2, WorkerFinishes, Typed DEF Idle, Intent
  <2> QED
    BY <2>1, <2>2 DEF Sweep
<1>3. TypeOK'
  BY <1>1, <1>2, Typed DEF TypeOK, rows, audit
<1>4. Snapshot(w)' /\ Truthful(w)' /\ RowsTruthful'
  BY <1>1, <1>2 DEF Inductive, Snapshot, Truthful, RowsTruthful, Reconciling, rows, audit
<1> QED
  BY <1>1, <1>2, <1>3, <1>4, SameRow, WorkerStep DEF Inside, rows, audit

(* The end of a cycle, by its last step or by the death of the process.    *)
LEMMA Ended ==
  ASSUME Inductive, NEW w \in Workers, Finish(w), intent' \in Intent, RowKept, RowsTruthful',
         crashes' \in Nat, UNCHANGED <<message, command, expired, commandDue, delivered, entered>>
  PROVE  StepKeeps
<1>1. worker' \in [Workers -> WorkerRow] /\ OthersKeep(w) /\ worker'[w] = Idle
  BY WorkerFinishes DEF Inductive
<1>2. TypeOK'
  BY <1>1, Typed DEF Inductive, TypeOK
<1>3. Snapshot(w)' /\ Truthful(w)'
  BY <1>1 DEF Snapshot, Truthful, Idle, Reconciling, Intent
<1> QED
  BY <1>1, <1>2, <1>3, WorkerStep DEF Idle, Inside

LEMMA SettleMaintenanceStep ==
  ASSUME Inductive, NEW w \in Workers, SettleMaintenance(w) PROVE StepKeeps
<1>1. /\ worker[w].step = "settle" /\ Finish(w)
      /\ UNCHANGED <<message, command, expired, commandDue, audit>>
      /\ TypeOK /\ Snapshot(w) /\ RowsTruthful /\ intent \in Intent /\ crashes \in Nat
  BY Typed DEF SettleMaintenance, At, Inductive
<1>2. CASE Matches(w) /\ Settle(worker[w].outcome)
  <2>1. /\ worker[w].outcome \in {"EXPIRED", "UNKNOWN_RESULT", "FAILED"}
        /\ intent.status \in Queued \cup HandedOn
    BY <1>1, <1>2 DEF Matches, Snapshot
  <2>2. worker[w].outcome \in Settled /\ worker[w].outcome \in Statuses
    BY <2>1 DEF Settled, Statuses
  <2>3. intent' \in Intent /\ intent'.status = worker[w].outcome
    BY <1>1, <1>2, <2>2, IntentSettles
  <2>4. RowKept
    BY <1>2, <2>1, <2>2, SettledRow
  <2>5. RowsTruthful'
    BY <1>1, <2>1, <2>3 DEF RowsTruthful, audit
  <2> QED
    BY <1>1, <2>3, <2>4, <2>5, Ended DEF audit
<1>3. CASE UNCHANGED intent
  BY <1>1, <1>3, SameRow, Ended DEF RowsTruthful, audit
<1> QED
  BY <1>2, <1>3 DEF SettleMaintenance

LEMMA WorkerDiesStep ==
  ASSUME Inductive, NEW w \in Workers, WorkerDies(w) PROVE StepKeeps
<1>1. /\ Finish(w) /\ crashes' \in Nat
      /\ UNCHANGED <<rows, expired, commandDue, delivered, entered>>
  BY Typed DEF WorkerDies, Inductive
<1>2. RowKept /\ intent' \in Intent /\ RowsTruthful'
  BY <1>1, SameRow, Typed DEF Inductive, RowsTruthful, rows
<1> QED
  BY <1>1, <1>2, Ended DEF rows

LEMMA EnqueueStep ==
  ASSUME Inductive, Enqueue PROVE StepKeeps
<1>1. PICK status \in {"PENDING", "SUPPRESSED"} : intent' = [NoIntent EXCEPT !.status = status]
  BY DEF Enqueue
<1>2. /\ intent = NoIntent /\ TypeOK /\ RowsTruthful
      /\ UNCHANGED <<message, command, expired, commandDue, worker, audit>>
  BY DEF Enqueue, Inductive, RowAtRest
<1>3. /\ intent' \in Intent /\ intent'.status = status /\ intent'.version = 0
      /\ intent'.attempts = 0 /\ intent'.lease = "none" /\ intent'.retry = "none"
  BY <1>1 DEF NoIntent, Intent, Statuses, Queued, Settled
<1>4. intent.version = 0 /\ intent.status = "ABSENT"
  BY <1>2 DEF NoIntent
<1>5. RowKept
  BY <1>3, <1>4, OutboxAssumption
     DEF RowKept, RowMoves, RowAtRest, BudgetRespected, HandedOn, Settled
<1>6. TypeOK'
  BY <1>2, <1>3, Typed DEF TypeOK, audit
<1>7. RowsTruthful'
  BY <1>2, <1>3 DEF RowsTruthful, audit
<1> QED
  BY <1>2, <1>5, <1>6, <1>7, EnvironmentStep DEF audit

(* An administrator or the clock changes the command, or only a deadline.  *)
LEMMA CommandMoves ==
  ASSUME Inductive, command' \in CommandRow, message' \in Messages,
         expired' \in BOOLEAN, commandDue' \in BOOLEAN,
         command'.status = "sent" \/ message' = "SENT" =>
           command.status = "sent" \/ message = "SENT",
         command'.status \in Unentered => command.status \in Unentered,
         UNCHANGED <<intent, worker, audit>>
  PROVE  StepKeeps
<1>1. TypeOK'
  BY Typed DEF Inductive, TypeOK, audit
<1>2. RowsTruthful'
  BY DEF Inductive, RowsTruthful, audit
<1> QED
  BY <1>1, <1>2, SameRow, EnvironmentStep DEF audit

(* A deadline of the row passes.                                           *)
LEMMA DeadlinePasses ==
  ASSUME Inductive, UNCHANGED <<message, command, expired, commandDue, worker, audit>>,
         intent' \in Intent, intent'.version = intent.version, intent'.status = intent.status,
         intent'.attempts = intent.attempts, intent.status \notin Settled \cup {"ABSENT"}
  PROVE  StepKeeps
<1>1. TypeOK'
  BY Typed DEF Inductive, TypeOK, audit
<1>2. RowKept
  BY DEF Inductive, RowKept, RowMoves, RowAtRest, BudgetRespected
<1>3. RowsTruthful'
  BY DEF Inductive, RowsTruthful, audit
<1> QED
  BY <1>1, <1>2, <1>3, EnvironmentStep DEF audit

LEMMA EnvironmentSteps ==
  ASSUME Inductive,
         \/ Approve \/ RejectCommand \/ CancelOutbound \/ CommandLeaseLapses
         \/ LeaseLapses \/ RetryDue \/ IntentExpires \/ CommandExpires
  PROVE  StepKeeps
<1>1. /\ TypeOK /\ intent \in Intent /\ command \in CommandRow /\ message \in Messages
      /\ expired \in BOOLEAN /\ commandDue \in BOOLEAN
  BY Typed DEF Inductive
<1>2. CASE Approve
  <2>1. command' \in CommandRow /\ command'.status = "approved"
    BY <1>1, <1>2, CommandSet DEF Approve, Commands
  <2> QED
    BY <1>1, <1>2, <2>1, CommandMoves DEF Approve, Unentered
<1>3. CASE RejectCommand
  <2>1. command' \in CommandRow /\ command'.status = "rejected"
    BY <1>1, <1>3, CommandSet DEF RejectCommand, Commands
  <2> QED
    BY <1>1, <1>3, <2>1, CommandMoves DEF RejectCommand, Unentered
<1>4. CASE CancelOutbound
  BY <1>1, <1>4, CommandMoves DEF CancelOutbound, Messages
<1>5. CASE CommandLeaseLapses
  <2>1. command' \in CommandRow /\ command'.status = command.status
    BY <1>1, <1>5 DEF CommandLeaseLapses
  <2> QED
    BY <1>1, <1>5, <2>1, CommandMoves DEF CommandLeaseLapses
<1>6. CASE IntentExpires
  BY <1>1, <1>6, CommandMoves DEF IntentExpires, rows
<1>7. CASE CommandExpires
  BY <1>1, <1>7, CommandMoves DEF CommandExpires, rows
<1>8. CASE LeaseLapses
  <2>1. /\ intent' \in Intent /\ intent'.version = intent.version
        /\ intent'.status = intent.status /\ intent'.attempts = intent.attempts
    BY <1>1, <1>8 DEF LeaseLapses, Intent
  <2>2. intent.status \notin Settled \cup {"ABSENT"}
    BY <1>8 DEF LeaseLapses, Inductive, RowAtRest, NoIntent
  <2> QED
    BY <1>8, <2>1, <2>2, DeadlinePasses DEF LeaseLapses
<1>9. CASE RetryDue
  <2>1. /\ intent' \in Intent /\ intent'.version = intent.version
        /\ intent'.status = intent.status /\ intent'.attempts = intent.attempts
    BY <1>1, <1>9 DEF RetryDue, Intent
  <2>2. intent.status \notin Settled \cup {"ABSENT"}
    BY <1>9 DEF RetryDue, Inductive, RowAtRest, NoIntent
  <2> QED
    BY <1>9, <2>1, <2>2, DeadlinePasses DEF RetryDue
<1> QED
  BY <1>2, <1>3, <1>4, <1>5, <1>6, <1>7, <1>8, <1>9

----------------------------------------------------------------------------
(* The theorems.                                                           *)

LEMMA Step ==
  ASSUME Inductive, Next PROVE StepKeeps
<1>1. ASSUME NEW w \in Workers, Consume(w) PROVE StepKeeps
  BY <1>1, ClaimStep, ReadStep, EvaluateStep, MaterializeStep, ReceiveStep,
     MarkCommandPendingStep, MarkSuppressedStep, MarkPreDispatchFailureStep DEF Consume
<1>2. ASSUME NEW w \in Workers, Dispatch(w) PROVE StepKeeps
  BY <1>2, ExecuteStep, EnterHandlerStep, SendStep, CompleteOutboundStep, RecordStep
     DEF Dispatch
<1>3. ASSUME NEW w \in Workers, Cycle(w) PROVE StepKeeps
  BY <1>1, <1>2, <1>3, StartCycleStep, ListStep, ObserveStep, ApplyStep, SweepStep,
     SettleMaintenanceStep DEF Cycle
<1> QED
  BY <1>3, WorkerDiesStep, EnqueueStep, EnvironmentSteps DEF Next

LEMMA Stutter ==
  ASSUME Inductive, UNCHANGED vars PROVE StepKeeps
<1>1. TypeOK'
  BY DEF Inductive, TypeOK, vars, rows, audit
<1>2. RowsTruthful'
  BY DEF Inductive, RowsTruthful, vars, rows, audit
<1> QED
  BY <1>1, <1>2, SameRow, EnvironmentStep DEF vars, rows, audit

LEMMA Initially == Init => Inductive
<1> SUFFICES ASSUME Init PROVE Inductive
  OBVIOUS
<1>1. TypeOK
  BY DEF Init, TypeOK, NoIntent, Idle, Intent, Statuses, Messages, Commands, Steps, Outcomes
<1>2. RowAtRest /\ BudgetRespected /\ RowsTruthful
  BY OutboxAssumption DEF Init, RowAtRest, BudgetRespected, RowsTruthful, NoIntent, Settled
<1>3. ASSUME NEW w \in Workers PROVE Snapshot(w) /\ Truthful(w) /\ worker[w].step = "idle"
  BY DEF Init, Snapshot, Truthful, Idle, NoIntent, Reconciling
<1>4. HandlerOnce
  BY <1>3 DEF Init, HandlerOnce, Inside
<1> QED
  BY <1>1, <1>2, <1>3, <1>4 DEF Inductive

(* The inductive invariant, for every instance: the row at rest, snapshots *)
(* that are old or true, one handler, and no success before the fact       *)
(* (notification-outbox.repository.ts, the writes under a version).        *)
THEOREM InductiveInvariant == Spec => []Inductive
<1>1. Inductive /\ [Next]_vars => Inductive'
  BY Step, Stutter DEF StepKeeps
<1> QED
  BY Initially, <1>1, PTL DEF Spec

(* Every variable keeps its type: the rows and what the workers hold.      *)
THEOREM TypeCorrect == Spec => []TypeOK
<1>1. Inductive => TypeOK
  BY DEF Inductive
<1> QED
  BY InductiveInvariant, <1>1, PTL

(* Claims and deferrals of any number of workers never count past          *)
(* maxAttempts (claim, deferReconciliation).                               *)
THEOREM BudgetKept == Spec => []BudgetRespected
<1>1. Inductive => BudgetRespected
  BY DEF Inductive
<1> QED
  BY InductiveInvariant, <1>1, PTL

(* The provider accepts at most one message for an intent, however many    *)
(* workers claim, die, recover, execute and retry.                         *)
THEOREM DeliveredAtMostOnce == Spec => []DeliveredOnce
<1>1. Inductive => DeliveredOnce
  BY DEF Inductive, HandlerOnce, DeliveredOnce
<1> QED
  BY InductiveInvariant, <1>1, PTL

(* An intent says DISPATCHED or SUCCEEDED only of a message that was sent  *)
(* (decideNotificationReconciliation and the evidence it is given).        *)
THEOREM SuccessIsTrue == Spec => []NoFalseSuccess
<1>1. Inductive => NoFalseSuccess
  BY DEF Inductive, RowsTruthful, NoFalseSuccess
<1> QED
  BY InductiveInvariant, <1>1, PTL

(* Nothing writes an intent that is settled: every write holds a version   *)
(* or a claim that settling took away.                                     *)
THEOREM SettledIsFinal == Spec => SettledForever
<1>1. Inductive /\ [Next]_vars => [intent.status \in Settled => UNCHANGED intent]_vars
  BY Step, Stutter DEF StepKeeps, RowMoves
<1> QED
  BY InductiveInvariant, <1>1, PTL DEF Spec, SettledForever

(* The outbox implements OnceOnly, the promise of the secure command, seen *)
(* through the status of the intent: each step is a step of it or none.    *)
THEOREM PromiseKept == Spec => KeepsPromise
<1>1. Init => Promise!Init
  BY DEF Init, Promise!Init, PhaseOf, NoIntent
<1>2. Inductive /\ [Next]_vars => [Promise!Next]_<<PhaseOf(intent.status), delivered > 0>>
  <2> SUFFICES ASSUME Inductive, [Next]_vars
               PROVE  [Promise!Next]_<<PhaseOf(intent.status), delivered > 0>>
    OBVIOUS
  <2> DEFINE phase == PhaseOf(intent.status)  ran == delivered > 0
  <2>1. /\ RowMoves /\ DeliveryMoves /\ RowsTruthful /\ RowsTruthful'
        /\ intent.status \in Statuses /\ intent'.status \in Statuses
    BY Step, Stutter, Typed DEF StepKeeps, Inductive, TypeOK, Intent
  <2>2. CASE delivered' # delivered
    <3>1. ~ran /\ ran' /\ phase' = phase /\ phase # "waiting"
      BY <2>1, <2>2 DEF DeliveryMoves, PhaseOf, HandedOn, Queued, Settled
    <3> QED
      BY <3>1 DEF Promise!Next, Promise!Run
  <2>3. CASE delivered' = delivered
    <3>1. ran' = ran
      BY <2>3
    <3>2. \/ phase' = phase
          \/ phase = "waiting" /\ phase' = "started"
          \/ phase = "started" /\ phase' = "succeeded" /\ ran
          \/ phase \in {"waiting", "started"} /\ phase' = "abandoned"
      BY <2>1, <2>3 DEF RowMoves, RowsTruthful, PhaseOf, Statuses, HandedOn, Queued, Settled
    <3> QED
      BY <3>1, <3>2 DEF Promise!Next, Promise!Start, Promise!Succeed, Promise!Abandon
  <2> QED
    BY <2>2, <2>3
<1> QED
  BY InductiveInvariant, <1>1, <1>2, PTL DEF Spec, KeepsPromise, Promise!Spec
=============================================================================
