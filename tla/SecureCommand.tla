--------------------------- MODULE SecureCommand ---------------------------
(***************************************************************************)
(* The ledger of one secure command (apps/api/src/modules/secure-command): *)
(* the row sofia_commands of one (scope, type, idempotency key), the       *)
(* approval and attempt rows that hang from it, and the calls that run     *)
(* concurrently against them:                                              *)
(*                                                                         *)
(*   Callers   calls of receive()          CommandIdempotencyService       *)
(*   Admins    approve, reject and revoke  CommandApprovalService,         *)
(*                                         CommandAdminReadService         *)
(*   Workers   calls of execute()          SecureCommandService            *)
(*                                                                         *)
(* Every call reads the row, decides, and writes it back in a later        *)
(* transaction guarded by the version it read.  Between two of its steps   *)
(* any other call may commit, a lease may lapse, the kill switch may flip, *)
(* or the process may die.                                                 *)
(*                                                                         *)
(* Time is abstracted to what the guards compare: a lease is "live" or     *)
(* "lapsed", an approval row "live" or "lapsed", the command expired or    *)
(* not.  A command type is one the policy lets run (SOFIA_INTERNAL_        *)
(* VALIDATE); the kill switch, the pause and the actor's authorization are *)
(* one switch, policyOpen.                                                 *)
(***************************************************************************)
EXTENDS Integers, Sequences, FiniteSets

CONSTANTS Callers,      \* concurrent calls of receive() with this key
          Admins,       \* approver sessions; each grants at most one approval row
          Workers,      \* concurrent calls of execute()
          MaxAttempts   \* bound: attempts a run may open

ASSUME MaxAttemptsAssumption == MaxAttempts \in Nat

VARIABLES cmd,          \* the command row
          expired,      \* command.expiresAt <= now
          approval,     \* the approval row each admin's grant created
          attempts,     \* outcomes of the attempt rows, by attempt number
          policyOpen,   \* assertAllowed / assertApproverAllowed would pass
          caller,       \* what each receive() call does next, version it holds
          admin,        \* what each admin session does next, version it holds
          worker,       \* what each execute() call does next
          snap,         \* the command row each execute() call holds
          attemptOf,    \* the attempt each execute() call opened, 0 if none
          runs          \* history: times a handler was entered

rows  == <<cmd, approval, attempts>>
clock == <<expired, policyOpen>>
calls == <<caller, admin, worker, snap, attemptOf>>
vars  == <<rows, clock, calls, runs>>

Statuses == {"ABSENT", "RECEIVED", "VALIDATED", "APPROVAL_REQUIRED", "APPROVED",
             "CLAIMED", "EXECUTING", "SUCCEEDED", "FAILED", "REJECTED", "EXPIRED"}
Rejectable == {"RECEIVED", "VALIDATED", "APPROVAL_REQUIRED", "APPROVED"}
Running    == {"CLAIMED", "EXECUTING"}
Outcomes   == {"CLAIMED", "SUCCEEDED", "FAILED", "EXPIRED"}
Failures   == {"NONE", "TIMEOUT", "UNKNOWN_RESULT", "OTHER"}

Row == [status : Statuses, version : Nat, retryable : BOOLEAN,
        lease : {"none", "live", "lapsed"}, failure : Failures]
NoCommand == [status |-> "ABSENT", version |-> 0, retryable |-> FALSE,
              lease |-> "none", failure |-> "NONE"]

NoCall == [step |-> "idle", version |-> 0]

Steps == {"idle", "recover", "expire", "policy", "claim", "preMark", "mark",
          "preHandler", "handler", "succeed", "fail", "failUnknown"}

(* command-lifecycle.ts *)
Transitions ==
  { <<"RECEIVED", "VALIDATED">>, <<"RECEIVED", "REJECTED">>, <<"RECEIVED", "EXPIRED">>,
    <<"VALIDATED", "APPROVAL_REQUIRED">>, <<"VALIDATED", "REJECTED">>, <<"VALIDATED", "EXPIRED">>,
    <<"APPROVAL_REQUIRED", "APPROVED">>, <<"APPROVAL_REQUIRED", "REJECTED">>,
    <<"APPROVAL_REQUIRED", "EXPIRED">>,
    <<"APPROVED", "CLAIMED">>, <<"APPROVED", "REJECTED">>, <<"APPROVED", "EXPIRED">>,
    <<"CLAIMED", "EXECUTING">>, <<"CLAIMED", "FAILED">>, <<"CLAIMED", "EXPIRED">>,
    <<"EXECUTING", "SUCCEEDED">>, <<"EXECUTING", "FAILED">>,
    <<"FAILED", "CLAIMED">>, <<"FAILED", "EXPIRED">> }

MayMove(from, to, retryable) ==
  /\ <<from, to>> \in Transitions
  /\ from = "FAILED" => retryable

----------------------------------------------------------------------------

Init ==
  /\ cmd = NoCommand
  /\ expired = FALSE
  /\ approval = [a \in Admins |-> "none"]
  /\ attempts = << >>
  /\ policyOpen = TRUE
  /\ caller = [c \in Callers |-> NoCall]
  /\ admin = [a \in Admins |-> NoCall]
  /\ worker = [w \in Workers |-> "idle"]
  /\ snap = [w \in Workers |-> NoCommand]
  /\ attemptOf = [w \in Workers |-> 0]
  /\ runs = 0

(* Every write of the row increments its version. *)
Write(row) == cmd' = [row EXCEPT !.version = cmd.version + 1]

----------------------------------------------------------------------------
(* receive(): three transactions; a replay only returns the row it finds.  *)

Receive(c) ==
  /\ caller[c].step = "idle" /\ policyOpen /\ ~expired
  /\ cmd.status = "ABSENT"
  /\ cmd' = [NoCommand EXCEPT !.status = "RECEIVED"]
  /\ caller' = [caller EXCEPT ![c] = [step |-> "validate", version |-> 0]]
  /\ UNCHANGED <<approval, attempts, clock, admin, worker, snap, attemptOf, runs>>

(* CommandRepository.transition: guarded by the version and the statuses.  *)
Matches(version, from) == cmd.version = version /\ cmd.status \in from

Validate(c) ==
  /\ caller[c].step = "validate"
  /\ \/ /\ Matches(caller[c].version, {"RECEIVED"})
        /\ Write([cmd EXCEPT !.status = "VALIDATED"])
        /\ caller' = [caller EXCEPT ![c] = [step |-> "ask", version |-> cmd.version + 1]]
     \/ /\ ~Matches(caller[c].version, {"RECEIVED"})
        /\ caller' = [caller EXCEPT ![c] = NoCall]
        /\ UNCHANGED cmd
  /\ UNCHANGED <<approval, attempts, clock, admin, worker, snap, attemptOf, runs>>

AskApproval(c) ==
  /\ caller[c].step = "ask"
  /\ caller' = [caller EXCEPT ![c] = NoCall]
  /\ \/ /\ Matches(caller[c].version, {"VALIDATED"})
        /\ Write([cmd EXCEPT !.status = "APPROVAL_REQUIRED"])
     \/ /\ ~Matches(caller[c].version, {"VALIDATED"})
        /\ UNCHANGED cmd
  /\ UNCHANGED <<approval, attempts, clock, admin, worker, snap, attemptOf, runs>>

----------------------------------------------------------------------------
(* Approvers: each call reads and checks first, and commits later.         *)

BeginGrant(a) ==
  /\ admin[a].step = "idle" /\ approval[a] = "none"
  /\ cmd.status = "APPROVAL_REQUIRED" /\ policyOpen /\ ~expired
  /\ admin' = [admin EXCEPT ![a] = [step |-> "grant", version |-> cmd.version]]
  /\ UNCHANGED <<rows, clock, caller, worker, snap, attemptOf, runs>>

GrantsAgain(a) == cmd.status \in {"APPROVAL_REQUIRED", "APPROVED"}

GrantCommits(a) == Matches(admin[a].version, {"APPROVAL_REQUIRED"})

(* The approval never outlives the command: its expiry is capped to it.    *)
Grant(a) ==
  /\ admin[a].step = "grant"
  /\ admin' = [admin EXCEPT ![a] = NoCall]
  /\ \/ /\ GrantCommits(a)
        /\ Write([cmd EXCEPT !.status = "APPROVED"])
        /\ approval' = [approval EXCEPT ![a] = IF expired THEN "lapsed" ELSE "live"]
     \/ /\ ~GrantCommits(a)
        /\ UNCHANGED <<cmd, approval>>
  /\ UNCHANGED <<attempts, clock, caller, worker, snap, attemptOf, runs>>

BeginReject(a) ==
  /\ admin[a].step = "idle"
  /\ cmd.status \in Rejectable
  /\ admin' = [admin EXCEPT ![a] = [step |-> "reject", version |-> cmd.version]]
  /\ UNCHANGED <<rows, clock, caller, worker, snap, attemptOf, runs>>

Reject(a) ==
  /\ admin[a].step = "reject"
  /\ admin' = [admin EXCEPT ![a] = NoCall]
  /\ \/ /\ Matches(admin[a].version, Rejectable)
        /\ Write([cmd EXCEPT !.status = "REJECTED"])
     \/ /\ ~Matches(admin[a].version, Rejectable)
        /\ UNCHANGED cmd
  /\ UNCHANGED <<approval, attempts, clock, caller, worker, snap, attemptOf, runs>>

InForce(g) == approval[g] \in {"live", "lapsed"}

(* The revocation holds the id of a row, so it commits on that row alone;  *)
(* the command is rejected only if no execute() claimed it meanwhile.      *)
RevokesRowOnly(status) == FALSE

RejectsOnRevoke(status) == status = "APPROVED"

Revoke(a, g) ==
  /\ admin[a].step = "idle" /\ policyOpen
  /\ InForce(g)
  /\ approval' = [approval EXCEPT ![g] = "revoked"]
  /\ IF RejectsOnRevoke(cmd.status)
     THEN Write([cmd EXCEPT !.status = "REJECTED", !.failure = "OTHER"])
     ELSE UNCHANGED cmd
  /\ UNCHANGED <<attempts, clock, calls, runs>>

----------------------------------------------------------------------------
(* execute()                                                               *)

Go(w, step) == worker' = [worker EXCEPT ![w] = step]
Hold(w, row) == snap' = [snap EXCEPT ![w] = row]
Open(w, i) == attemptOf' = [attemptOf EXCEPT ![w] = i]

(* The call returns or throws: nothing it held survives it.                *)
Stop(w) == Go(w, "idle") /\ Hold(w, NoCommand) /\ Open(w, 0)

(* What execute() does with the row it holds, once no lease needs recovery *)
Settled(row) == \/ row.status \in {"SUCCEEDED", "REJECTED", "EXPIRED"}  \* or replayed
                \/ row.status = "FAILED" /\ ~row.retryable             \* NOT_RETRYABLE

NextStep(row) ==
  IF row.status \in Running \/ Settled(row) THEN "idle"                 \* ALREADY_RUNNING
  ELSE IF expired THEN "expire"
  ELSE IF row.status \in {"APPROVED", "FAILED"} THEN "policy"
  ELSE "idle"                                                          \* APPROVAL_REQUIRED

LeaseLapsed(row) == row.status \in Running /\ row.lease = "lapsed"

(* A read that leads to an error or a replay changes nothing.              *)
Execute(w) ==
  /\ worker[w] = "idle" /\ cmd.status # "ABSENT"
  /\ LET step == IF LeaseLapsed(cmd) THEN "recover" ELSE NextStep(cmd)
     IN step # "idle" /\ Go(w, step)
  /\ Hold(w, cmd)
  /\ UNCHANGED <<rows, clock, caller, admin, attemptOf, runs>>

OpenAttempts == {i \in DOMAIN attempts : attempts[i] = "CLAIMED"}

Close(i, outcome) == attempts' = [attempts EXCEPT ![i] = outcome]

CloseLastOpen(outcome) ==
  IF OpenAttempts = {} THEN UNCHANGED attempts
  ELSE \E i \in OpenAttempts :
         /\ \A j \in OpenAttempts : j <= i
         /\ Close(i, outcome)

(* Only a lease that lapsed before the handler was entered may be retried. *)
RetryAnyLapse(status) == TRUE

RetryAfterLapse(status) == status = "CLAIMED"

Recover(w) ==
  /\ worker[w] = "recover"
  /\ LET status == snap[w].status
         retry  == RetryAfterLapse(status)
         row    == [cmd EXCEPT !.status = "FAILED", !.version = cmd.version + 1,
                               !.lease = "none", !.retryable = retry,
                               !.failure = IF retry THEN "TIMEOUT" ELSE "UNKNOWN_RESULT"]
     IN \/ /\ Matches(snap[w].version, {status}) /\ LeaseLapsed(cmd)
           /\ cmd' = row
           /\ CloseLastOpen(IF retry THEN "EXPIRED" ELSE "FAILED")
           /\ IF retry THEN Go(w, NextStep(row)) /\ Hold(w, row) /\ Open(w, 0)
                       ELSE Stop(w)
        \/ /\ ~(Matches(snap[w].version, {status}) /\ LeaseLapsed(cmd))
           /\ Stop(w)
           /\ UNCHANGED <<cmd, attempts>>
  /\ UNCHANGED <<approval, clock, caller, admin, runs>>

Expire(w) ==
  /\ worker[w] = "expire"
  /\ \/ /\ Matches(snap[w].version, {snap[w].status})
        /\ Write([cmd EXCEPT !.status = "EXPIRED", !.retryable = FALSE, !.failure = "OTHER"])
     \/ /\ ~Matches(snap[w].version, {snap[w].status})
        /\ UNCHANGED cmd
  /\ Stop(w)
  /\ UNCHANGED <<approval, attempts, clock, caller, admin, runs>>

(* BEFORE_CLAIM policy, then findValidApproval and its validation, which   *)
(* asks the policy again.                                                  *)
CheckApproval(w) ==
  /\ worker[w] = "policy"
  /\ IF policyOpen /\ ~expired /\ \E a \in Admins : approval[a] = "live"
     THEN Go(w, "claim") /\ UNCHANGED <<snap, attemptOf>>
     ELSE Stop(w)
  /\ UNCHANGED <<rows, clock, caller, admin, runs>>

Claimable(row) == row.status = "APPROVED" \/ (row.status = "FAILED" /\ row.retryable)

Claim(w) ==
  /\ worker[w] = "claim" /\ Len(attempts) < MaxAttempts
  /\ \/ /\ cmd.version = snap[w].version /\ Claimable(cmd)
        /\ cmd' = [cmd EXCEPT !.status = "CLAIMED", !.version = cmd.version + 1,
                              !.lease = "live", !.failure = "NONE", !.retryable = FALSE]
        /\ attempts' = Append(attempts, "CLAIMED")
        /\ Go(w, "preMark") /\ Hold(w, cmd') /\ Open(w, Len(attempts) + 1)
     \/ /\ ~(cmd.version = snap[w].version /\ Claimable(cmd))
        /\ Stop(w)
        /\ UNCHANGED <<cmd, attempts>>
  /\ UNCHANGED <<approval, clock, caller, admin, runs>>

(* BEFORE_HANDLER policy, asked before and after the row says EXECUTING.   *)
CheckPolicyUnmarked(w) ==
  /\ worker[w] \in {"preMark", "preHandler"}
  /\ Go(w, IF ~policyOpen \/ expired THEN "fail" ELSE "handler")
  /\ UNCHANGED <<rows, clock, caller, admin, snap, attemptOf, runs>>

CheckPolicy(w) ==
  /\ worker[w] \in {"preMark", "preHandler"}
  /\ Go(w, IF ~policyOpen \/ expired THEN "fail"
           ELSE IF worker[w] = "preMark" THEN "mark" ELSE "handler")
  /\ UNCHANGED <<rows, clock, caller, admin, snap, attemptOf, runs>>

OwnsAnyClaim(w) == cmd.status = "CLAIMED"

OwnsClaim(w) == Matches(snap[w].version, {"CLAIMED"})

MarkExecuting(w) ==
  /\ worker[w] = "mark"
  /\ \/ /\ OwnsClaim(w)
        /\ Write([cmd EXCEPT !.status = "EXECUTING"])
        /\ Go(w, "preHandler") /\ Hold(w, cmd')
     \/ /\ ~OwnsClaim(w)
        /\ Go(w, "fail")
        /\ UNCHANGED <<cmd, snap>>
  /\ UNCHANGED <<approval, attempts, clock, caller, admin, attemptOf, runs>>

(* The handler runs outside any transaction; it returns, throws, or throws *)
(* UnknownCommandResultError.                                              *)
Handler(w) ==
  /\ worker[w] = "handler"
  /\ \E next \in {"succeed", "fail", "failUnknown"} : Go(w, next)
  /\ runs' = runs + 1
  /\ UNCHANGED <<rows, clock, caller, admin, snap, attemptOf>>

OwnsExecution(w) == Matches(snap[w].version, {"EXECUTING"})

Succeed(w) ==
  /\ worker[w] = "succeed"
  /\ \/ /\ OwnsExecution(w)
        /\ Write([cmd EXCEPT !.status = "SUCCEEDED", !.lease = "none", !.retryable = FALSE])
        /\ Close(attemptOf[w], "SUCCEEDED")
        /\ Stop(w)
     \/ /\ ~OwnsExecution(w)
        /\ Go(w, "fail")
        /\ UNCHANGED <<cmd, attempts, snap, attemptOf>>
  /\ UNCHANGED <<approval, clock, caller, admin, runs>>

(* No error the code throws is retryable; a failed write is swallowed.     *)
Fail(w) ==
  /\ worker[w] \in {"fail", "failUnknown"}
  /\ \/ /\ Matches(snap[w].version, Running)
        /\ Write([cmd EXCEPT !.status = "FAILED", !.lease = "none", !.retryable = FALSE,
                    !.failure = IF worker[w] = "fail" THEN "OTHER" ELSE "UNKNOWN_RESULT"])
        /\ Close(attemptOf[w], "FAILED")
     \/ /\ ~Matches(snap[w].version, Running)
        /\ UNCHANGED <<cmd, attempts>>
  /\ Stop(w)
  /\ UNCHANGED <<approval, clock, caller, admin, runs>>

----------------------------------------------------------------------------
(* The environment: deadlines pass, the switch flips, a process dies.      *)

LeaseLapses ==
  /\ cmd.lease = "live"
  /\ cmd' = [cmd EXCEPT !.lease = "lapsed"]
  /\ UNCHANGED <<approval, attempts, clock, calls, runs>>

ApprovalLapses(a) ==
  /\ approval[a] = "live"
  /\ approval' = [approval EXCEPT ![a] = "lapsed"]
  /\ UNCHANGED <<cmd, attempts, clock, calls, runs>>

CommandExpires ==
  /\ cmd.status # "ABSENT" /\ ~expired
  /\ expired' = TRUE
  /\ approval' = [a \in Admins |-> IF approval[a] = "live" THEN "lapsed" ELSE approval[a]]
  /\ UNCHANGED <<cmd, attempts, policyOpen, calls, runs>>

SwitchFlips ==
  /\ policyOpen' = ~policyOpen
  /\ UNCHANGED <<rows, expired, calls, runs>>

CallerDies(c) ==
  /\ caller[c].step # "idle"
  /\ caller' = [caller EXCEPT ![c] = NoCall]
  /\ UNCHANGED <<rows, clock, admin, worker, snap, attemptOf, runs>>

WorkerDies(w) ==
  /\ worker[w] # "idle"
  /\ Stop(w)
  /\ UNCHANGED <<rows, clock, caller, admin, runs>>

Next ==
  \/ \E c \in Callers : Receive(c) \/ Validate(c) \/ AskApproval(c) \/ CallerDies(c)
  \/ \E a \in Admins : \/ BeginGrant(a) \/ Grant(a) \/ BeginReject(a) \/ Reject(a)
                       \/ ApprovalLapses(a) \/ \E g \in Admins : Revoke(a, g)
  \/ \E w \in Workers : \/ Execute(w) \/ Recover(w) \/ Expire(w) \/ CheckApproval(w)
                        \/ Claim(w) \/ CheckPolicy(w) \/ MarkExecuting(w) \/ Handler(w)
                        \/ Succeed(w) \/ Fail(w) \/ WorkerDies(w)
  \/ LeaseLapses \/ CommandExpires \/ SwitchFlips

Spec == Init /\ [][Next]_vars

----------------------------------------------------------------------------
(* Properties.                                                             *)

(* Every variable keeps its type: the rows that the calls of the secure    *)
(* command module read and write.                                          *)
Call(steps) == [step : steps, version : Nat]

TypeOK ==
  /\ cmd \in Row /\ expired \in BOOLEAN /\ policyOpen \in BOOLEAN
  /\ approval \in [Admins -> {"none", "live", "lapsed", "revoked"}]
  /\ attempts \in Seq(Outcomes)
  /\ caller \in [Callers -> Call({"idle", "validate", "ask"})]
  /\ admin \in [Admins -> Call({"idle", "grant", "reject"})]
  /\ worker \in [Workers -> Steps]
  /\ snap \in [Workers -> Row]
  /\ attemptOf \in [Workers -> Nat]
  /\ runs \in Nat

(* While a command can still be claimed, no handler has ever been entered  *)
(* for it: whatever crashed, lapsed or was recovered, a retry is never a   *)
(* second execution.                                                       *)
RetryOnlyBeforeHandler == Claimable(cmd) => runs = 0

(* execute() enters the handler of a command at most once, however many    *)
(* workers call it and however many leases are recovered.                  *)
AtMostOneRun == runs <= 1

(* The attempt rows tell the story of the command row: exactly the last    *)
(* attempt is open while the command is claimed or executing, none is open *)
(* otherwise, and an attempt succeeded exactly when the command did.       *)
LedgerConsistent ==
  /\ OpenAttempts = IF cmd.status \in Running THEN {Len(attempts)} ELSE {}
  /\ cmd.status \in Running => Len(attempts) > 0
  /\ {i \in DOMAIN attempts : attempts[i] = "SUCCEEDED"}
       = IF cmd.status = "SUCCEEDED" THEN {Len(attempts)} ELSE {}

(* An APPROVED command always rests on an approval row nobody revoked: the *)
(* revocation of an approval and the rejection of its command are one.     *)
ApprovedMeansApproved ==
  cmd.status = "APPROVED" => \E a \in Admins : InForce(a)

(* However many approvers press the button together, one approval row is   *)
(* created for the command.                                                *)
OneApproval ==
  \A a, b \in Admins : approval[a] # "none" /\ approval[b] # "none" => a = b

(* Every write of the status, those of revokeApproval and                  *)
(* recoverExpiredLease that never ask the table included, is a transition  *)
(* of command-lifecycle.ts: a settled command is never touched again.      *)
LifecycleRespected ==
  [][cmd'.status # cmd.status =>
       \/ cmd.status = "ABSENT" /\ cmd'.status = "RECEIVED"
       \/ MayMove(cmd.status, cmd'.status, cmd.retryable)]_vars

(* The inductive invariant behind the properties above.                    *)

(* No handler of the command has been entered and none is about to be.     *)
Startable(row) ==
  \/ row.status \in {"ABSENT", "CLAIMED"} \cup Rejectable
  \/ row.status = "FAILED" /\ row.retryable

Inside(w) == worker[w] \in {"preHandler", "handler"}

HandlerDiscipline ==
  /\ Startable(cmd) => runs = 0 /\ \A w \in Workers : ~Inside(w)
  /\ \A w \in Workers : Inside(w) => runs = 0
  /\ \A v, w \in Workers : Inside(v) /\ Inside(w) => v = w
  /\ \A w \in Workers : worker[w] = "succeed" => runs > 0
  /\ AtMostOneRun

(* Nothing runs against a command before it is received.                   *)
AbsentIsIdle ==
  cmd.status = "ABSENT" => cmd = NoCommand /\ \A w \in Workers : worker[w] = "idle"

(* A call that holds the current version holds the current row, and the    *)
(* attempt it opened is the last one.                                      *)
Holding(w) == worker[w] \notin {"idle", "recover", "expire", "policy", "claim"}

SnapshotCoherent ==
  \A w \in Workers :
    /\ snap[w].version <= cmd.version
    /\ worker[w] # "idle" /\ snap[w].version = cmd.version
         => snap[w].status = cmd.status /\ snap[w].retryable = cmd.retryable
    /\ worker[w] = "recover" => snap[w].status \in Running
    /\ worker[w] = "expire" => \/ snap[w].status \in Rejectable
                               \/ snap[w].status = "FAILED" /\ snap[w].retryable
    /\ Holding(w) /\ snap[w].version = cmd.version /\ cmd.status \in Running
         => attemptOf[w] = Len(attempts)

ApprovalDiscipline ==
  /\ ApprovedMeansApproved
  /\ OneApproval
  /\ (\E a \in Admins : approval[a] # "none")
       => cmd.status \notin {"ABSENT", "RECEIVED", "VALIDATED", "APPROVAL_REQUIRED"}

Inductive == /\ TypeOK /\ HandlerDiscipline /\ AbsentIsIdle /\ SnapshotCoherent
             /\ LedgerConsistent /\ ApprovalDiscipline

(* The ledger implements the promise of OnceOnly.                          *)
PhaseOf(row) ==
  IF Startable(row) THEN "waiting"
  ELSE IF row.status = "EXECUTING" THEN "started"
  ELSE IF row.status = "SUCCEEDED" THEN "succeeded"
  ELSE "abandoned"

Promise == INSTANCE OnceOnly WITH phase <- PhaseOf(cmd), ran <- runs > 0

KeepsPromise == Promise!Spec
=============================================================================
