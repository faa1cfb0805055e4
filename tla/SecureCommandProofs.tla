------------------------ MODULE SecureCommandProofs ------------------------
(***************************************************************************)
(* Proofs about SecureCommand, for every set of callers, admins and        *)
(* workers and every bound on the attempts.                                *)
(***************************************************************************)
EXTENDS SecureCommand, SequenceTheorems, TLAPS

USE DEF rows, clock, calls

(* Writing the row through Write or a record update keeps its type.        *)
LEMMA InitType == Init => TypeOK
  <1> SUFFICES ASSUME Init PROVE TypeOK
    OBVIOUS
  <1>1. NoCommand \in Row
    BY DEF NoCommand, Row, Statuses, Failures
  <1>2. cmd \in Row /\ snap \in [Workers -> Row]
    BY <1>1 DEF Init
  <1>3. expired \in BOOLEAN /\ policyOpen \in BOOLEAN
    BY DEF Init
  <1>4. attempts \in Seq(Outcomes)
    BY DEF Init
  <1>5. /\ approval \in [Admins -> {"none", "live", "lapsed", "revoked"}]
        /\ caller \in [Callers -> Call({"idle", "validate", "ask"})]
        /\ admin \in [Admins -> Call({"idle", "grant", "reject"})]
        /\ worker \in [Workers -> Steps]
        /\ attemptOf \in [Workers -> Nat]
        /\ runs \in Nat
    BY DEF Init, NoCall, Call, Steps
  <1> QED BY <1>2, <1>3, <1>4, <1>5 DEF TypeOK

(* The status a call moves to is a step of execute().                      *)
LEMMA NextStepType ==
  ASSUME NEW row PROVE NextStep(row) \in {"idle", "expire", "policy"}
  BY DEF NextStep

LEMMA CloseType ==
  ASSUME attempts \in Seq(Outcomes), NEW i, NEW o \in Outcomes, Close(i, o)
  PROVE  attempts' \in Seq(Outcomes)
  <1>1. attempts \in [1..Len(attempts) -> Outcomes]
    BY LenProperties
  <1>2. CASE i \in 1..Len(attempts)
    BY <1>2, ExceptSeq DEF Close
  <1>3. CASE i \notin 1..Len(attempts)
    <2>1. attempts' = attempts
      BY <1>1, <1>3 DEF Close
    <2> QED BY <2>1
  <1> QED BY <1>2, <1>3

LEMMA WriteType ==
  ASSUME cmd \in Row, NEW row \in Row, Write(row)
  PROVE  cmd' \in Row
  BY DEF Write, Row

LEMMA StatusType ==
  ASSUME cmd \in Row, NEW s \in Statuses
  PROVE  [cmd EXCEPT !.status = s] \in Row
  BY DEF Row

LEMMA FirstRow == [NoCommand EXCEPT !.status = "RECEIVED"] \in Row
  BY DEF Row, NoCommand, Statuses, Failures

LEMMA CallType ==
  ASSUME NEW steps, NEW s \in steps, NEW v \in Nat
  PROVE  [step |-> s, version |-> v] \in Call(steps)
  BY DEF Call

LEMMA RowType ==
  /\ NoCommand \in Row
  /\ cmd \in Row => cmd.version \in Nat /\ cmd.version + 1 \in Nat
  BY DEF Row, NoCommand, Statuses, Failures

LEMMA NextType == TypeOK /\ [Next]_vars => TypeOK'
  <1> SUFFICES ASSUME TypeOK, [Next]_vars PROVE TypeOK'
    OBVIOUS
  <1> USE DEF TypeOK
  <1>0. NoCall \in Call({"idle", "validate", "ask"}) /\ NoCall \in Call({"idle", "grant", "reject"})
    BY CallType DEF NoCall
  <1>1. ASSUME NEW c \in Callers, Receive(c) PROVE TypeOK'
    BY <1>1, FirstRow DEF Receive, Call
  <1>2. ASSUME NEW c \in Callers, Validate(c) PROVE TypeOK'
    <2>1. cmd' \in Row
      BY <1>2, WriteType, StatusType DEF Validate, Statuses
    <2>2. [step |-> "ask", version |-> cmd.version + 1] \in Call({"idle", "validate", "ask"})
      BY CallType, RowType
    <2>3. caller' \in [Callers -> Call({"idle", "validate", "ask"})]
      BY <1>0, <1>2, <2>2 DEF Validate
    <2> QED BY <1>2, <2>1, <2>3 DEF Validate
  <1>3. ASSUME NEW c \in Callers, AskApproval(c) PROVE TypeOK'
    <2>1. cmd' \in Row
      BY <1>3, WriteType, StatusType DEF AskApproval, Statuses
    <2> QED BY <1>0, <1>3, <2>1 DEF AskApproval
  <1>4. ASSUME NEW c \in Callers, CallerDies(c) PROVE TypeOK'
    BY <1>0, <1>4 DEF CallerDies
  <1>5. ASSUME NEW a \in Admins, BeginGrant(a) \/ BeginReject(a) PROVE TypeOK'
    <2>1. /\ [step |-> "grant", version |-> cmd.version] \in Call({"idle", "grant", "reject"})
          /\ [step |-> "reject", version |-> cmd.version] \in Call({"idle", "grant", "reject"})
      BY CallType, RowType
    <2> QED BY <1>5, <2>1 DEF BeginGrant, BeginReject
  <1>6. ASSUME NEW a \in Admins, Grant(a) PROVE TypeOK'
    <2>1. cmd' \in Row
      BY <1>6, WriteType, StatusType DEF Grant, GrantCommits, Statuses
    <2> QED BY <1>0, <1>6, <2>1 DEF Grant
  <1>7. ASSUME NEW a \in Admins, Reject(a) PROVE TypeOK'
    <2>1. cmd' \in Row
      BY <1>7, WriteType, StatusType DEF Reject, Statuses
    <2> QED BY <1>0, <1>7, <2>1 DEF Reject
  <1>8. ASSUME NEW a \in Admins, NEW g \in Admins, Revoke(a, g) PROVE TypeOK'
    <2>1. [cmd EXCEPT !.status = "REJECTED", !.failure = "OTHER"] \in Row
      BY DEF Row, Statuses, Failures
    <2>2. cmd' \in Row
      BY <1>8, <2>1, WriteType DEF Revoke
    <2> QED BY <1>8, <2>2 DEF Revoke
  <1>9. ASSUME NEW a \in Admins, ApprovalLapses(a) PROVE TypeOK'
    BY <1>9 DEF ApprovalLapses
  <1>10. ASSUME LeaseLapses \/ CommandExpires \/ SwitchFlips PROVE TypeOK'
    <2>1. CASE LeaseLapses
      BY <2>1, RowType DEF LeaseLapses, Row
    <2>2. CASE CommandExpires
      BY <2>2 DEF CommandExpires
    <2>3. CASE SwitchFlips
      BY <2>3 DEF SwitchFlips
    <2> QED BY <1>10, <2>1, <2>2, <2>3
  <1>11. ASSUME NEW w \in Workers, Execute(w) PROVE TypeOK'
    BY <1>11, NextStepType DEF Execute, Go, Hold, Steps
  <1>12. ASSUME NEW w \in Workers, Stop(w)
         PROVE  /\ worker' \in [Workers -> Steps]
                /\ snap' \in [Workers -> Row]
                /\ attemptOf' \in [Workers -> Nat]
    BY <1>12, RowType DEF Stop, Go, Hold, Open, Steps
  <1>13. ASSUME NEW w \in Workers, Expire(w) PROVE TypeOK'
    <2>1. [cmd EXCEPT !.status = "EXPIRED", !.retryable = FALSE, !.failure = "OTHER"] \in Row
      BY DEF Row, Statuses, Failures
    <2>2. cmd' \in Row
      BY <1>13, <2>1, WriteType DEF Expire
    <2> QED BY <1>13, <1>12, <2>2 DEF Expire
  <1>14. ASSUME NEW w \in Workers, CheckApproval(w) PROVE TypeOK'
    <2>1. CASE Stop(w)
      BY <1>14, <1>12, <2>1 DEF CheckApproval
    <2>2. CASE ~Stop(w)
      BY <1>14, <2>2 DEF CheckApproval, Go, Steps
    <2> QED BY <2>1, <2>2
  <1>15. ASSUME NEW w \in Workers, CheckPolicy(w) PROVE TypeOK'
    BY <1>15 DEF CheckPolicy, Go, Steps
  <1>16. ASSUME NEW w \in Workers, Handler(w) PROVE TypeOK'
    BY <1>16 DEF Handler, Go, Steps
  <1>17. ASSUME NEW w \in Workers, WorkerDies(w) PROVE TypeOK'
    BY <1>17, <1>12 DEF WorkerDies
  <1>18. ASSUME NEW w \in Workers, MarkExecuting(w) PROVE TypeOK'
    <2>1. cmd' \in Row
      BY <1>18, WriteType, StatusType DEF MarkExecuting, Statuses
    <2> QED BY <1>18, <2>1 DEF MarkExecuting, Go, Hold, Steps
  <1>19. ASSUME NEW w \in Workers, Claim(w) PROVE TypeOK'
    <2>1. CASE Stop(w) /\ UNCHANGED <<cmd, attempts>>
      BY <1>19, <1>12, <2>1 DEF Claim
    <2>2. CASE /\ cmd' = [cmd EXCEPT !.status = "CLAIMED", !.version = cmd.version + 1,
                            !.lease = "live", !.failure = "NONE", !.retryable = FALSE]
               /\ attempts' = Append(attempts, "CLAIMED")
               /\ Go(w, "preMark") /\ Hold(w, cmd') /\ Open(w, Len(attempts) + 1)
      <3>0. [cmd EXCEPT !.status = "CLAIMED", !.version = cmd.version + 1,
                        !.lease = "live", !.failure = "NONE", !.retryable = FALSE] \in Row
        BY RowType DEF Row, Statuses, Failures
      <3>1. cmd' \in Row
        BY <2>2, <3>0
      <3>2. attempts' \in Seq(Outcomes) /\ Len(attempts) + 1 \in Nat
        BY <2>2, LenProperties, AppendProperties DEF Outcomes
      <3>3. /\ worker' \in [Workers -> Steps]
            /\ snap' \in [Workers -> Row]
            /\ attemptOf' \in [Workers -> Nat]
        BY <2>2, <3>1, <3>2 DEF Go, Hold, Open, Steps
      <3> QED BY <1>19, <3>1, <3>2, <3>3 DEF Claim
    <2> QED BY <1>19, <2>1, <2>2 DEF Claim
  <1>20. ASSUME NEW w \in Workers, Succeed(w) PROVE TypeOK'
    <2>1. CASE UNCHANGED <<cmd, attempts>> /\ Go(w, "fail") /\ UNCHANGED <<snap, attemptOf>>
      BY <1>20, <2>1 DEF Succeed, Go, Steps
    <2>2. CASE Write([cmd EXCEPT !.status = "SUCCEEDED", !.lease = "none", !.retryable = FALSE])
               /\ Close(attemptOf[w], "SUCCEEDED") /\ Stop(w)
      <3>1. [cmd EXCEPT !.status = "SUCCEEDED", !.lease = "none", !.retryable = FALSE] \in Row
        BY DEF Row, Statuses
      <3>2. cmd' \in Row
        BY <2>2, <3>1, WriteType
      <3>3. attempts' \in Seq(Outcomes)
        BY <2>2, CloseType DEF Outcomes
      <3> QED BY <1>20, <1>12, <2>2, <3>2, <3>3 DEF Succeed
    <2> QED BY <1>20, <2>1, <2>2 DEF Succeed
  <1>21. ASSUME NEW w \in Workers, Fail(w) PROVE TypeOK'
    <2>1. CASE UNCHANGED <<cmd, attempts>>
      BY <1>21, <1>12, <2>1 DEF Fail
    <2>2. CASE ~UNCHANGED <<cmd, attempts>>
      <3> DEFINE f == IF worker[w] = "fail" THEN "OTHER" ELSE "UNKNOWN_RESULT"
      <3>1. [cmd EXCEPT !.status = "FAILED", !.lease = "none", !.retryable = FALSE, !.failure = f] \in Row
        BY DEF Row, Statuses, Failures
      <3>2. cmd' \in Row
        BY <1>21, <2>2, <3>1, WriteType DEF Fail
      <3>3. attempts' \in Seq(Outcomes)
        BY <1>21, <2>2, CloseType DEF Fail, Outcomes
      <3> QED BY <1>21, <1>12, <3>2, <3>3 DEF Fail
    <2> QED BY <2>1, <2>2
  <1>22. ASSUME NEW w \in Workers, Recover(w) PROVE TypeOK'
    <2> DEFINE retry == RetryAfterLapse(snap[w].status)
               row == [cmd EXCEPT !.status = "FAILED", !.version = cmd.version + 1,
                               !.lease = "none", !.retryable = retry,
                               !.failure = IF retry THEN "TIMEOUT" ELSE "UNKNOWN_RESULT"]
    <2>1. row \in Row
      BY RowType DEF Row, Statuses, Failures, RetryAfterLapse
    <2>2. CASE UNCHANGED <<cmd, attempts>> /\ Stop(w)
      BY <1>22, <1>12, <2>2 DEF Recover
    <2>3. CASE ~(UNCHANGED <<cmd, attempts>> /\ Stop(w))
      <3>1. /\ cmd' = row
            /\ CloseLastOpen(IF retry THEN "EXPIRED" ELSE "FAILED")
            /\ IF retry THEN Go(w, NextStep(row)) /\ Hold(w, row) /\ Open(w, 0) ELSE Stop(w)
        BY <1>22, <2>3 DEF Recover
      <3>2. attempts' \in Seq(Outcomes)
        BY <3>1, CloseType DEF CloseLastOpen, Outcomes
      <3>3. /\ worker' \in [Workers -> Steps]
            /\ snap' \in [Workers -> Row]
            /\ attemptOf' \in [Workers -> Nat]
        <4>1. CASE retry
          <5> HIDE DEF row
          <5>1. NextStep(row) \in Steps
            BY NextStepType DEF Steps
          <5>2. Go(w, NextStep(row)) /\ Hold(w, row) /\ Open(w, 0)
            BY <3>1, <4>1
          <5> QED BY <2>1, <5>1, <5>2 DEF Go, Hold, Open
        <4>2. CASE ~retry
          BY <1>12, <3>1, <4>2
        <4> QED BY <4>1, <4>2
      <3> QED BY <1>22, <2>1, <3>1, <3>2, <3>3 DEF Recover
    <2> QED BY <2>2, <2>3
  <1>23. CASE UNCHANGED vars
    BY <1>23 DEF vars
  <1> QED
    BY <1>1, <1>2, <1>3, <1>4, <1>5, <1>6, <1>7, <1>8, <1>9, <1>10, <1>11, <1>13, <1>14,
       <1>15, <1>16, <1>17, <1>18, <1>19, <1>20, <1>21, <1>22, <1>23 DEF Next

(* Every variable of the ledger keeps its type.                            *)
THEOREM TypeCorrect == Spec => []TypeOK
  BY InitType, NextType, PTL DEF Spec

----------------------------------------------------------------------------

(* A step that leaves every execute() call where it is keeps the handler   *)
(* discipline if it makes no row startable again.                          *)
LEMMA HandlerByOthers ==
  ASSUME HandlerDiscipline, UNCHANGED <<worker, runs>>, Startable(cmd') => Startable(cmd)
  PROVE  HandlerDiscipline'
  BY DEF HandlerDiscipline, Inside, AtMostOneRun

(* So does an execute() call that moves to a step outside the handler.     *)
LEMMA HandlerByOutside ==
  ASSUME TypeOK, HandlerDiscipline, NEW w \in Workers, NEW step \in Steps, Go(w, step),
         step \notin {"preHandler", "handler", "succeed"},
         UNCHANGED runs, Startable(cmd') => Startable(cmd)
  PROVE  HandlerDiscipline'
  BY DEF HandlerDiscipline, Inside, AtMostOneRun, TypeOK, Go

LEMMA HandlerNext == TypeOK /\ HandlerDiscipline /\ [Next]_vars => HandlerDiscipline'
  <1> SUFFICES ASSUME TypeOK, HandlerDiscipline, [Next]_vars PROVE HandlerDiscipline'
    OBVIOUS
  <1>1. ASSUME NEW c \in Callers, Receive(c) \/ Validate(c) \/ AskApproval(c) \/ CallerDies(c)
        PROVE  HandlerDiscipline'
    BY <1>1, HandlerByOthers
       DEF Receive, Validate, AskApproval, CallerDies, Matches, Write, Startable, NoCommand,
           TypeOK, Row, Rejectable
  <1>2. ASSUME NEW a \in Admins,
               BeginGrant(a) \/ Grant(a) \/ BeginReject(a) \/ Reject(a) \/ ApprovalLapses(a)
        PROVE  HandlerDiscipline'
    BY <1>2, HandlerByOthers
       DEF BeginGrant, Grant, GrantCommits, BeginReject, Reject, ApprovalLapses, Matches, Write, Startable,
           TypeOK, Row, Rejectable
  <1>3. ASSUME NEW a \in Admins, NEW g \in Admins, Revoke(a, g) PROVE HandlerDiscipline'
    BY <1>3, HandlerByOthers DEF Revoke, RejectsOnRevoke, Write, Startable, TypeOK, Row, Rejectable
  <1>4. ASSUME LeaseLapses \/ CommandExpires \/ SwitchFlips PROVE HandlerDiscipline'
    BY <1>4, HandlerByOthers DEF LeaseLapses, CommandExpires, SwitchFlips, Startable, TypeOK, Row
  <1>5. ASSUME NEW w \in Workers, Execute(w) PROVE HandlerDiscipline'
    <2>1. PICK step : Go(w, step) /\ step \in {"recover", "expire", "policy", "idle"} /\ UNCHANGED <<cmd, runs>>
      BY <1>5, NextStepType DEF Execute
    <2> QED BY <2>1, HandlerByOutside DEF Steps
  <1>6. ASSUME NEW w \in Workers, Recover(w) PROVE HandlerDiscipline'
    <2>1. PICK step : Go(w, step) /\ step \in {"expire", "policy", "idle"}
      BY <1>6, NextStepType DEF Recover, Stop
    <2>2. Startable(cmd') => Startable(cmd)
      BY <1>6 DEF Recover, RetryAfterLapse, Matches, Startable, TypeOK, Row, Rejectable
    <2> QED BY <1>6, <2>1, <2>2, HandlerByOutside DEF Recover, Steps
  <1>7. ASSUME NEW w \in Workers, Expire(w) PROVE HandlerDiscipline'
    BY <1>7, HandlerByOutside DEF Expire, Stop, Write, Startable, Steps, TypeOK, Row, Rejectable
  <1>8. ASSUME NEW w \in Workers, CheckApproval(w) PROVE HandlerDiscipline'
    BY <1>8, HandlerByOutside DEF CheckApproval, Stop, Steps
  <1>9. ASSUME NEW w \in Workers, Claim(w) PROVE HandlerDiscipline'
    BY <1>9, HandlerByOutside DEF Claim, Claimable, Stop, Steps, Startable, TypeOK, Row, Rejectable
  <1>10. ASSUME NEW w \in Workers, CheckPolicy(w) PROVE HandlerDiscipline'
    BY <1>10 DEF CheckPolicy, Go, HandlerDiscipline, Inside, AtMostOneRun, TypeOK
  <1>11. ASSUME NEW w \in Workers, MarkExecuting(w) PROVE HandlerDiscipline'
    <2>1. CASE OwnsClaim(w)
      <3>1. runs = 0 /\ \A v \in Workers : ~Inside(v)
        BY <2>1 DEF OwnsClaim, Matches, HandlerDiscipline, Startable
      <3>2. ~Startable(cmd')
        BY <1>11, <2>1 DEF MarkExecuting, Write, Startable, TypeOK, Row, Rejectable
      <3> QED BY <1>11, <2>1, <3>1, <3>2
           DEF MarkExecuting, Go, HandlerDiscipline, Inside, AtMostOneRun, TypeOK
    <2>2. CASE ~OwnsClaim(w)
      BY <1>11, <2>2, HandlerByOutside DEF MarkExecuting, Steps
    <2> QED BY <2>1, <2>2
  <1>12. ASSUME NEW w \in Workers, Handler(w) PROVE HandlerDiscipline'
    BY <1>12 DEF Handler, Go, HandlerDiscipline, Inside, AtMostOneRun, TypeOK
  <1>13. ASSUME NEW w \in Workers, Succeed(w) PROVE HandlerDiscipline'
    BY <1>13, HandlerByOutside DEF Succeed, Stop, Write, Steps, Startable, TypeOK, Row, Rejectable
  <1>14. ASSUME NEW w \in Workers, Fail(w) PROVE HandlerDiscipline'
    BY <1>14, HandlerByOutside DEF Fail, Stop, Write, Steps, Startable, TypeOK, Row, Rejectable
  <1>15. ASSUME NEW w \in Workers, WorkerDies(w) PROVE HandlerDiscipline'
    BY <1>15, HandlerByOutside DEF WorkerDies, Stop, Steps
  <1>16. CASE UNCHANGED vars
    BY <1>16, HandlerByOthers DEF vars
  <1> QED
    BY <1>1, <1>2, <1>3, <1>4, <1>5, <1>6, <1>7, <1>8, <1>9, <1>10, <1>11, <1>12, <1>13,
       <1>14, <1>15, <1>16 DEF Next

----------------------------------------------------------------------------

LEMMA ApprovalNext == TypeOK /\ ApprovalDiscipline /\ [Next]_vars => ApprovalDiscipline'
  <1> SUFFICES ASSUME TypeOK, ApprovalDiscipline, [Next]_vars PROVE ApprovalDiscipline'
    OBVIOUS
  <1> USE DEF ApprovalDiscipline, ApprovedMeansApproved, OneApproval, InForce
  <1>1. ASSUME NEW c \in Callers, Receive(c) \/ Validate(c) \/ AskApproval(c) \/ CallerDies(c)
        PROVE  ApprovalDiscipline'
    BY <1>1 DEF Receive, Validate, AskApproval, CallerDies, Matches, Write, NoCommand, TypeOK, Row
  <1>2. ASSUME NEW a \in Admins, BeginGrant(a) \/ BeginReject(a) \/ Reject(a) \/ ApprovalLapses(a)
        PROVE  ApprovalDiscipline'
    BY <1>2 DEF BeginGrant, BeginReject, Reject, ApprovalLapses, Write, TypeOK, Row
  <1>3. ASSUME NEW a \in Admins, Grant(a) PROVE ApprovalDiscipline'
    <2>1. CASE GrantCommits(a)
      <3>1. \A b \in Admins : approval[b] = "none"
        BY <2>1 DEF GrantCommits, Matches
      <3>2. approval' = [approval EXCEPT ![a] = IF expired THEN "lapsed" ELSE "live"]
        BY <1>3, <2>1 DEF Grant
      <3>3. cmd'.status = "APPROVED"
        BY <1>3, <2>1 DEF Grant, GrantCommits, Write, TypeOK, Row
      <3>4. approval'[a] \in {"live", "lapsed"} /\ \A b \in Admins \ {a} : approval'[b] = "none"
        BY <3>1, <3>2 DEF TypeOK
      <3> QED BY <3>3, <3>4
    <2>2. CASE ~GrantCommits(a)
      BY <1>3, <2>2 DEF Grant
    <2> QED BY <2>1, <2>2
  <1>4. ASSUME NEW a \in Admins, NEW g \in Admins, Revoke(a, g) PROVE ApprovalDiscipline'
    <2>1. \A b \in Admins : approval'[b] # "none" <=> approval[b] # "none"
      BY <1>4 DEF Revoke, TypeOK
    <2>2. CASE cmd.status = "APPROVED"
      <3>1. cmd'.status = "REJECTED"
        BY <1>4, <2>2 DEF Revoke, RejectsOnRevoke, Write, TypeOK, Row
      <3> QED BY <2>1, <3>1
    <2>3. CASE cmd.status # "APPROVED"
      BY <1>4, <2>1, <2>3 DEF Revoke, RejectsOnRevoke
    <2> QED BY <2>2, <2>3
  <1>5. ASSUME LeaseLapses \/ CommandExpires \/ SwitchFlips PROVE ApprovalDiscipline'
    BY <1>5 DEF LeaseLapses, CommandExpires, SwitchFlips, TypeOK, Row
  <1>6. ASSUME NEW w \in Workers,
               \/ Execute(w) \/ Recover(w) \/ Expire(w) \/ CheckApproval(w) \/ Claim(w)
               \/ CheckPolicy(w) \/ MarkExecuting(w) \/ Handler(w) \/ Succeed(w) \/ Fail(w)
               \/ WorkerDies(w)
        PROVE  ApprovalDiscipline'
    <2>1. UNCHANGED approval
      BY <1>6 DEF Execute, Recover, Expire, CheckApproval, Claim, CheckPolicy, MarkExecuting,
                  Handler, Succeed, Fail, WorkerDies
    <2>2. \/ cmd'.status = cmd.status
          \/ cmd'.status \in {"FAILED", "EXPIRED", "CLAIMED", "EXECUTING", "SUCCEEDED"}
      BY <1>6 DEF Execute, Recover, Expire, CheckApproval, Claim, CheckPolicy, MarkExecuting,
                  Handler, Succeed, Fail, WorkerDies, Write, TypeOK, Row
    <2> QED BY <2>1, <2>2
  <1>7. CASE UNCHANGED vars
    BY <1>7 DEF vars
  <1> QED BY <1>1, <1>2, <1>3, <1>4, <1>5, <1>6, <1>7 DEF Next

----------------------------------------------------------------------------

(* A step that leaves the execute() calls alone keeps what they hold       *)
(* coherent: it writes a newer version, or changes nothing they compare.   *)
LEMMA SnapshotByOthers ==
  ASSUME TypeOK, SnapshotCoherent, UNCHANGED <<worker, snap, attemptOf>>,
         \/ cmd'.version = cmd.version + 1
         \/ /\ cmd'.version = cmd.version /\ cmd'.status = cmd.status
            /\ cmd'.retryable = cmd.retryable /\ attempts' = attempts
  PROVE  SnapshotCoherent'
  BY DEF SnapshotCoherent, Holding, TypeOK, Row

(* The calls that did not take the step, when it writes a newer version.   *)
LEMMA SnapshotOfOthers ==
  ASSUME TypeOK, SnapshotCoherent, NEW w \in Workers, NEW v \in Workers \ {w},
         worker'[v] = worker[v], snap'[v] = snap[v], attemptOf'[v] = attemptOf[v],
         \/ cmd'.version = cmd.version + 1
         \/ /\ cmd'.version = cmd.version /\ cmd'.status = cmd.status
            /\ cmd'.retryable = cmd.retryable /\ attempts' = attempts
  PROVE  /\ snap'[v].version <= cmd'.version
         /\ worker'[v] # "idle" /\ snap'[v].version = cmd'.version
              => snap'[v].status = cmd'.status /\ snap'[v].retryable = cmd'.retryable
         /\ worker'[v] = "recover" => snap'[v].status \in Running
         /\ worker'[v] = "expire" => \/ snap'[v].status \in Rejectable
                                     \/ snap'[v].status = "FAILED" /\ snap'[v].retryable
         /\ worker'[v] \notin {"idle", "recover", "expire", "policy", "claim"}
              /\ snap'[v].version = cmd'.version /\ cmd'.status \in Running
              => attemptOf'[v] = Len(attempts')
  BY DEF SnapshotCoherent, Holding, TypeOK, Row

LEMMA AbsentNext == TypeOK /\ AbsentIsIdle /\ [Next]_vars => AbsentIsIdle'
  <1> SUFFICES ASSUME TypeOK, AbsentIsIdle, [Next]_vars PROVE AbsentIsIdle'
    OBVIOUS
  <1> USE DEF AbsentIsIdle
  <1>1. ASSUME NEW c \in Callers, Receive(c) \/ Validate(c) \/ AskApproval(c) \/ CallerDies(c)
        PROVE  AbsentIsIdle'
    BY <1>1 DEF Receive, Validate, AskApproval, CallerDies, Write, NoCommand, TypeOK, Row
  <1>2. ASSUME NEW a \in Admins,
               BeginGrant(a) \/ Grant(a) \/ BeginReject(a) \/ Reject(a) \/ ApprovalLapses(a)
        PROVE  AbsentIsIdle'
    BY <1>2 DEF BeginGrant, Grant, GrantCommits, BeginReject, Reject, ApprovalLapses, Write, TypeOK, Row
  <1>3. ASSUME NEW a \in Admins, NEW g \in Admins, Revoke(a, g) PROVE AbsentIsIdle'
    BY <1>3 DEF Revoke, RejectsOnRevoke, Write, TypeOK, Row
  <1>4. ASSUME LeaseLapses \/ CommandExpires \/ SwitchFlips PROVE AbsentIsIdle'
    BY <1>4 DEF LeaseLapses, CommandExpires, SwitchFlips, NoCommand, TypeOK, Row
  <1>5. ASSUME NEW w \in Workers, Execute(w) PROVE AbsentIsIdle'
    BY <1>5 DEF Execute
  <1>6. ASSUME NEW w \in Workers,
               \/ Recover(w) \/ Expire(w) \/ CheckApproval(w) \/ Claim(w)
               \/ CheckPolicy(w) \/ MarkExecuting(w) \/ Handler(w) \/ Succeed(w) \/ Fail(w)
               \/ WorkerDies(w)
        PROVE  AbsentIsIdle'
    <2>1. worker[w] # "idle"
      BY <1>6 DEF Recover, Expire, CheckApproval, Claim, CheckPolicy, MarkExecuting,
                  Handler, Succeed, Fail, WorkerDies
    <2>2. cmd.status # "ABSENT"
      BY <2>1
    <2>3. \/ cmd'.status = cmd.status
          \/ cmd'.status \in {"FAILED", "EXPIRED", "CLAIMED", "EXECUTING", "SUCCEEDED"}
      BY <1>6 DEF Recover, Expire, CheckApproval, Claim, CheckPolicy, MarkExecuting,
                  Handler, Succeed, Fail, WorkerDies, Write, TypeOK, Row
    <2> QED BY <2>2, <2>3
  <1>7. CASE UNCHANGED vars
    BY <1>7 DEF vars
  <1> QED BY <1>1, <1>2, <1>3, <1>4, <1>5, <1>6, <1>7 DEF Next

(* What an execute() call holds is coherent with the rows.                 *)
CoherentCall(v) ==
  /\ snap[v].version <= cmd.version
  /\ worker[v] # "idle" /\ snap[v].version = cmd.version
       => snap[v].status = cmd.status /\ snap[v].retryable = cmd.retryable
  /\ worker[v] = "recover" => snap[v].status \in Running
  /\ worker[v] = "expire" => \/ snap[v].status \in Rejectable
                             \/ snap[v].status = "FAILED" /\ snap[v].retryable
  /\ Holding(v) /\ snap[v].version = cmd.version /\ cmd.status \in Running
       => attemptOf[v] = Len(attempts)

(* A step of one call keeps them coherent if it writes a newer version or  *)
(* none, and its own call is.                                              *)
LEMMA SnapshotByOne ==
  ASSUME TypeOK, SnapshotCoherent, NEW w \in Workers,
         \A v \in Workers \ {w} : /\ worker'[v] = worker[v] /\ snap'[v] = snap[v]
                                  /\ attemptOf'[v] = attemptOf[v],
         \/ cmd'.version = cmd.version + 1
         \/ cmd' = cmd /\ attempts' = attempts,
         CoherentCall(w)'
  PROVE  SnapshotCoherent'
  <1>1. ASSUME NEW v \in Workers \ {w} PROVE CoherentCall(v)'
    BY <1>1, SnapshotOfOthers DEF CoherentCall, Holding
  <1> QED BY <1>1 DEF SnapshotCoherent, CoherentCall

LEMMA NextStepStatus ==
  ASSUME NEW row \in Row, row.status # "ABSENT", NextStep(row) = "expire"
  PROVE  row.status \in Rejectable \/ (row.status = "FAILED" /\ row.retryable)
  BY DEF NextStep, Settled, Running, Rejectable, Row, Statuses

LEMMA SnapshotNext == TypeOK /\ AbsentIsIdle /\ SnapshotCoherent /\ [Next]_vars => SnapshotCoherent'
  <1> SUFFICES ASSUME TypeOK, AbsentIsIdle, SnapshotCoherent, [Next]_vars PROVE SnapshotCoherent'
    OBVIOUS
  <1>1. ASSUME NEW c \in Callers, Validate(c) \/ AskApproval(c) \/ CallerDies(c)
        PROVE  SnapshotCoherent'
    BY <1>1, SnapshotByOthers DEF Validate, AskApproval, CallerDies, Write, TypeOK, Row
  <1>2. ASSUME NEW a \in Admins,
               BeginGrant(a) \/ Grant(a) \/ BeginReject(a) \/ Reject(a) \/ ApprovalLapses(a)
        PROVE  SnapshotCoherent'
    BY <1>2, SnapshotByOthers
       DEF BeginGrant, Grant, GrantCommits, BeginReject, Reject, ApprovalLapses, Write, TypeOK, Row
  <1>3. ASSUME NEW a \in Admins, NEW g \in Admins, Revoke(a, g) PROVE SnapshotCoherent'
    BY <1>3, SnapshotByOthers DEF Revoke, Write, TypeOK, Row
  <1>4. ASSUME LeaseLapses \/ CommandExpires \/ SwitchFlips PROVE SnapshotCoherent'
    BY <1>4, SnapshotByOthers DEF LeaseLapses, CommandExpires, SwitchFlips, TypeOK, Row
  <1>5. ASSUME NEW c \in Callers, Receive(c) PROVE SnapshotCoherent'
    BY <1>5 DEF Receive, AbsentIsIdle, SnapshotCoherent, Holding, NoCommand, TypeOK, Row
  <1>6. ASSUME NEW w \in Workers, Stop(w)
        PROVE  /\ \A v \in Workers \ {w} : /\ worker'[v] = worker[v] /\ snap'[v] = snap[v]
                                           /\ attemptOf'[v] = attemptOf[v]
               /\ worker'[w] = "idle" /\ snap'[w] = NoCommand
    BY <1>6 DEF Stop, Go, Hold, Open, TypeOK
  <1>7. ASSUME NEW w \in Workers, Stop(w),
               cmd'.version = cmd.version + 1 \/ (cmd' = cmd /\ attempts' = attempts)
        PROVE  SnapshotCoherent'
    <2>1. CoherentCall(w)'
      BY <1>6, <1>7 DEF CoherentCall, Holding, NoCommand, TypeOK, Row
    <2> QED BY <1>6, <1>7, <2>1, SnapshotByOne
  <1>8. ASSUME NEW w \in Workers, Execute(w) PROVE SnapshotCoherent'
    <2>1. /\ \A v \in Workers \ {w} : /\ worker'[v] = worker[v] /\ snap'[v] = snap[v]
                                      /\ attemptOf'[v] = attemptOf[v]
          /\ snap'[w] = cmd /\ UNCHANGED <<cmd, attempts>>
          /\ worker'[w] = IF LeaseLapsed(cmd) THEN "recover" ELSE NextStep(cmd)
          /\ cmd.status # "ABSENT"
      BY <1>8 DEF Execute, Go, Hold, TypeOK
    <2>2. cmd \in Row /\ cmd.version \in Nat
      BY DEF TypeOK, Row
    <2>3. worker'[w] = "recover" => cmd.status \in Running
      BY <2>1, NextStepType DEF LeaseLapsed
    <2>4. worker'[w] = "expire" => \/ cmd.status \in Rejectable
                                   \/ cmd.status = "FAILED" /\ cmd.retryable
      BY <2>1, <2>2, NextStepStatus
    <2>5. ~Holding(w)'
      BY <2>1, NextStepType DEF Holding
    <2>6. CoherentCall(w)'
      BY <2>1, <2>2, <2>3, <2>4, <2>5 DEF CoherentCall
    <2> QED BY <2>1, <2>6, SnapshotByOne
  <1>9. ASSUME NEW w \in Workers, Expire(w) \/ Fail(w) \/ WorkerDies(w) PROVE SnapshotCoherent'
    BY <1>7, <1>9 DEF Expire, Fail, WorkerDies, Write, TypeOK, Row
  <1>10. ASSUME NEW w \in Workers, CheckApproval(w) \/ CheckPolicy(w) \/ Handler(w)
         PROVE SnapshotCoherent'
    <2>1. CASE Stop(w)
      BY <1>7, <1>10, <2>1 DEF CheckApproval, CheckPolicy, Handler
    <2>2. CASE ~Stop(w)
      <3>1. /\ UNCHANGED <<cmd, attempts, snap, attemptOf>>
            /\ \E step \in {"claim", "fail", "mark", "handler", "succeed", "failUnknown"} : Go(w, step)
            /\ worker[w] \in {"policy", "preMark", "preHandler", "handler"}
            /\ worker[w] = "policy" => Go(w, "claim")
        BY <1>10, <2>2 DEF CheckApproval, CheckPolicy, Handler
      <3>2. CoherentCall(w)'
        BY <3>1 DEF SnapshotCoherent, CoherentCall, Holding, Go, TypeOK
      <3> QED BY <3>1, <3>2, SnapshotByOne DEF Go, TypeOK
    <2> QED BY <2>1, <2>2
  <1>11. ASSUME NEW w \in Workers, Claim(w) PROVE SnapshotCoherent'
    <2>1. CASE Stop(w) /\ UNCHANGED <<cmd, attempts>>
      BY <1>7, <2>1
    <2>2. CASE /\ cmd' = [cmd EXCEPT !.status = "CLAIMED", !.version = cmd.version + 1,
                            !.lease = "live", !.failure = "NONE", !.retryable = FALSE]
               /\ attempts' = Append(attempts, "CLAIMED")
               /\ Go(w, "preMark") /\ Hold(w, cmd') /\ Open(w, Len(attempts) + 1)
      <3>1. cmd'.version = cmd.version + 1 /\ cmd'.version \in Nat
        BY <2>2 DEF TypeOK, Row
      <3>2. Len(attempts') = Len(attempts) + 1
        BY <2>2, AppendProperties DEF TypeOK, Outcomes
      <3>3. /\ worker'[w] = "preMark" /\ snap'[w] = cmd' /\ attemptOf'[w] = Len(attempts) + 1
            /\ \A v \in Workers \ {w} : /\ worker'[v] = worker[v] /\ snap'[v] = snap[v]
                                        /\ attemptOf'[v] = attemptOf[v]
        BY <2>2 DEF Go, Hold, Open, TypeOK
      <3>4. CoherentCall(w)'
        BY <3>1, <3>2, <3>3 DEF CoherentCall, Holding
      <3> QED BY <3>1, <3>3, <3>4, SnapshotByOne
    <2> QED BY <1>11, <2>1, <2>2 DEF Claim
  <1>12. ASSUME NEW w \in Workers, MarkExecuting(w) PROVE SnapshotCoherent'
    <2>1. CASE OwnsClaim(w)
      <3>0. Write([cmd EXCEPT !.status = "EXECUTING"]) /\ UNCHANGED <<attempts, attemptOf>>
        BY <1>12, <2>1 DEF MarkExecuting
      <3>1. cmd'.version = cmd.version + 1 /\ cmd'.version \in Nat
        BY <3>0 DEF Write, TypeOK, Row
      <3>2. /\ worker'[w] = "preHandler" /\ snap'[w] = cmd'
            /\ \A v \in Workers \ {w} : worker'[v] = worker[v] /\ snap'[v] = snap[v]
        BY <1>12, <2>1 DEF MarkExecuting, Go, Hold, TypeOK
      <3>3. attemptOf[w] = Len(attempts)
        BY <1>12, <2>1 DEF MarkExecuting, OwnsClaim, Matches, SnapshotCoherent, Holding, Running
      <3>4. CoherentCall(w)'
        BY <3>0, <3>1, <3>2, <3>3 DEF CoherentCall, Holding
      <3> QED BY <3>0, <3>1, <3>2, <3>4, SnapshotByOne
    <2>2. CASE ~OwnsClaim(w)
      <3>1. UNCHANGED <<cmd, attempts, snap, attemptOf>> /\ Go(w, "fail") /\ worker[w] = "mark"
        BY <1>12, <2>2 DEF MarkExecuting
      <3>2. CoherentCall(w)'
        BY <3>1 DEF SnapshotCoherent, CoherentCall, Holding, Go, TypeOK
      <3> QED BY <3>1, <3>2, SnapshotByOne DEF Go, TypeOK
    <2> QED BY <2>1, <2>2
  <1>13. ASSUME NEW w \in Workers, Succeed(w) PROVE SnapshotCoherent'
    <2>1. CASE OwnsExecution(w)
      <3>1. Stop(w) /\ cmd'.version = cmd.version + 1
        BY <1>13, <2>1 DEF Succeed, Write, TypeOK, Row
      <3> QED BY <1>7, <3>1
    <2>2. CASE ~OwnsExecution(w)
      <3>1. UNCHANGED <<cmd, attempts, snap, attemptOf>> /\ Go(w, "fail") /\ worker[w] = "succeed"
        BY <1>13, <2>2 DEF Succeed
      <3>2. CoherentCall(w)'
        BY <3>1 DEF SnapshotCoherent, CoherentCall, Holding, Go, TypeOK
      <3> QED BY <3>1, <3>2, SnapshotByOne DEF Go, TypeOK
    <2> QED BY <2>1, <2>2
  <1>14. ASSUME NEW w \in Workers, Recover(w) PROVE SnapshotCoherent'
    <2> DEFINE retry == RetryAfterLapse(snap[w].status)
               row == [cmd EXCEPT !.status = "FAILED", !.version = cmd.version + 1,
                               !.lease = "none", !.retryable = retry,
                               !.failure = IF retry THEN "TIMEOUT" ELSE "UNKNOWN_RESULT"]
    <2>1. CASE Stop(w)
      <3>1. cmd'.version = cmd.version + 1 \/ UNCHANGED <<cmd, attempts>>
        BY <1>14, <2>1 DEF Recover, TypeOK, Row
      <3> QED BY <1>7, <2>1, <3>1
    <2>2. CASE ~Stop(w)
      <3>1. cmd' = row /\ Go(w, NextStep(row)) /\ Hold(w, row) /\ Open(w, 0) /\ retry
        BY <1>14, <2>2 DEF Recover
      <3>2. /\ row \in Row /\ row.version = cmd.version + 1 /\ row.version \in Nat
            /\ row.status = "FAILED"
        BY RowType DEF TypeOK, Row, Statuses, Failures, RetryAfterLapse
      <3> HIDE DEF row
      <3>3. /\ worker'[w] = NextStep(row) /\ snap'[w] = cmd'
            /\ \A v \in Workers \ {w} : /\ worker'[v] = worker[v] /\ snap'[v] = snap[v]
                                        /\ attemptOf'[v] = attemptOf[v]
        BY <3>1 DEF Go, Hold, Open, TypeOK
      <3>4. CoherentCall(w)'
        BY <3>1, <3>2, <3>3, NextStepType, NextStepStatus DEF CoherentCall, Holding
      <3> QED BY <3>1, <3>2, <3>3, <3>4, SnapshotByOne
    <2> QED BY <2>1, <2>2
  <1>15. CASE UNCHANGED vars
    BY <1>15, SnapshotByOthers DEF vars
  <1> QED
    BY <1>1, <1>2, <1>3, <1>4, <1>5, <1>8, <1>9, <1>10, <1>11, <1>12, <1>13, <1>14, <1>15 DEF Next

----------------------------------------------------------------------------

(* Closing the last attempt of a ledger that is open settles the ledger.   *)
LEMMA CloseLast ==
  ASSUME TypeOK, LedgerConsistent, cmd.status \in Running, NEW o \in Outcomes \ {"CLAIMED"},
         Close(Len(attempts), o)
  PROVE  /\ OpenAttempts' = {}
         /\ Len(attempts') = Len(attempts)
         /\ {i \in DOMAIN attempts' : attempts'[i] = "SUCCEEDED"}
              = IF o = "SUCCEEDED" THEN {Len(attempts)} ELSE {}
  <1>1. Len(attempts) \in 1..Len(attempts) /\ DOMAIN attempts = 1..Len(attempts)
    BY LenProperties DEF LedgerConsistent, TypeOK
  <1>2. /\ attempts' \in Seq(Outcomes)
        /\ Len(attempts') = Len(attempts)
        /\ \A j \in 1..Len(attempts) : attempts'[j] = IF j = Len(attempts) THEN o ELSE attempts[j]
    BY <1>1, ExceptSeq DEF Close, TypeOK, Outcomes
  <1>3. DOMAIN attempts' = 1..Len(attempts)
    BY <1>2, LenProperties
  <1>4. /\ \A j \in 1..Len(attempts) : attempts[j] = "CLAIMED" <=> j = Len(attempts)
        /\ \A j \in 1..Len(attempts) : attempts[j] # "SUCCEEDED"
    BY <1>1 DEF LedgerConsistent, OpenAttempts, Running
  <1> QED BY <1>1, <1>2, <1>3, <1>4 DEF OpenAttempts

(* The ledger only changes with the status.                                *)
LEMMA LedgerSame ==
  ASSUME LedgerConsistent, UNCHANGED attempts,
         \/ cmd'.status = cmd.status
         \/ cmd.status \notin Running \cup {"SUCCEEDED"} /\ cmd'.status \notin Running \cup {"SUCCEEDED"}
         \/ cmd.status \in Running /\ cmd'.status \in Running
  PROVE  LedgerConsistent'
  BY DEF LedgerConsistent, OpenAttempts, Running

LEMMA LedgerNext ==
  TypeOK /\ AbsentIsIdle /\ SnapshotCoherent /\ LedgerConsistent /\ [Next]_vars => LedgerConsistent'
  <1> SUFFICES ASSUME TypeOK, AbsentIsIdle, SnapshotCoherent, LedgerConsistent, [Next]_vars
               PROVE  LedgerConsistent'
    OBVIOUS
  <1>1. ASSUME NEW c \in Callers, Receive(c) \/ Validate(c) \/ AskApproval(c) \/ CallerDies(c)
        PROVE  LedgerConsistent'
    BY <1>1, LedgerSame
       DEF Receive, Validate, AskApproval, CallerDies, Matches, Write, NoCommand, Running, TypeOK, Row
  <1>2. ASSUME NEW a \in Admins,
               BeginGrant(a) \/ Grant(a) \/ BeginReject(a) \/ Reject(a) \/ ApprovalLapses(a)
        PROVE  LedgerConsistent'
    BY <1>2, LedgerSame
       DEF BeginGrant, Grant, GrantCommits, BeginReject, Reject, ApprovalLapses, Matches, Write, Rejectable,
           Running, TypeOK, Row
  <1>3. ASSUME NEW a \in Admins, NEW g \in Admins, Revoke(a, g) PROVE LedgerConsistent'
    BY <1>3, LedgerSame DEF Revoke, RejectsOnRevoke, Write, Running, TypeOK, Row
  <1>4. ASSUME LeaseLapses \/ CommandExpires \/ SwitchFlips PROVE LedgerConsistent'
    BY <1>4, LedgerSame DEF LeaseLapses, CommandExpires, SwitchFlips, TypeOK, Row
  <1>5. ASSUME NEW w \in Workers,
               Execute(w) \/ CheckApproval(w) \/ CheckPolicy(w) \/ Handler(w) \/ WorkerDies(w)
        PROVE  LedgerConsistent'
    BY <1>5, LedgerSame DEF Execute, CheckApproval, CheckPolicy, Handler, WorkerDies
  <1>6. ASSUME NEW w \in Workers, MarkExecuting(w) PROVE LedgerConsistent'
    BY <1>6, LedgerSame DEF MarkExecuting, OwnsClaim, Matches, Write, Running, TypeOK, Row
  <1>7. ASSUME NEW w \in Workers, Expire(w) PROVE LedgerConsistent'
    <2>1. CASE Matches(snap[w].version, {snap[w].status})
      <3>1. cmd.status \in Rejectable \cup {"FAILED"}
        BY <1>7, <2>1 DEF Expire, Matches, SnapshotCoherent
      <3> QED BY <1>7, <2>1, <3>1, LedgerSame DEF Expire, Write, Rejectable, Running, TypeOK, Row
    <2>2. CASE ~Matches(snap[w].version, {snap[w].status})
      BY <1>7, <2>2, LedgerSame DEF Expire
    <2> QED BY <2>1, <2>2
  <1>8. ASSUME NEW w \in Workers, Claim(w) PROVE LedgerConsistent'
    <2>1. CASE UNCHANGED <<cmd, attempts>>
      BY <2>1, LedgerSame
    <2>2. CASE ~UNCHANGED <<cmd, attempts>>
      <3>1. cmd.status \in {"APPROVED", "FAILED"} /\ attempts' = Append(attempts, "CLAIMED")
        BY <1>8, <2>2 DEF Claim, Claimable
      <3>2. cmd'.status = "CLAIMED"
        BY <1>8, <2>2 DEF Claim, TypeOK, Row
      <3>3. /\ attempts' \in Seq(Outcomes) /\ Len(attempts) \in Nat
            /\ Len(attempts') = Len(attempts) + 1 /\ attempts'[Len(attempts) + 1] = "CLAIMED"
            /\ \A j \in 1..Len(attempts) : attempts'[j] = attempts[j]
        BY <3>1, AppendProperties, LenProperties DEF TypeOK, Outcomes
      <3>4. DOMAIN attempts = 1..Len(attempts) /\ DOMAIN attempts' = 1..(Len(attempts) + 1)
        BY <3>3, LenProperties DEF TypeOK
      <3>5. \A j \in 1..Len(attempts) : attempts[j] \notin {"CLAIMED", "SUCCEEDED"}
        BY <3>1, <3>4 DEF LedgerConsistent, OpenAttempts, Running
      <3> QED BY <3>2, <3>3, <3>4, <3>5 DEF LedgerConsistent, OpenAttempts, Running
    <2> QED BY <2>1, <2>2
  <1>9. ASSUME NEW w \in Workers, Succeed(w) PROVE LedgerConsistent'
    <2>1. CASE OwnsExecution(w)
      <3>1. cmd.status \in Running /\ attemptOf[w] = Len(attempts)
        BY <1>9, <2>1 DEF Succeed, OwnsExecution, Matches, SnapshotCoherent, Holding, Running
      <3>2. Close(Len(attempts), "SUCCEEDED") /\ cmd'.status = "SUCCEEDED"
        BY <1>9, <2>1, <3>1 DEF Succeed, Write, TypeOK, Row
      <3> QED BY <3>1, <3>2, CloseLast DEF LedgerConsistent, Outcomes, Running
    <2>2. CASE ~OwnsExecution(w)
      BY <1>9, <2>2, LedgerSame DEF Succeed
    <2> QED BY <2>1, <2>2
  <1>10. ASSUME NEW w \in Workers, Fail(w) PROVE LedgerConsistent'
    <2>1. CASE Matches(snap[w].version, Running)
      <3>1. cmd.status \in Running /\ attemptOf[w] = Len(attempts)
        BY <1>10, <2>1 DEF Fail, Matches, SnapshotCoherent, Holding
      <3>2. Close(Len(attempts), "FAILED") /\ cmd'.status = "FAILED"
        BY <1>10, <2>1, <3>1 DEF Fail, Write, TypeOK, Row
      <3> QED BY <3>1, <3>2, CloseLast DEF LedgerConsistent, Outcomes, Running
    <2>2. CASE ~Matches(snap[w].version, Running)
      BY <1>10, <2>2, LedgerSame DEF Fail
    <2> QED BY <2>1, <2>2
  <1>11. ASSUME NEW w \in Workers, Recover(w) PROVE LedgerConsistent'
    <2>1. CASE UNCHANGED <<cmd, attempts>>
      BY <2>1, LedgerSame
    <2>2. CASE ~UNCHANGED <<cmd, attempts>>
      <3>1. /\ cmd.status \in Running /\ cmd'.status = "FAILED"
            /\ \E o \in {"EXPIRED", "FAILED"} : CloseLastOpen(o)
        BY <1>11, <2>2 DEF Recover, LeaseLapsed, TypeOK, Row
      <3>2. OpenAttempts = {Len(attempts)}
        BY <3>1 DEF LedgerConsistent
      <3>3. \E o \in {"EXPIRED", "FAILED"} : Close(Len(attempts), o)
        BY <3>1, <3>2 DEF CloseLastOpen
      <3> QED BY <3>1, <3>3, CloseLast DEF LedgerConsistent, Outcomes, Running
    <2> QED BY <2>1, <2>2
  <1>12. CASE UNCHANGED vars
    BY <1>12, LedgerSame DEF vars
  <1> QED
    BY <1>1, <1>2, <1>3, <1>4, <1>5, <1>6, <1>7, <1>8, <1>9, <1>10, <1>11, <1>12 DEF Next

----------------------------------------------------------------------------

LEMMA InductiveInit == Init => Inductive
  <1> SUFFICES ASSUME Init PROVE Inductive
    OBVIOUS
  <1>1. HandlerDiscipline
    BY DEF Init, HandlerDiscipline, Inside, AtMostOneRun
  <1>2. AbsentIsIdle /\ SnapshotCoherent
    BY DEF Init, AbsentIsIdle, SnapshotCoherent, Holding, NoCommand
  <1>3. LedgerConsistent
    BY DEF Init, LedgerConsistent, OpenAttempts, NoCommand, Running
  <1>4. ApprovalDiscipline
    BY DEF Init, ApprovalDiscipline, ApprovedMeansApproved, OneApproval, NoCommand
  <1> QED BY <1>1, <1>2, <1>3, <1>4, InitType DEF Inductive

LEMMA InductiveNext == Inductive /\ [Next]_vars => Inductive'
  BY NextType, HandlerNext, AbsentNext, SnapshotNext, LedgerNext, ApprovalNext DEF Inductive

(* The strengthening of every safety property of the ledger holds in every *)
(* reachable state.                                                        *)
THEOREM InductiveInvariant == Spec => []Inductive
  BY InductiveInit, InductiveNext, PTL DEF Spec

(* A command whose row can still be claimed has had no handler run: the    *)
(* leases recovered, the crashes and the races of any number of workers    *)
(* never lead to a second execution.                                       *)
THEOREM NoRetryAfterHandler == Spec => []RetryOnlyBeforeHandler
  <1>1. Inductive => RetryOnlyBeforeHandler
    BY DEF Inductive, HandlerDiscipline, RetryOnlyBeforeHandler, Claimable, Startable, Rejectable
  <1> QED BY <1>1, InductiveInvariant, PTL

(* execute() enters the handler of a command at most once.                 *)
THEOREM HandlerRunsAtMostOnce == Spec => []AtMostOneRun
  <1>1. Inductive => AtMostOneRun
    BY DEF Inductive, HandlerDiscipline
  <1> QED BY <1>1, InductiveInvariant, PTL

(* The attempt rows and the command row tell one story.                    *)
THEOREM LedgerIsConsistent == Spec => []LedgerConsistent
  <1>1. Inductive => LedgerConsistent
    BY DEF Inductive
  <1> QED BY <1>1, InductiveInvariant, PTL

(* Several approvers pressing together create one approval row, and an     *)
(* APPROVED command rests on an approval nobody revoked.                   *)
THEOREM ApprovalIsSound == Spec => [](OneApproval /\ ApprovedMeansApproved)
  <1>1. Inductive => OneApproval /\ ApprovedMeansApproved
    BY DEF Inductive, ApprovalDiscipline
  <1> QED BY <1>1, InductiveInvariant, PTL

(* However many approvers press together, one approval row is created.     *)
THEOREM ApprovedOnce == Spec => []OneApproval
  BY ApprovalIsSound, PTL

----------------------------------------------------------------------------

LEMMA LifecycleStep ==
  Inductive /\ [Next]_vars =>
    [cmd'.status # cmd.status =>
       \/ cmd.status = "ABSENT" /\ cmd'.status = "RECEIVED"
       \/ MayMove(cmd.status, cmd'.status, cmd.retryable)]_vars
  <1> SUFFICES ASSUME Inductive, Next, cmd'.status # cmd.status
               PROVE  \/ cmd.status = "ABSENT" /\ cmd'.status = "RECEIVED"
                      \/ MayMove(cmd.status, cmd'.status, cmd.retryable)
    BY DEF vars
  <1> USE DEF MayMove, Transitions, Matches
  <1>0. TypeOK /\ SnapshotCoherent
    BY DEF Inductive
  <1>1. ASSUME NEW c \in Callers, Receive(c) \/ Validate(c) \/ AskApproval(c) \/ CallerDies(c)
        PROVE  \/ cmd.status = "ABSENT" /\ cmd'.status = "RECEIVED"
               \/ MayMove(cmd.status, cmd'.status, cmd.retryable)
    BY <1>0, <1>1 DEF Receive, Validate, AskApproval, CallerDies, Write, NoCommand, TypeOK, Row
  <1>2. ASSUME NEW a \in Admins,
               BeginGrant(a) \/ Grant(a) \/ BeginReject(a) \/ Reject(a) \/ ApprovalLapses(a)
        PROVE  MayMove(cmd.status, cmd'.status, cmd.retryable)
    BY <1>0, <1>2 DEF BeginGrant, Grant, GrantCommits, BeginReject, Reject, ApprovalLapses, Write, Rejectable, TypeOK, Row
  <1>3. ASSUME NEW a \in Admins, NEW g \in Admins, Revoke(a, g)
        PROVE  MayMove(cmd.status, cmd'.status, cmd.retryable)
    BY <1>0, <1>3 DEF Revoke, RejectsOnRevoke, Write, TypeOK, Row
  <1>4. ~(LeaseLapses \/ CommandExpires \/ SwitchFlips)
    BY <1>0 DEF LeaseLapses, CommandExpires, SwitchFlips, TypeOK, Row
  <1>5. ASSUME NEW w \in Workers,
               Execute(w) \/ CheckApproval(w) \/ CheckPolicy(w) \/ Handler(w) \/ WorkerDies(w)
        PROVE  FALSE
    BY <1>5 DEF Execute, CheckApproval, CheckPolicy, Handler, WorkerDies
  <1>6. ASSUME NEW w \in Workers, Claim(w)
        PROVE  MayMove(cmd.status, cmd'.status, cmd.retryable)
    BY <1>0, <1>6 DEF Claim, Claimable, TypeOK, Row
  <1>7. ASSUME NEW w \in Workers, MarkExecuting(w) \/ Succeed(w) \/ Fail(w)
        PROVE  MayMove(cmd.status, cmd'.status, cmd.retryable)
    BY <1>0, <1>7 DEF MarkExecuting, OwnsClaim, Succeed, OwnsExecution, Fail, Write, Running, TypeOK, Row
  <1>8. ASSUME NEW w \in Workers, Recover(w)
        PROVE  MayMove(cmd.status, cmd'.status, cmd.retryable)
    BY <1>0, <1>8 DEF Recover, LeaseLapsed, Running, TypeOK, Row
  <1>9. ASSUME NEW w \in Workers, Expire(w)
        PROVE  MayMove(cmd.status, cmd'.status, cmd.retryable)
    <2>1. cmd.status \in Rejectable \/ (cmd.status = "FAILED" /\ cmd.retryable)
      BY <1>0, <1>9 DEF Expire, SnapshotCoherent
    <2>2. cmd'.status = "EXPIRED"
      BY <1>0, <1>9 DEF Expire, Write, TypeOK, Row
    <2> QED BY <2>1, <2>2 DEF Rejectable
  <1> QED
    BY <1>1, <1>2, <1>3, <1>4, <1>5, <1>6, <1>7, <1>8, <1>9 DEF Next

(* Every write of the status is a transition of the lifecycle table, so a  *)
(* settled command is never touched again.                                 *)
THEOREM LifecycleIsRespected == Spec => LifecycleRespected
  BY LifecycleStep, InductiveInvariant, PTL DEF Spec, LifecycleRespected

----------------------------------------------------------------------------

(* A step that moves neither the phase nor the history is a stutter.       *)
LEMMA PromiseStutter ==
  ASSUME PhaseOf(cmd') = PhaseOf(cmd), UNCHANGED runs
  PROVE  [Promise!Next]_<<PhaseOf(cmd), runs > 0>>
  OBVIOUS

LEMMA PromiseAbandon ==
  ASSUME PhaseOf(cmd) \in {"waiting", "started"}, PhaseOf(cmd') = "abandoned", UNCHANGED runs
  PROVE  [Promise!Next]_<<PhaseOf(cmd), runs > 0>>
  BY DEF Promise!Next, Promise!Abandon

LEMMA PromiseStep == Inductive /\ [Next]_vars => [Promise!Next]_<<PhaseOf(cmd), runs > 0>>
  <1> SUFFICES ASSUME Inductive, [Next]_vars
               PROVE  [Promise!Next]_<<PhaseOf(cmd), runs > 0>>
    OBVIOUS
  <1>0. TypeOK /\ HandlerDiscipline /\ SnapshotCoherent
    BY DEF Inductive
  <1>1. ASSUME NEW c \in Callers, Receive(c) \/ Validate(c) \/ AskApproval(c) \/ CallerDies(c)
        PROVE  PhaseOf(cmd') = PhaseOf(cmd) /\ UNCHANGED runs
    BY <1>0, <1>1 DEF Receive, Validate, AskApproval, CallerDies, Matches, Write, NoCommand,
                      PhaseOf, Startable, Rejectable, TypeOK, Row
  <1>2. ASSUME NEW a \in Admins, BeginGrant(a) \/ Grant(a) \/ BeginReject(a) \/ ApprovalLapses(a)
        PROVE  PhaseOf(cmd') = PhaseOf(cmd) /\ UNCHANGED runs
    BY <1>0, <1>2 DEF BeginGrant, Grant, GrantCommits, BeginReject, ApprovalLapses, Matches, Write,
                      PhaseOf, Startable, Rejectable, TypeOK, Row
  <1>3. ASSUME NEW a \in Admins, Reject(a) \/ \E g \in Admins : Revoke(a, g)
        PROVE  [Promise!Next]_<<PhaseOf(cmd), runs > 0>>
    <2>1. \/ UNCHANGED <<cmd, runs>>
          \/ cmd.status \in Rejectable /\ cmd'.status = "REJECTED" /\ UNCHANGED runs
      BY <1>0, <1>3 DEF Reject, Revoke, RejectsOnRevoke, Matches, Write, Rejectable, TypeOK, Row
    <2>2. CASE UNCHANGED <<cmd, runs>>
      BY <2>2, PromiseStutter
    <2>3. CASE cmd.status \in Rejectable /\ cmd'.status = "REJECTED" /\ UNCHANGED runs
      BY <2>3, PromiseAbandon DEF PhaseOf, Startable, Rejectable
    <2> QED BY <2>1, <2>2, <2>3
  <1>4. ASSUME LeaseLapses \/ CommandExpires \/ SwitchFlips
        PROVE  PhaseOf(cmd') = PhaseOf(cmd) /\ UNCHANGED runs
    BY <1>0, <1>4 DEF LeaseLapses, CommandExpires, SwitchFlips, PhaseOf, Startable, TypeOK, Row
  <1>5. ASSUME NEW w \in Workers,
               Execute(w) \/ CheckApproval(w) \/ CheckPolicy(w) \/ WorkerDies(w) \/ Claim(w)
        PROVE  PhaseOf(cmd') = PhaseOf(cmd) /\ UNCHANGED runs
    BY <1>0, <1>5 DEF Execute, CheckApproval, CheckPolicy, WorkerDies, Claim, Claimable,
                      PhaseOf, Startable, Rejectable, TypeOK, Row
  <1>6. ASSUME NEW w \in Workers, MarkExecuting(w)
        PROVE  [Promise!Next]_<<PhaseOf(cmd), runs > 0>>
    <2>1. CASE OwnsClaim(w)
      <3>1. PhaseOf(cmd) = "waiting" /\ PhaseOf(cmd') = "started" /\ UNCHANGED runs
        BY <1>0, <1>6, <2>1 DEF MarkExecuting, OwnsClaim, Matches, Write, PhaseOf, Startable,
                                Rejectable, TypeOK, Row
      <3> QED BY <3>1 DEF Promise!Next, Promise!Start
    <2>2. CASE ~OwnsClaim(w)
      BY <1>6, <2>2, PromiseStutter DEF MarkExecuting
    <2> QED BY <2>1, <2>2
  <1>7. ASSUME NEW w \in Workers, Handler(w)
        PROVE  [Promise!Next]_<<PhaseOf(cmd), runs > 0>>
    <2>1. runs = 0 /\ runs' = 1 /\ cmd' = cmd /\ ~Startable(cmd)
      BY <1>0, <1>7 DEF Handler, HandlerDiscipline, Inside
    <2>2. PhaseOf(cmd) # "waiting"
      BY <2>1 DEF PhaseOf
    <2> QED BY <2>1, <2>2 DEF Promise!Next, Promise!Run
  <1>8. ASSUME NEW w \in Workers, Succeed(w)
        PROVE  [Promise!Next]_<<PhaseOf(cmd), runs > 0>>
    <2>1. CASE OwnsExecution(w)
      <3>1. PhaseOf(cmd) = "started" /\ PhaseOf(cmd') = "succeeded" /\ UNCHANGED runs
        BY <1>0, <1>8, <2>1 DEF Succeed, OwnsExecution, Matches, Write, PhaseOf, Startable,
                                Rejectable, TypeOK, Row
      <3>2. runs > 0
        BY <1>0, <1>8 DEF Succeed, HandlerDiscipline
      <3> QED BY <3>1, <3>2 DEF Promise!Next, Promise!Succeed
    <2>2. CASE ~OwnsExecution(w)
      BY <1>8, <2>2, PromiseStutter DEF Succeed
    <2> QED BY <2>1, <2>2
  <1>9. ASSUME NEW w \in Workers, Fail(w) \/ Expire(w)
        PROVE  [Promise!Next]_<<PhaseOf(cmd), runs > 0>>
    <2>1. \/ UNCHANGED <<cmd, runs>>
          \/ /\ cmd.status \in Running \/ cmd.status \in Rejectable
                \/ (cmd.status = "FAILED" /\ cmd.retryable)
             /\ cmd'.status \in {"FAILED", "EXPIRED"} /\ cmd'.retryable = FALSE /\ UNCHANGED runs
      BY <1>0, <1>9 DEF Fail, Expire, Matches, SnapshotCoherent, Write, TypeOK, Row
    <2>2. CASE UNCHANGED <<cmd, runs>>
      BY <2>2, PromiseStutter
    <2>3. CASE ~UNCHANGED <<cmd, runs>>
      <3>1. PhaseOf(cmd) \in {"waiting", "started"} /\ PhaseOf(cmd') = "abandoned" /\ UNCHANGED runs
        BY <2>1, <2>3 DEF PhaseOf, Startable, Running, Rejectable
      <3> QED BY <3>1, PromiseAbandon
    <2> QED BY <2>2, <2>3
  <1>10. ASSUME NEW w \in Workers, Recover(w)
         PROVE  [Promise!Next]_<<PhaseOf(cmd), runs > 0>>
    <2>1. \/ UNCHANGED <<cmd, runs>>
          \/ /\ cmd.status \in Running /\ cmd'.status = "FAILED" /\ UNCHANGED runs
             /\ cmd'.retryable <=> cmd.status = "CLAIMED"
      BY <1>0, <1>10 DEF Recover, RetryAfterLapse, LeaseLapsed, Matches, TypeOK, Row
    <2>2. CASE UNCHANGED <<cmd, runs>>
      BY <2>2, PromiseStutter
    <2>3. CASE cmd.status = "CLAIMED" /\ ~UNCHANGED <<cmd, runs>>
      <3>1. PhaseOf(cmd') = PhaseOf(cmd) /\ UNCHANGED runs
        BY <2>1, <2>3 DEF PhaseOf, Startable, Rejectable
      <3> QED BY <3>1, PromiseStutter
    <2>4. CASE cmd.status = "EXECUTING" /\ ~UNCHANGED <<cmd, runs>>
      <3>1. PhaseOf(cmd) = "started" /\ PhaseOf(cmd') = "abandoned" /\ UNCHANGED runs
        BY <2>1, <2>4 DEF PhaseOf, Startable, Rejectable
      <3> QED BY <3>1, PromiseAbandon
    <2> QED BY <2>1, <2>2, <2>3, <2>4 DEF Running
  <1>11. CASE UNCHANGED vars
    BY <1>11, PromiseStutter DEF vars
  <1> QED
    BY <1>1, <1>2, <1>3, <1>4, <1>5, <1>6, <1>7, <1>8, <1>9, <1>10, <1>11, PromiseStutter DEF Next

(* The ledger implements OnceOnly: whatever its callers, workers, leases   *)
(* and crashes do, the effect happens at most once, only after EXECUTING   *)
(* was persisted, and SUCCEEDED means it happened.                         *)
THEOREM LedgerKeepsPromise == Spec => KeepsPromise
  <1>1. Init => Promise!Init
    BY DEF Init, Promise!Init, NoCommand, PhaseOf, Startable
  <1> QED BY <1>1, PromiseStep, InductiveInvariant, PTL DEF Spec, KeepsPromise, Promise!Spec
=============================================================================
