---------------------------- MODULE InboundEvent ----------------------------
(***************************************************************************)
(* One WhatsApp message on its way through the assistant                   *)
(* (apps/api/src/modules/sofia/sofia-whatsapp.service.ts and               *)
(* sofia/whatsapp/production).                                             *)
(*                                                                         *)
(* The provider may deliver the message any number of times.  A delivery   *)
(* claims the row of the message under a lease, runs the agent, whose      *)
(* effects cannot be undone, and answers.  What has been done is kept in   *)
(* the row as a checkpoint, for the delivery that takes over when a lease  *)
(* has lapsed.  A recovery worker gives what was abandoned to a human.     *)
(*                                                                         *)
(* The conversation exists and nobody archives it.                         *)
(*                                                                         *)
(* A claim raises the number of attempts, so that the number stands for    *)
(* the claim token.  Every statement that is fenced by the token also      *)
(* wants the lease to be live: a lapsed lease never comes back.            *)
(***************************************************************************)
EXTENDS Naturals, FiniteSets

CONSTANTS Handlers,     \* deliveries under way
          Workers,      \* recovery workers, one per process
          MaxAttempts,  \* INBOUND_MAX_ATTEMPTS
          MaxMoves,     \* bound: what operators do with the conversation
          MaxDeaths     \* bound: cycles of the workers that fail
CONSTANTS Nothing

ASSUME InboundAssumption ==
  /\ MaxAttempts \in Nat \ {0} /\ MaxMoves \in Nat /\ MaxDeaths \in Nat
  /\ IsFiniteSet(Handlers) /\ IsFiniteSet(Workers)
  /\ Nothing \notin Nat

VARIABLES row,      \* whatsapp_inbound_events
          conv,     \* whatsapp_conversations
          replies,  \* whatsapp_outbound_messages that answer the message
          agent,    \* runs of the agent
          handler,  \* deliveries
          worker,   \* recovery workers
          bounds    \* what is used of the bounds

vars == <<row, conv, replies, agent, handler, worker, bounds>>

Terminal   == {"PROCESSED", "HUMAN_REQUIRED", "REFUSED", "ATTEMPTS_EXHAUSTED"}
Kinds      == {"none", "STARTED", "RESULT", "ABANDONED", "receipt"}
Texts      == 0..MaxAttempts \cup {Nothing}  \* 0 is the answer to a picture
Result     == [text : Texts, handoff : BOOLEAN]
Checkpoint == [kind : Kinds, result : Result, applied : BOOLEAN]

RowSet     == [status : {"ABSENT", "CLAIMED", "FAILED"} \cup Terminal, attempts : 0..MaxAttempts,
               live : BOOLEAN, checkpoint : Checkpoint]
ConvSet    == [state : {"SOFIA_ACTIVE", "HUMAN_REQUIRED", "HUMAN_TAKEN"}, handed : BOOLEAN]
HandlerSet == [step : {"idle", "claimed", "start", "run", "agent", "apply", "handed", "reply",
                       "failclosed", "complete"},
               token : 0..MaxAttempts, checkpoint : Checkpoint, outcome : {"none"} \cup Terminal]

NoResult == [text |-> Nothing, handoff |-> FALSE]
Mark(kind, result, applied) == [kind |-> kind, result |-> result, applied |-> applied]
Unmarked == Mark("none", NoResult, FALSE)
Receipt  == Mark("receipt", NoResult, FALSE)
Idle     == [step |-> "idle", token |-> 0, checkpoint |-> Unmarked, outcome |-> "none"]

Init ==
  /\ row = [status |-> "ABSENT", attempts |-> 0, live |-> FALSE, checkpoint |-> Unmarked]
  /\ conv = [state |-> "SOFIA_ACTIVE", handed |-> FALSE]
  /\ replies = {} /\ agent = 0
  /\ handler = [h \in Handlers |-> Idle]
  /\ worker = [k \in Workers |-> "idle"]
  /\ bounds = [moves |-> 0, deaths |-> 0]

----------------------------------------------------------------------------
(* The row.                                                                *)

Lapsed    == row.status = "CLAIMED" /\ ~row.live
Abandoned == row.status = "FAILED" /\ row.checkpoint.kind = "ABANDONED"
             /\ ~row.checkpoint.applied

AnyHolder(h) == TRUE
Holder(h) == row.status = "CLAIMED" /\ row.live /\ row.attempts = handler[h].token

At(h, step)      == handler[h].step = step
Goto(h, fields)  == handler' = [handler EXCEPT ![h] = fields]
Done(h)          == Goto(h, Idle)
Release(status, checkpoint) ==
  row' = [row EXCEPT !.status = status, !.live = FALSE, !.checkpoint = checkpoint]

(* checkpointInbound: a handler that holds the lease writes down where it  *)
(* is; one that does not, throws (see Fail).                               *)
Write(h, step, c) ==
  /\ Holder(h) /\ row' = [row EXCEPT !.checkpoint = c]
  /\ Goto(h, [handler[h] EXCEPT !.step = step, !.checkpoint = c])

----------------------------------------------------------------------------
(* Deliveries.                                                             *)

(* claimInbound: the conditions of the read are in the WHERE of the        *)
(* update, which is tried again when it finds another row.                 *)
Claimable == row.status \in {"ABSENT", "FAILED"} \/ Lapsed

AttemptsLeft == row.attempts < MaxAttempts

Claim(h) ==
  /\ At(h, "idle") /\ Claimable
  /\ IF AttemptsLeft
     THEN /\ row' = [row EXCEPT !.status = "CLAIMED", !.attempts = @ + 1, !.live = TRUE]
          /\ Goto(h, [Idle EXCEPT !.step = "claimed", !.token = row.attempts + 1,
                                  !.checkpoint = row.checkpoint])
     ELSE Release("ATTEMPTS_EXHAUSTED", Receipt) /\ UNCHANGED handler
  /\ UNCHANGED <<conv, replies, agent, worker, bounds>>

ToComplete(h, outcome) == Goto(h, [handler[h] EXCEPT !.step = "complete", !.outcome = outcome])

(* A rate limit, whatever was done before; a paused conversation, a policy *)
(* or a mode, for a message that was not taken up yet.                     *)
Refuse(h) ==
  /\ At(h, "claimed") /\ ToComplete(h, "REFUSED")
  /\ UNCHANGED <<row, conv, replies, agent, worker, bounds>>

(* handleInboundMode: what the claim recovered decides what is done.       *)
RunsAgain(kind) ==
  CASE kind = "none" -> "start" [] kind = "STARTED" -> "start"
    [] kind = "RESULT" -> "apply" [] OTHER -> "complete"
Resumption(kind) ==
  CASE kind = "none" -> "start" [] kind = "STARTED" -> "failclosed"
    [] kind = "RESULT" -> "apply" [] OTHER -> "complete"

Resume(h) == LET kind == handler[h].checkpoint.kind IN
  /\ At(h, "claimed") /\ (kind = "none" => conv.state = "SOFIA_ACTIVE")
  /\ Goto(h, [handler[h] EXCEPT !.step = Resumption(kind),
                !.outcome = IF kind = "ABANDONED" THEN "HUMAN_REQUIRED" ELSE "PROCESSED"])
  /\ UNCHANGED <<row, conv, replies, agent, worker, bounds>>

(* A picture or an audio is not shown to the agent.                        *)
Media(h) ==
  /\ At(h, "start") /\ Write(h, "apply", Mark("RESULT", [text |-> 0, handoff |-> TRUE], FALSE))
  /\ UNCHANGED <<conv, replies, agent, worker, bounds>>

Start(h) ==
  /\ At(h, "start") /\ Write(h, "run", Mark("STARTED", NoResult, FALSE))
  /\ UNCHANGED <<conv, replies, agent, worker, bounds>>

(* withInboundAgentLease: the lease is renewed before and after.           *)
RunAgent(h) ==
  /\ At(h, "run") /\ Holder(h) /\ agent' = agent + 1
  /\ Goto(h, [handler[h] EXCEPT !.step = "agent"])
  /\ UNCHANGED <<row, conv, replies, worker, bounds>>

(* The answer is never empty, which the composers of the agent prevent but *)
(* for a suggested reply of blanks only: such a message is processed with  *)
(* no reply.                                                               *)
AgentAnswers(h) == \E handoff \in BOOLEAN :
  /\ At(h, "agent") /\ Write(h, "apply", Mark("RESULT", [text |-> agent, handoff |-> handoff], FALSE))
  /\ UNCHANGED <<conv, replies, agent, worker, bounds>>

(* ensureInboundHumanHandoff.                                              *)
EnsureHuman == conv' = [state |-> IF conv.state = "SOFIA_ACTIVE" THEN "HUMAN_REQUIRED"
                                  ELSE conv.state, handed |-> TRUE]

(* applyInboundConversationCheckpoint: the handoff comes before the reply. *)
ReplyAtOnce(c) == FALSE
HandoffDue(c) == c.result.handoff /\ ~c.applied

Handoff(h) ==
  /\ At(h, "apply") /\ HandoffDue(handler[h].checkpoint) /\ EnsureHuman
  /\ Goto(h, [handler[h] EXCEPT !.step = "handed"])
  /\ UNCHANGED <<row, replies, agent, worker, bounds>>

NoteHandoff(h) ==
  /\ At(h, "handed")
  /\ Write(h, IF handler[h].outcome = "HUMAN_REQUIRED" THEN "complete" ELSE "reply",
           [handler[h].checkpoint EXCEPT !.applied = TRUE])
  /\ UNCHANGED <<conv, replies, agent, worker, bounds>>

NoHandoff(h) ==
  /\ At(h, "apply") /\ ~HandoffDue(handler[h].checkpoint)
  /\ Goto(h, [handler[h] EXCEPT !.step = "reply"])
  /\ UNCHANGED <<row, conv, replies, agent, worker, bounds>>

(* createOutboundForMode, unique by the message and the text; the lease    *)
(* is not looked at.                                                       *)
Reply(h) == LET result == handler[h].checkpoint.result IN
  /\ At(h, "reply") /\ ToComplete(h, "PROCESSED")
  /\ replies' = replies \cup (IF result.text = Nothing THEN {} ELSE {result})
  /\ UNCHANGED <<row, conv, agent, worker, bounds>>

(* failClosedRecoveredConversation: nobody knows what the agent did.       *)
NotHandedOver == UNCHANGED conv
HandOver == EnsureHuman

FailClosed(h) ==
  /\ At(h, "failclosed") /\ HandOver
  /\ Goto(h, [handler[h] EXCEPT !.step = "handed", !.outcome = "HUMAN_REQUIRED",
                                !.checkpoint = Mark("RESULT", [NoResult EXCEPT !.handoff = TRUE], FALSE)])
  /\ UNCHANGED <<row, replies, agent, worker, bounds>>

(* completeInbound: without the lease nothing is written; the caller is    *)
(* told or not, depending on the row.                                      *)
Complete(h) ==
  /\ At(h, "complete") /\ Done(h)
  /\ IF Holder(h) THEN Release(handler[h].outcome, Receipt) ELSE UNCHANGED row
  /\ UNCHANGED <<conv, replies, agent, worker, bounds>>

(* A step throws: the lease was lost, the agent failed, the database did.  *)
Fail(h) ==
  /\ handler[h].step # "idle" /\ Done(h)
  /\ IF Holder(h) THEN Release("FAILED", row.checkpoint) ELSE UNCHANGED row
  /\ UNCHANGED <<conv, replies, agent, worker, bounds>>

Die(h) == handler[h].step # "idle" /\ Done(h)
          /\ UNCHANGED <<row, conv, replies, agent, worker, bounds>>

(* The clock: two minutes without a renewal, also of a handler that lives. *)
Lapse == row.live /\ row' = [row EXCEPT !.live = FALSE]
         /\ UNCHANGED <<conv, replies, agent, handler, worker, bounds>>

----------------------------------------------------------------------------
(* The recovery worker.                                                    *)

OnlyLapsed == Lapsed
Recoverable == Lapsed \/ Abandoned

Step(k, from, to) == worker[k] = from /\ worker' = [worker EXCEPT ![k] = to]

(* recoverAbandonedInboundBatch.                                           *)
Recover(k) ==
  /\ Step(k, "idle", "picked") /\ Recoverable
  /\ IF Lapsed THEN Release("FAILED", Mark("ABANDONED", NoResult, FALSE)) ELSE UNCHANGED row
  /\ UNCHANGED <<conv, replies, agent, handler, bounds>>

(* The conversation goes to a human from whatever state it is in.          *)
RecoverHandoff(k) ==
  /\ Step(k, "picked", "handed") /\ conv' = [state |-> "HUMAN_REQUIRED", handed |-> TRUE]
  /\ UNCHANGED <<row, replies, agent, handler, bounds>>

(* completeAbandonedInboundHandoff, also of a later abandonment.           *)
RecoverDone(k) ==
  /\ Step(k, "handed", "idle")
  /\ row' = IF row.status = "FAILED" /\ row.checkpoint.kind = "ABANDONED"
            THEN [row EXCEPT !.checkpoint.applied = TRUE] ELSE row
  /\ UNCHANGED <<conv, replies, agent, handler, bounds>>

(* A conflict on the version, an error, the end of the process.            *)
RecoverFails(k) ==
  /\ worker[k] # "idle" /\ worker' = [worker EXCEPT ![k] = "idle"]
  /\ bounds.deaths < MaxDeaths /\ bounds' = [bounds EXCEPT !.deaths = @ + 1]
  /\ UNCHANGED <<row, conv, replies, agent, handler>>

----------------------------------------------------------------------------
(* takeOverConversation and resumeConversation.                            *)
Operate == \E state \in {"HUMAN_TAKEN", "SOFIA_ACTIVE"} :
  /\ bounds.moves < MaxMoves /\ bounds' = [bounds EXCEPT !.moves = @ + 1]
  /\ conv' = [conv EXCEPT !.state = state]
  /\ UNCHANGED <<row, replies, agent, handler, worker>>

Next ==
  \/ \E h \in Handlers :
       \/ Claim(h) \/ Refuse(h) \/ Resume(h) \/ Media(h) \/ Start(h) \/ RunAgent(h)
       \/ AgentAnswers(h) \/ Handoff(h) \/ NoteHandoff(h) \/ NoHandoff(h) \/ Reply(h)
       \/ FailClosed(h) \/ Complete(h) \/ Fail(h) \/ Die(h)
  \/ Lapse
  \/ \E k \in Workers : Recover(k) \/ RecoverHandoff(k) \/ RecoverDone(k) \/ RecoverFails(k)
  \/ Operate

Spec == Init /\ [][Next]_vars

(* Time passes, and a worker runs every two seconds.  Nothing is assumed   *)
(* of the provider, of the deliveries, or of the operators.                *)
FairSpec ==
  Spec /\ WF_vars(Lapse)
       /\ \A k \in Workers : WF_vars(Recover(k)) /\ WF_vars(RecoverHandoff(k))
                             /\ WF_vars(RecoverDone(k))

----------------------------------------------------------------------------
TypeOK ==
  /\ row \in RowSet /\ conv \in ConvSet
  /\ replies \subseteq Result /\ agent \in 0..MaxAttempts
  /\ handler \in [Handlers -> HandlerSet]
  /\ worker \in [Workers -> {"idle", "picked", "handed"}]
  /\ bounds \in [moves : 0..MaxMoves, deaths : 0..MaxDeaths]

(* The agent sees a message once, however often it is delivered, wherever  *)
(* a delivery dies and whichever handlers lost their lease meanwhile (the  *)
(* checkpoints of handleInboundMode).                                      *)
AgentOnce == agent <= 1

(* The customer is not answered twice: all replies to a message are the    *)
(* same one, also those of a handler that lost its lease.                  *)
OneReply == Cardinality(replies) <= 1

(* When the agent asks for a human, the customer is not answered before    *)
(* the conversation is out of the hands of the assistant, also when the    *)
(* handler that does the one is not the one that does the other.           *)
HandedBeforeReply == \A r \in replies : r.handoff => conv.handed

(* A message that counts as processed was answered or given to a human.    *)
Served == replies # {} \/ conv.handed
ProcessedMeansServed == row.status = "PROCESSED" => Served

(* What was told of a settled message stays true: no late handler, worker  *)
(* or redelivery changes it (completeInbound, "terminal results            *)
(* immutable").                                                            *)
SettledStays == [][row.status \in Terminal => row' = row]_vars

(* A message whose handler died does not stay claimed.  Once abandoned, it *)
(* is given to a human: the recovery worker finds it again after every     *)
(* failure of its own (recoverAbandonedInboundBatch), and nobody may note  *)
(* a handoff that did not happen.  The code promises no more: a delivery   *)
(* that comes before the handoff settles the message without one, as       *)
(* refused, out of attempts or HUMAN_REQUIRED, and then the worker does    *)
(* not find it any more (handleInboundMode, claimInbound); see README.     *)
Settled == row.status \in Terminal \ {"PROCESSED"}
NotForgotten == /\ <>[](row.status # "CLAIMED" /\ ~Abandoned)
                /\ (row.status = "FAILED" /\ row.checkpoint.kind = "ABANDONED")
                     ~> (conv.handed \/ Settled)

(* Whoever sends a message is promised what OnceOnly says of the effect    *)
(* "answered, or given to a human": not before the message was taken up or *)
(* abandoned, PROCESSED only if it happened, and no verdict is taken back, *)
(* whichever handlers are late and whatever the recovery worker does.      *)
Phase ==
  IF row.status = "PROCESSED" THEN "succeeded"
  ELSE IF row.status \in Terminal \/ row.checkpoint.kind = "ABANDONED" THEN "abandoned"
  ELSE IF row.checkpoint.kind = "none" THEN "waiting" ELSE "started"

Promise == INSTANCE OnceOnly WITH phase <- Phase, ran <- Served

KeepsPromise == Promise!Spec
=============================================================================
