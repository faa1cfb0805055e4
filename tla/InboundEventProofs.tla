-------------------------- MODULE InboundEventProofs --------------------------
(***************************************************************************)
(* Proofs about the safety of InboundEvent, for any deliveries, recovery   *)
(* workers and number of attempts.                                         *)
(***************************************************************************)
EXTENDS InboundEvent, FiniteSetTheorems, TLAPS

----------------------------------------------------------------------------
(* The inductive invariant.                                                *)

Holds(x) == row.status = "CLAIMED" /\ row.live /\ row.attempts = x.token

(* What the row says is true.                                              *)
RowSound ==
  /\ row.live => row.status = "CLAIMED"
  /\ row.status = "CLAIMED" => row.attempts > 0
  /\ row.status = "PROCESSED" => Served
  /\ row.checkpoint.kind = "receipt" => row.status \in Terminal
  /\ row.checkpoint.applied => conv.handed
  /\ row.checkpoint.kind = "RESULT" /\ row.checkpoint.result.text = Nothing
       => row.checkpoint.result.handoff
  /\ agent > 0 => row.checkpoint.kind # "none"

(* What is done is done once, and in order.                                *)
EffectsSound ==
  /\ agent <= 1
  /\ \A r \in replies : r.text # Nothing /\ (r.handoff => conv.handed)
  /\ \A k \in Workers : worker[k] = "handed" => conv.handed

(* What a handler knows is true; as long as it holds the lease, the row    *)
(* says where it is.                                                       *)
Sound(x) ==
  /\ x.token <= row.attempts
  /\ x.checkpoint.kind # "receipt"
  /\ x.step = "start" => x.checkpoint.kind = "none"
  /\ x.step \in {"apply", "handed", "reply"} => x.checkpoint.kind = "RESULT"
  /\ x.checkpoint.applied => conv.handed
  /\ x.step = "handed" => conv.handed
  /\ x.step = "reply" /\ x.checkpoint.result.handoff => conv.handed
  /\ x.checkpoint.kind = "RESULT" /\ x.checkpoint.result.text = Nothing
       => x.checkpoint.result.handoff
  /\ x.step = "complete" => x.outcome # "none"
  /\ x.step = "complete" /\ x.outcome = "PROCESSED" => Served
  /\ Holds(x) =>
       /\ x.step \in {"claimed", "start"} => row.checkpoint = x.checkpoint
       /\ x.step \in {"run", "agent"} => row.checkpoint.kind = "STARTED"
       /\ x.step = "run" => agent = 0

(* No two handlers ever have one token.                                    *)
Distinct == \A g, h \in Handlers :
  g # h /\ handler[g].token = handler[h].token => handler[g].token = 0

(* There is one answer, wherever it is written down, and there is none     *)
(* before the agent has been asked.                                        *)
IsResult(r) == r.text # Nothing /\
  \/ r \in replies
  \/ row.checkpoint.kind = "RESULT" /\ row.checkpoint.result = r
  \/ \E h \in Handlers : handler[h].checkpoint.kind = "RESULT" /\ handler[h].checkpoint.result = r

OneResult ==
  /\ \A q, r \in Result : IsResult(q) /\ IsResult(r) => q = r
  /\ \A r \in Result : IsResult(r) => row.checkpoint.kind \notin {"none", "STARTED"}

Inductive ==
  /\ TypeOK /\ RowSound /\ EffectsSound /\ Distinct /\ OneResult
  /\ \A h \in Handlers : Sound(handler[h])

----------------------------------------------------------------------------
LEMMA Constants ==
  /\ MaxAttempts \in Nat \ {0} /\ Nothing \notin Nat /\ MaxMoves \in Nat /\ MaxDeaths \in Nat
  /\ 0 \in Texts /\ 1 \in Texts /\ Nothing \in Texts
  BY InboundAssumption DEF Texts

LEMMA Marks ==
  /\ NoResult \in Result /\ Unmarked \in Checkpoint /\ Receipt \in Checkpoint
  /\ \A kind \in Kinds, result \in Result, applied \in BOOLEAN :
       /\ Mark(kind, result, applied) \in Checkpoint
       /\ Mark(kind, result, applied).kind = kind /\ Mark(kind, result, applied).result = result
       /\ Mark(kind, result, applied).applied = applied
  /\ Unmarked.kind = "none" /\ Receipt.kind = "receipt" /\ ~Unmarked.applied /\ ~Receipt.applied
  BY Constants DEF NoResult, Result, Unmarked, Receipt, Mark, Checkpoint, Kinds

LEMMA IdleSound ==
  ASSUME TypeOK
  PROVE  /\ Idle \in HandlerSet /\ Idle.token = 0 /\ Idle.checkpoint.kind = "none"
         /\ RowSound => Sound(Idle)
  <1>1. Idle \in HandlerSet
    BY Marks, Constants DEF Idle, HandlerSet
  <1>2. Idle.step = "idle" /\ Idle.token = 0 /\ Idle.checkpoint = Unmarked
    BY DEF Idle
  <1>3. row.attempts \in Nat
    BY Constants DEF TypeOK, RowSet
  <1> QED BY <1>1, <1>2, <1>3, Marks DEF Sound, Holds, RowSound

LEMMA Types ==
  ASSUME TypeOK
  PROVE  /\ row \in RowSet /\ row.attempts \in Nat /\ row.attempts \in 0..MaxAttempts
         /\ row.checkpoint \in Checkpoint /\ row.checkpoint.result \in Result
         /\ \A h \in Handlers : /\ handler[h] \in HandlerSet /\ handler[h].token \in Nat
                                /\ handler[h].checkpoint \in Checkpoint
                                /\ handler[h].checkpoint.result \in Result
         /\ agent \in Nat /\ conv \in ConvSet /\ replies \subseteq Result
  BY Constants DEF TypeOK, RowSet, HandlerSet, Checkpoint

(* At most one handler holds the lease.                                    *)
LEMMA OneHolder ==
  ASSUME Inductive, NEW g \in Handlers, NEW h \in Handlers, Holds(handler[g]), Holds(handler[h])
  PROVE  g = h
  <1>1. handler[g].token = row.attempts /\ handler[h].token = row.attempts
    BY DEF Holds
  <1>2. row.attempts # 0
    BY DEF Inductive, RowSound, Holds
  <1> QED BY <1>1, <1>2 DEF Inductive, Distinct

LEMMA InitInductive == Init => Inductive
  <1> SUFFICES ASSUME Init PROVE Inductive
    OBVIOUS
  <1>1. TypeOK
    <2>1. row \in RowSet
      BY Marks, Constants DEF Init, RowSet
    <2>2. Idle \in HandlerSet
      BY Marks, Constants DEF Idle, HandlerSet
    <2> QED BY <2>1, <2>2, Constants DEF Init, TypeOK, ConvSet
  <1>2. row.checkpoint = Unmarked /\ row.status = "ABSENT" /\ ~row.live /\ row.attempts = 0
    BY DEF Init
  <1>3. RowSound /\ EffectsSound
    BY <1>2, Marks DEF Init, RowSound, EffectsSound, Terminal
  <1>4. \A h \in Handlers : handler[h] = Idle
    BY DEF Init
  <1>5. Distinct
    BY <1>1, <1>4, IdleSound DEF Distinct
  <1>6. OneResult
    BY <1>1, <1>2, <1>4, IdleSound, Marks DEF Init, OneResult, IsResult
  <1> QED BY <1>1, <1>3, <1>4, <1>5, <1>6, IdleSound DEF Inductive

----------------------------------------------------------------------------
(* Steps of a handler.                                                     *)

Onward == row'.attempts >= row.attempts /\ (conv.handed => conv'.handed) /\ replies \subseteq replies'

(* What stays known when nothing is taken back.                            *)
LEMMA StaysSound ==
  ASSUME NEW x, Sound(x), x.token \in Nat, row.attempts \in Nat, row'.attempts \in Nat, Onward,
         Holds(x)' => Holds(x) /\ row'.checkpoint = row.checkpoint /\ agent' = agent
  PROVE  Sound(x)'
  BY DEF Sound, Onward, Served

(* A step that writes nothing new leaves the one answer.                   *)
LEMMA SameResults ==
  ASSUME OneResult, \A r \in Result : IsResult(r)' => IsResult(r),
         row.checkpoint.kind \notin {"none", "STARTED"} => row'.checkpoint.kind \notin {"none", "STARTED"}
  PROVE  OneResult'
  BY DEF OneResult

(* What has to be looked at in a step of handler h, which becomes x.       *)
LEMMA HandlerStep ==
  ASSUME Inductive, NEW h \in Handlers, NEW x \in HandlerSet, Goto(h, x),
         UNCHANGED <<worker, bounds>>,
         row' \in RowSet, conv' \in ConvSet, replies' \subseteq Result, agent' \in Nat,
         Onward, Sound(x)', RowSound', EffectsSound', OneResult',
         \A g \in Handlers \ {h} : Holds(handler[g])' =>
           Holds(handler[g]) /\ row'.checkpoint = row.checkpoint /\ agent' = agent,
         x.token \in {0, handler[h].token} \/ x.token > row.attempts
  PROVE  Inductive'
  <1>1. TypeOK /\ Distinct /\ \A g \in Handlers : Sound(handler[g])
    BY DEF Inductive
  <1>2. \A g \in Handlers : handler'[g] = IF g = h THEN x ELSE handler[g]
    BY <1>1 DEF Goto, TypeOK
  <1>3. handler' \in [Handlers -> HandlerSet]
    BY <1>1 DEF Goto, TypeOK
  <1>4. TypeOK'
    BY <1>1, <1>3, Constants DEF TypeOK, EffectsSound
  <1>5. ASSUME NEW g \in Handlers PROVE Sound(handler[g])'
    <2>1. CASE g = h
      BY <2>1, <1>2 DEF Sound, Holds, Served
    <2>2. CASE g # h
      <3>1. Sound(handler[g]) /\ handler[g].token \in Nat /\ row.attempts \in Nat
        BY <1>1, Types
      <3>2. row'.attempts \in Nat
        BY Constants DEF RowSet
      <3>3. (handler[g])' = handler[g]
        BY <2>2, <1>2
      <3>4. Holds(handler[g])' => Holds(handler[g]) /\ row'.checkpoint = row.checkpoint /\ agent' = agent
        BY <2>2
      <3> QED BY <3>1, <3>2, <3>3, <3>4 DEF Sound, Onward, Served, Holds
    <2> QED BY <2>1, <2>2
  <1>6. Distinct'
    <2>1. \A g \in Handlers : handler[g].token \in Nat /\ handler[g].token <= row.attempts
      BY <1>1, Types DEF Sound
    <2>2. row.attempts \in Nat /\ x.token \in Nat
      BY <1>1, Types, Constants DEF HandlerSet
    <2> QED BY <1>1, <1>2, <2>1, <2>2 DEF Distinct
  <1> QED BY <1>4, <1>5, <1>6 DEF Inductive

(* A step that leaves the row, the agent and the replies alone.            *)
LEMMA QuietStep ==
  ASSUME Inductive, NEW h \in Handlers, NEW x \in HandlerSet, Goto(h, x),
         UNCHANGED <<row, replies, agent, worker, bounds>>,
         conv' \in ConvSet, conv.handed => conv'.handed,
         Sound(x)', x.token \in {0, handler[h].token},
         \/ x.checkpoint = handler[h].checkpoint
         \/ x.checkpoint.kind # "RESULT"
         \/ x.checkpoint.result.text = Nothing
  PROVE  Inductive'
  <1>1. TypeOK /\ RowSound /\ EffectsSound /\ OneResult
    BY DEF Inductive
  <1>2. Onward
    BY <1>1, Types DEF Onward
  <1>3. RowSound' /\ EffectsSound'
    BY <1>1 DEF RowSound, EffectsSound, Served
  <1>4. \A g \in Handlers : handler'[g] = IF g = h THEN x ELSE handler[g]
    BY <1>1 DEF Goto, TypeOK
  <1>5. \A r \in Result : IsResult(r)' => IsResult(r)
    BY <1>4 DEF IsResult
  <1>6. OneResult'
    BY <1>1, <1>5, SameResults
  <1>7. row' \in RowSet /\ replies' \subseteq Result /\ agent' \in Nat
    BY <1>1, Types
  <1>8. \A g \in Handlers \ {h} : Holds(handler[g])' =>
          Holds(handler[g]) /\ row'.checkpoint = row.checkpoint /\ agent' = agent
    BY <1>4 DEF Holds
  <1> HIDE DEF Onward
  <1> QED BY <1>2, <1>3, <1>6, <1>7, <1>8, HandlerStep

LEMMA RefuseStep == ASSUME Inductive, NEW h \in Handlers, Refuse(h) PROVE Inductive'
  <1> DEFINE to == [handler[h] EXCEPT !.step = "complete", !.outcome = "REFUSED"]
  <1>1. TypeOK /\ Sound(handler[h])
    BY DEF Inductive
  <1>2. PICK x \in HandlerSet : x = to
    BY <1>1, Types DEF HandlerSet, Terminal
  <1>3. /\ Goto(h, x) /\ x.step = "complete" /\ x.outcome = "REFUSED" /\ x.token = handler[h].token
        /\ x.checkpoint = handler[h].checkpoint
    BY <1>1, <1>2, Types DEF Refuse, ToComplete, HandlerSet
  <1>4. UNCHANGED <<row, conv, replies, agent, worker, bounds>>
    BY DEF Refuse
  <1>5. Sound(x)'
    BY <1>1, <1>3, <1>4 DEF Sound, Holds, Served
  <1> QED BY <1>1, <1>3, <1>4, <1>5, QuietStep, Types

LEMMA ResumeStep == ASSUME Inductive, NEW h \in Handlers, Resume(h) PROVE Inductive'
  <1> DEFINE kind == handler[h].checkpoint.kind
             to == [handler[h] EXCEPT !.step = Resumption(kind),
                      !.outcome = IF kind = "ABANDONED" THEN "HUMAN_REQUIRED" ELSE "PROCESSED"]
  <1>1. TypeOK /\ Sound(handler[h]) /\ handler[h].step = "claimed"
    BY DEF Inductive, Resume, At
  <1>2. kind \in {"none", "STARTED", "RESULT", "ABANDONED"}
    BY <1>1, Types DEF Checkpoint, Kinds, Sound
  <1>3. /\ Resumption(kind) \in {"start", "failclosed", "apply", "complete"}
        /\ Resumption(kind) = "start" <=> kind = "none"
        /\ Resumption(kind) = "apply" <=> kind = "RESULT"
        /\ Resumption(kind) = "complete" <=> kind = "ABANDONED"
    BY <1>2 DEF Resumption
  <1>4. PICK x \in HandlerSet : x = to
    BY <1>1, <1>3, Types DEF HandlerSet, Terminal
  <1>5. /\ Goto(h, x) /\ x.step = Resumption(kind) /\ x.token = handler[h].token
        /\ x.checkpoint = handler[h].checkpoint
        /\ kind = "ABANDONED" => x.outcome = "HUMAN_REQUIRED"
    BY <1>1, <1>4, Types DEF Resume, HandlerSet
  <1>6. UNCHANGED <<row, conv, replies, agent, worker, bounds>>
    BY DEF Resume
  <1>7. Sound(x)'
    BY <1>1, <1>3, <1>5, <1>6 DEF Sound, Holds, Served
  <1> QED BY <1>1, <1>5, <1>6, <1>7, QuietStep, Types

LEMMA IdleStaysSound ==
  ASSUME NEW x \in HandlerSet, x = Idle, row'.attempts \in Nat
  PROVE  Sound(x)' /\ x.token = 0 /\ x.checkpoint.kind = "none"
  <1>1. x.step = "idle" /\ x.token = 0 /\ x.checkpoint.kind = "none" /\ ~x.checkpoint.applied
    BY Marks DEF Idle
  <1> QED BY <1>1 DEF Sound

LEMMA DieStep == ASSUME Inductive, NEW h \in Handlers, Die(h) PROVE Inductive'
  <1>1. TypeOK
    BY DEF Inductive
  <1>2. PICK x \in HandlerSet : x = Idle
    BY <1>1, IdleSound
  <1>3. Goto(h, x) /\ UNCHANGED <<row, conv, replies, agent, worker, bounds>>
    BY <1>2 DEF Die, Done
  <1>4. Sound(x)' /\ x.token = 0 /\ x.checkpoint.kind = "none"
    BY <1>1, <1>2, <1>3, Types, IdleStaysSound
  <1> QED BY <1>1, <1>3, <1>4, QuietStep, Types

LEMMA NoHandoffStep == ASSUME Inductive, NEW h \in Handlers, NoHandoff(h) PROVE Inductive'
  <1> DEFINE to == [handler[h] EXCEPT !.step = "reply"]
  <1>1. TypeOK /\ Sound(handler[h]) /\ handler[h].step = "apply" /\ ~HandoffDue(handler[h].checkpoint)
    BY DEF Inductive, NoHandoff, At
  <1>2. PICK x \in HandlerSet : x = to
    BY <1>1, Types DEF HandlerSet
  <1>3. /\ Goto(h, x) /\ x.step = "reply" /\ x.token = handler[h].token
        /\ x.checkpoint = handler[h].checkpoint
    BY <1>1, <1>2, Types DEF NoHandoff, HandlerSet
  <1>4. UNCHANGED <<row, conv, replies, agent, worker, bounds>>
    BY DEF NoHandoff
  <1>5. Sound(x)'
    BY <1>1, <1>3, <1>4 DEF Sound, Holds, Served, HandoffDue
  <1> QED BY <1>1, <1>3, <1>4, <1>5, QuietStep, Types

LEMMA HumanEnsured ==
  ASSUME TypeOK, EnsureHuman
  PROVE  conv' \in ConvSet /\ conv'.handed
  BY DEF TypeOK, EnsureHuman, ConvSet

LEMMA HandoffStep == ASSUME Inductive, NEW h \in Handlers, Handoff(h) PROVE Inductive'
  <1> DEFINE to == [handler[h] EXCEPT !.step = "handed"]
  <1>1. TypeOK /\ Sound(handler[h]) /\ handler[h].step = "apply"
    BY DEF Inductive, Handoff, At
  <1>2. PICK x \in HandlerSet : x = to
    BY <1>1, Types DEF HandlerSet
  <1>3. /\ Goto(h, x) /\ x.step = "handed" /\ x.token = handler[h].token
        /\ x.checkpoint = handler[h].checkpoint
    BY <1>1, <1>2, Types DEF Handoff, HandlerSet
  <1>4. UNCHANGED <<row, replies, agent, worker, bounds>> /\ conv' \in ConvSet /\ conv'.handed
    BY <1>1, HumanEnsured DEF Handoff
  <1>5. Sound(x)'
    BY <1>1, <1>3, <1>4 DEF Sound, Holds
  <1> QED BY <1>3, <1>4, <1>5, QuietStep

LEMMA FailClosedStep == ASSUME Inductive, NEW h \in Handlers, FailClosed(h) PROVE Inductive'
  <1> DEFINE closed == [NoResult EXCEPT !.handoff = TRUE]
             mark == Mark("RESULT", closed, FALSE)
             to == [handler[h] EXCEPT !.step = "handed", !.outcome = "HUMAN_REQUIRED",
                                      !.checkpoint = mark]
  <1>1. TypeOK /\ Sound(handler[h])
    BY DEF Inductive
  <1>2. closed \in Result /\ closed.text = Nothing /\ closed.handoff
    BY Constants DEF NoResult, Result
  <1> HIDE DEF closed
  <1>3. mark \in Checkpoint /\ mark.kind = "RESULT" /\ mark.result = closed /\ ~mark.applied
    BY <1>2 DEF Kinds, Mark, Checkpoint
  <1> HIDE DEF mark
  <1>4. PICK x \in HandlerSet : x = to
    BY <1>1, <1>3, Types DEF HandlerSet, Terminal
  <1>5. /\ x.step = "handed" /\ x.token = handler[h].token
        /\ x.checkpoint = mark
    BY <1>1, <1>4, Types DEF HandlerSet
  <1>6. Goto(h, x)
    BY <1>4 DEF FailClosed, closed, mark
  <1>7. UNCHANGED <<row, replies, agent, worker, bounds>> /\ conv' \in ConvSet /\ conv'.handed
    BY <1>1, HumanEnsured DEF FailClosed, HandOver
  <1>8. Sound(x)'
    BY <1>1, <1>2, <1>3, <1>5, <1>7 DEF Sound, Holds
  <1>9. x.checkpoint.result.text = Nothing /\ x.token = handler[h].token
    BY <1>2, <1>3, <1>5
  <1> QED BY <1>6, <1>7, <1>8, <1>9, QuietStep

(* A checkpoint is written by the one handler that holds the lease.        *)
LEMMA WriteStep ==
  ASSUME Inductive, NEW h \in Handlers, NEW c \in Checkpoint,
         NEW step \in {"run", "apply", "reply", "complete"},
         Write(h, step, c), UNCHANGED <<conv, replies, agent, worker, bounds>>,
         c.applied => conv.handed,
         step = "run" => c.kind = "STARTED" /\ row.checkpoint.kind = "none",
         step # "run" => c.kind = "RESULT",
         step = "reply" /\ c.result.handoff => conv.handed,
         step = "complete" => handler[h].outcome = "HUMAN_REQUIRED",
         c.kind = "RESULT" =>
           \/ c.result.text = Nothing /\ c.result.handoff
           \/ IsResult(c.result)
           \/ c.result.text # Nothing /\ \A r \in Result : ~IsResult(r)
  PROVE  Inductive'
  <1> DEFINE to == [handler[h] EXCEPT !.step = step, !.checkpoint = c]
  <1>1. TypeOK /\ RowSound /\ EffectsSound /\ OneResult /\ Sound(handler[h]) /\ Holds(handler[h])
    BY DEF Inductive, Write, Holder, Holds
  <1>2. PICK x \in HandlerSet : x = to
    BY <1>1, Types DEF HandlerSet
  <1>3. /\ Goto(h, x) /\ x.step = step /\ x.token = handler[h].token /\ x.checkpoint = c
        /\ x.outcome = handler[h].outcome
    BY <1>1, <1>2, Types DEF Write, HandlerSet
  <1>4. /\ row' \in RowSet /\ row'.checkpoint = c /\ row'.status = row.status
        /\ row'.attempts = row.attempts /\ row'.live = row.live
    BY <1>1, Types DEF Write, RowSet
  <1>5. c.kind \in {"STARTED", "RESULT"}
    BY DEF Checkpoint
  <1>6. c.kind = "RESULT" /\ c.result.text = Nothing => c.result.handoff
    BY <1>1, <1>5 DEF IsResult
  <1>7. row.checkpoint.kind = "none" => agent = 0
    BY <1>1, Types DEF RowSound
  <1>8. RowSound'
    BY <1>1, <1>4, <1>5, <1>6 DEF RowSound, Served
  <1>9. EffectsSound' /\ Onward
    BY <1>1, <1>4, Types DEF EffectsSound, Onward
  <1>10. Sound(x)'
    BY <1>1, <1>3, <1>4, <1>5, <1>6, <1>7 DEF Sound, Holds, Served
  <1>11. \A g \in Handlers : handler'[g] = IF g = h THEN x ELSE handler[g]
    BY <1>1, <1>3 DEF Goto, TypeOK
  <1>12. ASSUME NEW r \in Result, IsResult(r)'
         PROVE  IsResult(r) \/ (c.kind = "RESULT" /\ r = c.result /\ r.text # Nothing)
    BY <1>3, <1>4, <1>11, <1>12 DEF IsResult
  <1>13. OneResult'
    <2>1. c.result \in Result
      BY DEF Checkpoint
    <2>2. CASE c.kind = "STARTED"
      BY <1>1, <1>4, <1>12, <2>2 DEF OneResult
    <2>3. CASE c.kind = "RESULT"
      <3>1. ASSUME NEW q \in Result, NEW r \in Result, IsResult(q)', IsResult(r)' PROVE q = r
        BY <1>1, <1>12, <2>1, <2>3, <3>1 DEF OneResult
      <3>2. row'.checkpoint.kind \notin {"none", "STARTED"}
        BY <1>4, <2>3
      <3> QED BY <3>1, <3>2 DEF OneResult
    <2> QED BY <1>5, <2>2, <2>3
  <1>14. \A g \in Handlers \ {h} : ~Holds(handler[g])'
    BY <1>1, <1>4, <1>11, OneHolder DEF Holds
  <1> HIDE DEF Onward
  <1>15. row' \in RowSet /\ conv' \in ConvSet /\ replies' \subseteq Result /\ agent' \in Nat
    BY <1>1, <1>4, Types
  <1> QED BY <1>3, <1>8, <1>9, <1>10, <1>13, <1>14, <1>15, HandlerStep

LEMMA StartStep == ASSUME Inductive, NEW h \in Handlers, Start(h) PROVE Inductive'
  <1>1. PICK c \in Checkpoint : c = Mark("STARTED", NoResult, FALSE)
    BY Marks DEF Kinds
  <1>2. c.kind = "STARTED" /\ ~c.applied
    BY <1>1 DEF Mark
  <1>3. Write(h, "run", c) /\ UNCHANGED <<conv, replies, agent, worker, bounds>>
    BY <1>1 DEF Start
  <1>4. row.checkpoint.kind = "none"
    BY DEF Inductive, Start, At, Write, Holder, Holds, Sound
  <1> QED BY <1>2, <1>3, <1>4, WriteStep

LEMMA MediaStep == ASSUME Inductive, NEW h \in Handlers, Media(h) PROVE Inductive'
  <1>1. [text |-> 0, handoff |-> TRUE] \in Result
    BY Constants DEF Result
  <1>2. PICK c \in Checkpoint : c = Mark("RESULT", [text |-> 0, handoff |-> TRUE], FALSE)
    BY <1>1 DEF Checkpoint, Kinds, Mark
  <1>3. c.kind = "RESULT" /\ ~c.applied /\ c.result.text # Nothing
    BY <1>2, Constants DEF Mark
  <1>4. Write(h, "apply", c) /\ UNCHANGED <<conv, replies, agent, worker, bounds>>
    BY <1>2 DEF Media
  <1>5. \A r \in Result : ~IsResult(r)
    BY DEF Inductive, OneResult, Media, At, Write, Holder, Holds, Sound
  <1> QED BY <1>3, <1>4, <1>5, WriteStep

LEMMA AgentAnswersStep == ASSUME Inductive, NEW h \in Handlers, AgentAnswers(h) PROVE Inductive'
  <1>1. PICK handoff \in BOOLEAN :
          /\ At(h, "agent") /\ Write(h, "apply", Mark("RESULT", [text |-> agent, handoff |-> handoff], FALSE))
          /\ UNCHANGED <<conv, replies, agent, worker, bounds>>
    BY DEF AgentAnswers
  <1>2. [text |-> agent, handoff |-> handoff] \in Result /\ agent # Nothing
    BY Constants DEF Inductive, TypeOK, Result, Texts
  <1>3. PICK c \in Checkpoint : c = Mark("RESULT", [text |-> agent, handoff |-> handoff], FALSE)
    BY <1>2 DEF Checkpoint, Kinds, Mark
  <1>4. c.kind = "RESULT" /\ ~c.applied /\ c.result.text # Nothing
    BY <1>2, <1>3 DEF Mark
  <1>5. \A r \in Result : ~IsResult(r)
    BY <1>1 DEF Inductive, OneResult, At, Write, Holder, Holds, Sound
  <1>6. Write(h, "apply", c)
    BY <1>1, <1>3
  <1> QED BY <1>1, <1>4, <1>5, <1>6, WriteStep

LEMMA NoteHandoffStep == ASSUME Inductive, NEW h \in Handlers, NoteHandoff(h) PROVE Inductive'
  <1>1. TypeOK /\ Sound(handler[h]) /\ handler[h].step = "handed"
    BY DEF Inductive, NoteHandoff, At
  <1>2. PICK c \in Checkpoint : c = [handler[h].checkpoint EXCEPT !.applied = TRUE]
    BY <1>1, Types DEF Checkpoint
  <1>3. c.kind = "RESULT" /\ c.result = handler[h].checkpoint.result /\ c.result \in Result
    BY <1>1, <1>2, Types DEF Checkpoint, Sound
  <1>4. conv.handed
    BY <1>1 DEF Sound
  <1>5. \/ c.result.text = Nothing /\ c.result.handoff
        \/ IsResult(c.result)
    BY <1>1, <1>3 DEF Sound, IsResult
  <1>6. UNCHANGED <<conv, replies, agent, worker, bounds>>
    BY DEF NoteHandoff
  <1>7. CASE handler[h].outcome = "HUMAN_REQUIRED"
    <2>1. Write(h, "complete", c)
      BY <1>2, <1>7 DEF NoteHandoff
    <2> QED BY <1>3, <1>4, <1>5, <1>6, <1>7, <2>1, WriteStep
  <1>8. CASE handler[h].outcome # "HUMAN_REQUIRED"
    <2>1. Write(h, "reply", c)
      BY <1>2, <1>8 DEF NoteHandoff
    <2> QED BY <1>3, <1>4, <1>5, <1>6, <2>1, WriteStep
  <1> QED BY <1>7, <1>8

LEMMA RunAgentStep == ASSUME Inductive, NEW h \in Handlers, RunAgent(h) PROVE Inductive'
  <1> DEFINE to == [handler[h] EXCEPT !.step = "agent"]
  <1>1. /\ TypeOK /\ RowSound /\ EffectsSound /\ OneResult /\ Sound(handler[h]) /\ Holds(handler[h])
        /\ handler[h].step = "run"
    BY DEF Inductive, RunAgent, At, Holder, Holds
  <1>2. PICK x \in HandlerSet : x = to
    BY <1>1, Types DEF HandlerSet
  <1>3. /\ Goto(h, x) /\ x.step = "agent" /\ x.token = handler[h].token
        /\ x.checkpoint = handler[h].checkpoint
    BY <1>1, <1>2, Types DEF RunAgent, HandlerSet
  <1>4. UNCHANGED <<row, conv, replies, worker, bounds>> /\ agent' = 1
    BY <1>1 DEF RunAgent, Sound
  <1>5. row.checkpoint.kind = "STARTED"
    BY <1>1 DEF Sound
  <1>6. RowSound' /\ EffectsSound' /\ Onward
    BY <1>1, <1>4, <1>5, Types DEF RowSound, EffectsSound, Served, Onward
  <1>7. Sound(x)'
    BY <1>1, <1>3, <1>4, <1>5 DEF Sound, Holds, Served
  <1>8. \A g \in Handlers : handler'[g] = IF g = h THEN x ELSE handler[g]
    BY <1>1, <1>3 DEF Goto, TypeOK
  <1>9. \A r \in Result : IsResult(r)' => IsResult(r)
    BY <1>3, <1>4, <1>8 DEF IsResult
  <1>10. OneResult'
    BY <1>1, <1>4, <1>9, SameResults
  <1>11. \A g \in Handlers \ {h} : ~Holds(handler[g])'
    BY <1>1, <1>4, <1>8, OneHolder DEF Holds
  <1>12. row' \in RowSet /\ conv' \in ConvSet /\ replies' \subseteq Result /\ agent' \in Nat
    BY <1>1, <1>4, Types
  <1> HIDE DEF Onward
  <1> QED BY <1>3, <1>4, <1>6, <1>7, <1>10, <1>11, <1>12, HandlerStep

LEMMA ReplyStep == ASSUME Inductive, NEW h \in Handlers, Reply(h) PROVE Inductive'
  <1> DEFINE to == [handler[h] EXCEPT !.step = "complete", !.outcome = "PROCESSED"]
             result == handler[h].checkpoint.result
  <1>1. /\ TypeOK /\ RowSound /\ EffectsSound /\ OneResult /\ Sound(handler[h])
        /\ handler[h].step = "reply"
    BY DEF Inductive, Reply, At
  <1>2. PICK x \in HandlerSet : x = to
    BY <1>1, Types DEF HandlerSet, Terminal
  <1>3. /\ Goto(h, x) /\ x.step = "complete" /\ x.token = handler[h].token
        /\ x.checkpoint = handler[h].checkpoint /\ x.outcome = "PROCESSED"
    BY <1>1, <1>2, Types DEF Reply, ToComplete, HandlerSet
  <1>4. UNCHANGED <<row, conv, agent, worker, bounds>>
    BY DEF Reply
  <1>5. /\ result.text = Nothing => replies' = replies
        /\ result.text # Nothing => replies' = replies \cup {result}
    BY DEF Reply
  <1>6. result \in Result /\ handler[h].checkpoint.kind = "RESULT"
        /\ (result.handoff => conv.handed) /\ (result.text = Nothing => result.handoff)
    BY <1>1, Types DEF Sound
  <1> HIDE DEF result
  <1>7. Served'
    BY <1>4, <1>5, <1>6 DEF Served
  <1>8. RowSound' /\ EffectsSound' /\ Onward
    BY <1>1, <1>4, <1>5, <1>6, <1>7, Types DEF RowSound, EffectsSound, Onward
  <1>9. Sound(x)'
    BY <1>1, <1>3, <1>4, <1>7 DEF Sound, Holds
  <1>10. \A g \in Handlers : handler'[g] = IF g = h THEN x ELSE handler[g]
    BY <1>1, <1>3 DEF Goto, TypeOK
  <1>11. \A r \in Result : IsResult(r)' => IsResult(r)
    BY <1>3, <1>4, <1>5, <1>6, <1>10 DEF IsResult, result
  <1>12. OneResult'
    BY <1>1, <1>4, <1>11, SameResults
  <1>13. \A g \in Handlers \ {h} : Holds(handler[g])' => Holds(handler[g])
    BY <1>4, <1>10 DEF Holds
  <1>14. row' \in RowSet /\ conv' \in ConvSet /\ replies' \subseteq Result /\ agent' \in Nat
    BY <1>1, <1>4, <1>5, <1>6, Types
  <1> HIDE DEF Onward
  <1> QED BY <1>3, <1>4, <1>8, <1>9, <1>12, <1>13, <1>14, HandlerStep

(* Nobody holds the lease of a row that was given back.                    *)
LEMMA Released ==
  ASSUME Inductive, NEW s, NEW c \in Checkpoint, Release(s, c), s \in {"FAILED"} \cup Terminal,
         UNCHANGED <<conv, replies, agent>>,
         \A k \in Workers : worker'[k] = "handed" => worker[k] = "handed",
         s = "PROCESSED" => Served,
         \/ c = row.checkpoint /\ row.status = "CLAIMED"
         \/ c.kind = "receipt" /\ s \in Terminal /\ ~c.applied
         \/ c.kind = "ABANDONED" /\ ~c.applied
  PROVE  /\ row' \in RowSet /\ row'.attempts = row.attempts /\ Onward
         /\ RowSound' /\ EffectsSound'
         /\ row'.status # "CLAIMED" /\ \A x : ~Holds(x)'
         /\ row.checkpoint.kind \notin {"none", "STARTED"} => row'.checkpoint.kind \notin {"none", "STARTED"}
         /\ row'.checkpoint.kind = "RESULT" => row'.checkpoint = row.checkpoint
  <1>1. TypeOK /\ RowSound /\ EffectsSound
    BY DEF Inductive
  <1>2. /\ row' \in RowSet /\ row'.checkpoint = c /\ row'.status = s
        /\ row'.attempts = row.attempts /\ ~row'.live
    BY <1>1, Types DEF Release, RowSet
  <1>3. s # "CLAIMED"
    BY DEF Terminal
  <1>4. RowSound'
    BY <1>1, <1>2, <1>3 DEF RowSound, Served, Terminal
  <1>5. EffectsSound' /\ Onward
    BY <1>1, <1>2, Types DEF EffectsSound, Onward
  <1> QED BY <1>2, <1>3, <1>4, <1>5 DEF Holds

(* A handler gives the row back and is done.                               *)
LEMMA GivesBack ==
  ASSUME Inductive, NEW h \in Handlers, Done(h), Holder(h), NEW s, NEW c \in Checkpoint, Release(s, c),
         s \in {"FAILED"} \cup Terminal, UNCHANGED <<conv, replies, agent, worker, bounds>>,
         s = "PROCESSED" => Served,
         c = row.checkpoint \/ (c.kind = "receipt" /\ s \in Terminal /\ ~c.applied)
  PROVE  Inductive'
  <1>1. TypeOK /\ RowSound /\ OneResult
    BY DEF Inductive
  <1>2. PICK x \in HandlerSet : x = Idle
    BY <1>1, IdleSound
  <1>3. Goto(h, x)
    BY <1>2 DEF Done
  <1>4. /\ row' \in RowSet /\ row'.attempts = row.attempts /\ Onward
        /\ RowSound' /\ EffectsSound' /\ \A g \in Handlers : ~Holds(handler[g])'
        /\ row.checkpoint.kind \notin {"none", "STARTED"} => row'.checkpoint.kind \notin {"none", "STARTED"}
        /\ row'.checkpoint.kind = "RESULT" => row'.checkpoint = row.checkpoint
    <2>1. row.status = "CLAIMED"
      BY DEF Holder
    <2> HIDE DEF Onward
    <2>2. /\ row' \in RowSet /\ row'.attempts = row.attempts /\ Onward
          /\ RowSound' /\ EffectsSound' /\ row'.status # "CLAIMED"
          /\ row.checkpoint.kind \notin {"none", "STARTED"} => row'.checkpoint.kind \notin {"none", "STARTED"}
          /\ row'.checkpoint.kind = "RESULT" => row'.checkpoint = row.checkpoint
      BY <2>1, Released
    <2> QED BY <2>2 DEF Holds
  <1>5. Sound(x)' /\ x.token = 0 /\ x.checkpoint.kind = "none"
    BY <1>1, <1>2, <1>4, Types, IdleStaysSound
  <1>6. \A g \in Handlers : handler'[g] = IF g = h THEN x ELSE handler[g]
    BY <1>1, <1>3 DEF Goto, TypeOK
  <1>7. \A r \in Result : IsResult(r)' => IsResult(r)
    BY <1>4, <1>5, <1>6 DEF IsResult
  <1>8. OneResult'
    BY <1>1, <1>4, <1>7, SameResults
  <1>9. conv' \in ConvSet /\ replies' \subseteq Result /\ agent' \in Nat
    BY <1>1, Types
  <1> HIDE DEF Onward
  <1> QED BY <1>3, <1>4, <1>5, <1>8, <1>9, HandlerStep

LEMMA CompleteStep == ASSUME Inductive, NEW h \in Handlers, Complete(h) PROVE Inductive'
  <1>1. /\ TypeOK /\ Sound(handler[h]) /\ handler[h].step = "complete" /\ Done(h)
        /\ UNCHANGED <<conv, replies, agent, worker, bounds>>
    BY DEF Inductive, Complete, At
  <1>2. CASE Holder(h)
    <2>1. PICK s \in Terminal : s = handler[h].outcome
      BY <1>1, Types DEF HandlerSet, Sound
    <2>2. PICK c \in Checkpoint : c = Receipt
      BY Marks
    <2>3. Release(s, c)
      BY <1>2, <2>1, <2>2 DEF Complete
    <2>4. c.kind = "receipt" /\ ~c.applied /\ (s = "PROCESSED" => Served)
      BY <1>1, <2>1, <2>2, Marks DEF Sound
    <2> QED BY <1>1, <1>2, <2>3, <2>4, GivesBack
  <1>3. CASE ~Holder(h)
    <2>1. Die(h)
      BY <1>1, <1>3 DEF Complete, Die
    <2> QED BY <2>1, DieStep
  <1> QED BY <1>2, <1>3

LEMMA FailStep == ASSUME Inductive, NEW h \in Handlers, Fail(h) PROVE Inductive'
  <1>1. TypeOK /\ Done(h) /\ UNCHANGED <<conv, replies, agent, worker, bounds>>
    BY DEF Inductive, Fail
  <1>2. CASE Holder(h)
    <2>1. PICK c \in Checkpoint : c = row.checkpoint
      BY <1>1, Types
    <2>2. Release("FAILED", c)
      BY <1>2, <2>1 DEF Fail
    <2> QED BY <1>1, <1>2, <2>1, <2>2, GivesBack
  <1>3. CASE ~Holder(h)
    <2>1. Die(h)
      BY <1>1, <1>3 DEF Fail, Die
    <2> QED BY <2>1, DieStep
  <1> QED BY <1>2, <1>3

----------------------------------------------------------------------------
(* Steps of everybody else.                                                *)

LEMMA OtherStep ==
  ASSUME Inductive, UNCHANGED <<handler, replies, agent>>,
         row' \in RowSet, conv' \in ConvSet, conv.handed => conv'.handed,
         worker' \in [Workers -> {"idle", "picked", "handed"}],
         bounds' \in [moves : 0..MaxMoves, deaths : 0..MaxDeaths],
         row'.attempts = row.attempts, RowSound', EffectsSound',
         row'.checkpoint = row.checkpoint \/ (row'.status # "CLAIMED" /\ row'.checkpoint.kind \in {"receipt", "ABANDONED"}),
         row'.status = "CLAIMED" /\ row'.live => row.status = "CLAIMED" /\ row.live
  PROVE  Inductive'
  <1>1. TypeOK /\ Distinct /\ OneResult /\ \A g \in Handlers : Sound(handler[g])
    BY DEF Inductive
  <1>2. TypeOK' /\ Distinct'
    BY <1>1 DEF TypeOK, Distinct
  <1>3. Onward
    BY <1>1, Types DEF Onward
  <1>4. ASSUME NEW g \in Handlers PROVE Sound(handler[g])'
    <2>1. PICK x \in HandlerSet : x = handler[g]
      BY <1>1, Types
    <2>2. Sound(x) /\ x.token \in Nat /\ row.attempts \in Nat /\ row'.attempts \in Nat
      BY <1>1, <2>1, Types
    <2>3. Holds(x)' => Holds(x) /\ row'.checkpoint = row.checkpoint /\ agent' = agent
      BY DEF Holds
    <2>4. Sound(x)'
      BY <1>3, <2>2, <2>3, StaysSound
    <2> QED BY <2>1, <2>4
  <1>5. \A r \in Result : IsResult(r)' => IsResult(r)
    BY DEF IsResult
  <1>6. OneResult'
    BY <1>1, <1>5, SameResults
  <1> QED BY <1>2, <1>4, <1>6 DEF Inductive

LEMMA LapseStep == ASSUME Inductive, Lapse PROVE Inductive'
  <1>1. TypeOK /\ RowSound /\ EffectsSound
    BY DEF Inductive
  <1>2. /\ row' \in RowSet /\ ~row'.live /\ row'.status = row.status /\ row'.attempts = row.attempts
        /\ row'.checkpoint = row.checkpoint /\ UNCHANGED <<conv, replies, agent, handler, worker, bounds>>
    BY <1>1, Types DEF Lapse, RowSet
  <1>3. RowSound' /\ EffectsSound'
    BY <1>1, <1>2 DEF RowSound, EffectsSound, Served
  <1> QED BY <1>1, <1>2, <1>3, OtherStep DEF TypeOK

LEMMA ReleasedByOther ==
  ASSUME Inductive, NEW s \in {"FAILED"} \cup Terminal, NEW c \in Checkpoint, Release(s, c),
         UNCHANGED <<conv, replies, agent, handler, bounds>>,
         worker' \in [Workers -> {"idle", "picked", "handed"}],
         \A k \in Workers : worker'[k] = "handed" => worker[k] = "handed",
         s # "PROCESSED", ~c.applied,
         (c.kind = "receipt" /\ s \in Terminal) \/ c.kind = "ABANDONED"
  PROVE  Inductive'
  <1>1. TypeOK
    BY DEF Inductive
  <1>2. row' \in RowSet /\ row'.attempts = row.attempts /\ RowSound' /\ EffectsSound' /\ row'.status # "CLAIMED"
    BY Released
  <1>3. row'.checkpoint = c
    BY <1>1, Types DEF Release, RowSet
  <1> QED BY <1>1, <1>2, <1>3, OtherStep DEF TypeOK

LEMMA RecoverStep == ASSUME Inductive, NEW k \in Workers, Recover(k) PROVE Inductive'
  <1>1. TypeOK /\ RowSound /\ EffectsSound
    BY DEF Inductive
  <1>2. /\ worker' \in [Workers -> {"idle", "picked", "handed"}]
        /\ \A w \in Workers : worker'[w] = "handed" => worker[w] = "handed"
        /\ UNCHANGED <<conv, replies, agent, handler, bounds>>
    BY <1>1 DEF TypeOK, Recover, Step
  <1>3. CASE Lapsed
    <2>1. PICK c \in Checkpoint : c = Mark("ABANDONED", NoResult, FALSE)
      BY Marks DEF Kinds
    <2>2. c.kind = "ABANDONED" /\ ~c.applied
      BY <2>1 DEF Mark
    <2>3. Release("FAILED", c)
      BY <1>3, <2>1 DEF Recover
    <2> QED BY <1>2, <2>2, <2>3, ReleasedByOther
  <1>4. CASE ~Lapsed
    <2>1. UNCHANGED row
      BY <1>4 DEF Recover
    <2>2. RowSound' /\ EffectsSound'
      BY <1>1, <1>2, <2>1 DEF RowSound, EffectsSound, Served
    <2> QED BY <1>1, <1>2, <2>1, <2>2, OtherStep DEF TypeOK
  <1> QED BY <1>3, <1>4

LEMMA RecoverHandoffStep == ASSUME Inductive, NEW k \in Workers, RecoverHandoff(k) PROVE Inductive'
  <1>1. TypeOK /\ RowSound /\ EffectsSound
    BY DEF Inductive
  <1>2. /\ worker' \in [Workers -> {"idle", "picked", "handed"}]
        /\ UNCHANGED <<row, replies, agent, handler, bounds>>
        /\ conv' \in ConvSet /\ conv'.handed
    BY <1>1 DEF TypeOK, RecoverHandoff, Step, ConvSet
  <1>3. RowSound' /\ EffectsSound'
    BY <1>1, <1>2 DEF RowSound, EffectsSound, Served
  <1> QED BY <1>1, <1>2, <1>3, OtherStep DEF TypeOK

LEMMA RecoverDoneStep == ASSUME Inductive, NEW k \in Workers, RecoverDone(k) PROVE Inductive'
  <1>1. TypeOK /\ RowSound /\ EffectsSound /\ conv.handed
    BY DEF Inductive, RecoverDone, Step, EffectsSound
  <1>2. /\ worker' \in [Workers -> {"idle", "picked", "handed"}]
        /\ \A w \in Workers : worker'[w] = "handed" => worker[w] = "handed"
        /\ UNCHANGED <<conv, replies, agent, handler, bounds>>
    BY <1>1 DEF TypeOK, RecoverDone, Step
  <1>3. CASE row.status = "FAILED" /\ row.checkpoint.kind = "ABANDONED"
    <2>1. row' = [row EXCEPT !.checkpoint.applied = TRUE]
      BY <1>3 DEF RecoverDone
    <2>2. /\ row' \in RowSet /\ row'.status = "FAILED" /\ row'.attempts = row.attempts /\ row'.live = row.live
          /\ row'.checkpoint.kind = "ABANDONED"
      BY <1>1, <1>3, <2>1, Types DEF RowSet, Checkpoint
    <2>3. RowSound' /\ EffectsSound'
      BY <1>1, <1>2, <1>3, <2>2 DEF RowSound, EffectsSound, Served
    <2> QED BY <1>1, <1>2, <2>2, <2>3, OtherStep DEF TypeOK
  <1>4. CASE ~(row.status = "FAILED" /\ row.checkpoint.kind = "ABANDONED")
    <2>1. UNCHANGED row
      BY <1>4 DEF RecoverDone
    <2>2. RowSound' /\ EffectsSound'
      BY <1>1, <1>2, <2>1 DEF RowSound, EffectsSound, Served
    <2> QED BY <1>1, <1>2, <2>1, <2>2, OtherStep DEF TypeOK
  <1> QED BY <1>3, <1>4

LEMMA RecoverFailsStep == ASSUME Inductive, NEW k \in Workers, RecoverFails(k) PROVE Inductive'
  <1>1. TypeOK /\ RowSound /\ EffectsSound
    BY DEF Inductive
  <1>2. /\ worker' \in [Workers -> {"idle", "picked", "handed"}]
        /\ \A w \in Workers : worker'[w] = "handed" => worker[w] = "handed"
        /\ UNCHANGED <<row, conv, replies, agent, handler>>
    BY <1>1 DEF TypeOK, RecoverFails
  <1>3. bounds' \in [moves : 0..MaxMoves, deaths : 0..MaxDeaths]
    BY <1>1, Constants DEF TypeOK, RecoverFails
  <1>4. RowSound' /\ EffectsSound'
    BY <1>1, <1>2 DEF RowSound, EffectsSound, Served
  <1> QED BY <1>1, <1>2, <1>3, <1>4, OtherStep DEF TypeOK

LEMMA OperateStep == ASSUME Inductive, Operate PROVE Inductive'
  <1>1. TypeOK /\ RowSound /\ EffectsSound
    BY DEF Inductive
  <1>2. UNCHANGED <<row, replies, agent, handler, worker>> /\ conv' \in ConvSet /\ conv'.handed = conv.handed
    BY <1>1 DEF Operate, TypeOK, ConvSet
  <1>3. bounds' \in [moves : 0..MaxMoves, deaths : 0..MaxDeaths]
    BY <1>1, Constants DEF TypeOK, Operate
  <1>4. RowSound' /\ EffectsSound'
    BY <1>1, <1>2 DEF RowSound, EffectsSound, Served
  <1> QED BY <1>1, <1>2, <1>3, <1>4, OtherStep DEF TypeOK

LEMMA ClaimStep == ASSUME Inductive, NEW h \in Handlers, Claim(h) PROVE Inductive'
  <1>1. /\ TypeOK /\ RowSound /\ EffectsSound /\ OneResult /\ Claimable
        /\ UNCHANGED <<conv, replies, agent, worker, bounds>>
    BY DEF Inductive, Claim
  <1>2. row.status \notin Terminal /\ row.checkpoint.kind # "receipt" /\ ~(row.status = "CLAIMED" /\ row.live)
    BY <1>1 DEF Claimable, Lapsed, Terminal, RowSound
  <1>3. CASE AttemptsLeft
    <2> DEFINE to == [Idle EXCEPT !.step = "claimed", !.token = row.attempts + 1, !.checkpoint = row.checkpoint]
    <2>1. row.attempts + 1 \in 0..MaxAttempts /\ row.attempts \in Nat
      BY <1>1, <1>3, Types, Constants DEF AttemptsLeft
    <2>2. PICK x \in HandlerSet : x = to
      BY <1>1, <2>1, Types, IdleSound DEF HandlerSet
    <2>3. /\ Goto(h, x) /\ x.step = "claimed" /\ x.token = row.attempts + 1 /\ x.checkpoint = row.checkpoint
      BY <1>1, <1>3, <2>2, Types, IdleSound DEF Claim, Idle
    <2>4. /\ row' \in RowSet /\ row'.status = "CLAIMED" /\ row'.attempts = row.attempts + 1
          /\ row'.checkpoint = row.checkpoint /\ row'.live
      BY <1>1, <1>3, <2>1, Types DEF Claim, RowSet
    <2>5. RowSound' /\ EffectsSound' /\ Onward
      BY <1>1, <1>2, <2>1, <2>4 DEF RowSound, EffectsSound, Served, Onward
    <2>6. Sound(x)'
      BY <1>1, <1>2, <2>1, <2>3, <2>4 DEF Sound, RowSound
    <2>7. \A g \in Handlers : handler'[g] = IF g = h THEN x ELSE handler[g]
      BY <1>1, <2>3 DEF Goto, TypeOK
    <2>8. \A r \in Result : IsResult(r)' => IsResult(r)
      BY <1>1, <2>3, <2>4, <2>7 DEF IsResult
    <2>9. OneResult'
      BY <1>1, <2>4, <2>8, SameResults
    <2>10. \A g \in Handlers \ {h} : ~Holds(handler[g])'
      <3>1. \A g \in Handlers : handler[g].token \in Nat /\ handler[g].token <= row.attempts
        BY <1>1, Types DEF Inductive, Sound
      <3> QED BY <2>1, <2>4, <2>7, <3>1 DEF Holds
    <2>11. conv' \in ConvSet /\ replies' \subseteq Result /\ agent' \in Nat /\ x.token > row.attempts
      BY <1>1, <2>1, <2>3, Types
    <2> HIDE DEF Onward
    <2> QED BY <1>1, <2>3, <2>4, <2>5, <2>6, <2>9, <2>10, <2>11, HandlerStep
  <1>4. CASE ~AttemptsLeft
    <2>1. PICK c \in Checkpoint : c = Receipt
      BY Marks
    <2>2. Release("ATTEMPTS_EXHAUSTED", c) /\ UNCHANGED handler /\ c.kind = "receipt" /\ ~c.applied
      BY <1>4, <2>1, Marks DEF Claim
    <2> QED BY <1>1, <2>2, ReleasedByOther DEF Terminal, TypeOK
  <1> QED BY <1>3, <1>4

LEMMA NextInductive == Inductive /\ [Next]_vars => Inductive'
  <1> SUFFICES ASSUME Inductive, [Next]_vars PROVE Inductive'
    OBVIOUS
  <1>1. CASE UNCHANGED vars
    <2>1. UNCHANGED <<row, conv, replies, agent, handler, worker, bounds>>
      BY <1>1 DEF vars
    <2>2. RowSound' /\ EffectsSound'
      BY <2>1 DEF Inductive, RowSound, EffectsSound, Served
    <2> QED BY <2>1, <2>2, OtherStep DEF Inductive, TypeOK
  <1>2. ASSUME NEW h \in Handlers,
               \/ Claim(h) \/ Refuse(h) \/ Resume(h) \/ Media(h) \/ Start(h) \/ RunAgent(h)
               \/ AgentAnswers(h) \/ Handoff(h) \/ NoteHandoff(h) \/ NoHandoff(h) \/ Reply(h)
               \/ FailClosed(h) \/ Complete(h) \/ Fail(h) \/ Die(h)
        PROVE  Inductive'
    BY <1>2, ClaimStep, RefuseStep, ResumeStep, MediaStep, StartStep, RunAgentStep, AgentAnswersStep,
       HandoffStep, NoteHandoffStep, NoHandoffStep, ReplyStep, FailClosedStep, CompleteStep, FailStep,
       DieStep
  <1>3. ASSUME NEW k \in Workers, Recover(k) \/ RecoverHandoff(k) \/ RecoverDone(k) \/ RecoverFails(k)
        PROVE  Inductive'
    BY <1>3, RecoverStep, RecoverHandoffStep, RecoverDoneStep, RecoverFailsStep
  <1> QED BY <1>1, <1>2, <1>3, LapseStep, OperateStep DEF Next

----------------------------------------------------------------------------
(* The invariant holds in every reachable state.                           *)
THEOREM InductiveInvariant == Spec => []Inductive
  BY InitInductive, NextInductive, PTL DEF Spec

(* Types: the attempts stay within their bound, an agent that answered     *)
(* answered with one of the texts, a handler reports a final status.       *)
THEOREM TypeCorrect == Spec => []TypeOK
  <1>1. Inductive => TypeOK
    BY DEF Inductive
  <1> QED BY <1>1, InductiveInvariant, PTL

(* The agent runs once for any number of deliveries.                       *)
THEOREM AgentRunsOnce == Spec => []AgentOnce
  <1>1. Inductive => AgentOnce
    BY DEF Inductive, EffectsSound, AgentOnce
  <1> QED BY <1>1, InductiveInvariant, PTL

(* All replies to a message are one reply.                                 *)
THEOREM AnsweredOnce == Spec => []OneReply
  <1>1. ASSUME Inductive PROVE OneReply
    <2>1. \A q, r \in replies : q = r
      BY <1>1, Types DEF Inductive, EffectsSound, OneResult, IsResult
    <2>2. CASE replies = {}
      BY <2>2, FS_EmptySet DEF OneReply
    <2>3. CASE replies # {}
      <3>1. PICK r : replies = {r}
        BY <2>1, <2>3
      <3>2. Cardinality({r}) = 1
        BY FS_Singleton, Zenon
      <3>3. Cardinality(replies) = 1
        BY <3>1, <3>2
      <3> QED BY <3>3 DEF OneReply
    <2> QED BY <2>2, <2>3
  <1> QED BY <1>1, InductiveInvariant, PTL

(* Who asked for a human is answered after the handoff.                    *)
THEOREM HandoffComesFirst == Spec => []HandedBeforeReply
  <1>1. Inductive => HandedBeforeReply
    BY DEF Inductive, EffectsSound, HandedBeforeReply
  <1> QED BY <1>1, InductiveInvariant, PTL

(* Processed is answered or handed over.                                   *)
THEOREM ProcessedIsServed == Spec => []ProcessedMeansServed
  <1>1. Inductive => ProcessedMeansServed
    BY DEF Inductive, RowSound, Served, ProcessedMeansServed
  <1> QED BY <1>1, InductiveInvariant, PTL

(* No step changes a settled row: each writes under a condition that a     *)
(* settled row does not meet.                                              *)
THEOREM SettledRowsStay == Spec => SettledStays
  <1>1. ASSUME Inductive, [Next]_vars, row.status \in Terminal PROVE row' = row
    <2>1. row.status \notin {"ABSENT", "CLAIMED", "FAILED"} /\ ~row.live
      BY <1>1 DEF Terminal, Inductive, RowSound
    <2>2. ~Claimable /\ ~Lapsed /\ ~Recoverable /\ \A h \in Handlers : ~Holder(h)
      BY <2>1 DEF Claimable, Lapsed, Recoverable, Abandoned, Holder
    <2>3. ASSUME NEW h \in Handlers,
                 \/ Claim(h) \/ Refuse(h) \/ Resume(h) \/ Media(h) \/ Start(h) \/ RunAgent(h)
                 \/ AgentAnswers(h) \/ Handoff(h) \/ NoteHandoff(h) \/ NoHandoff(h) \/ Reply(h)
                 \/ FailClosed(h) \/ Complete(h) \/ Fail(h) \/ Die(h)
          PROVE  row' = row
      BY <2>2, <2>3 DEF Claim, Refuse, Resume, Media, Start, RunAgent, AgentAnswers, Handoff, NoteHandoff,
         NoHandoff, Reply, FailClosed, Complete, Fail, Die, Write
    <2>4. ASSUME NEW k \in Workers, Recover(k) \/ RecoverHandoff(k) \/ RecoverDone(k) \/ RecoverFails(k)
          PROVE  row' = row
      BY <2>1, <2>2, <2>4 DEF Recover, RecoverHandoff, RecoverDone, RecoverFails
    <2>5. Lapse \/ Operate \/ UNCHANGED vars => row' = row
      BY <2>1 DEF Lapse, Operate, vars
    <2> QED BY <1>1, <2>3, <2>4, <2>5 DEF Next
  <1>2. Inductive /\ [Next]_vars => [row.status \in Terminal => row' = row]_vars
    BY <1>1
  <1> QED BY <1>2, InductiveInvariant, PTL DEF Spec, SettledStays

----------------------------------------------------------------------------
(* The refinement of OnceOnly.  It rests on two more facts: a message that *)
(* nobody has taken up is known to nobody as anything else, and who holds  *)
(* the lease and is past the agent has a row that says so.                 *)
TakenUp == row.checkpoint.kind = "none" =>
  /\ \A h \in Handlers : handler[h].checkpoint.kind = "none" /\ handler[h].step # "failclosed"
  /\ \A k \in Workers : worker[k] = "idle"

OnCourse(x) ==
  /\ Holds(x)
  /\ \/ x.step \in {"failclosed", "apply", "handed", "reply"}
     \/ x.step = "complete" /\ x.outcome = "PROCESSED"
  => row.checkpoint.kind \in {"STARTED", "RESULT"}

Following == TakenUp /\ \A h \in Handlers : OnCourse(handler[h])
Follows   == Following' /\ [Promise!Next]_<<Phase, Served>>

(* Nobody is served before the message was taken up.                       *)
LEMMA ServedOnly ==
  ASSUME UNCHANGED row, Served => Served', row.checkpoint.kind = "none" => (Served' => Served)
  PROVE  [Promise!Next]_<<Phase, Served>>
  <1>1. Phase' = Phase /\ (row.checkpoint.kind # "none" => Phase # "waiting")
    BY DEF Phase
  <1>2. CASE Served' = Served
    BY <1>1, <1>2
  <1>3. CASE ~Served /\ Served' /\ row.checkpoint.kind # "none"
    BY <1>1, <1>3 DEF Promise!Next, Promise!Run
  <1>4. Served \in BOOLEAN /\ Served' \in BOOLEAN
    BY DEF Served
  <1> QED BY <1>2, <1>3, <1>4

LEMMA PhaseOnly ==
  ASSUME UNCHANGED <<conv, replies>>,
         \/ Phase' = Phase
         \/ Phase = "waiting" /\ Phase' = "started"
         \/ Phase = "started" /\ Phase' = "succeeded" /\ Served
         \/ Phase \in {"waiting", "started"} /\ Phase' = "abandoned"
  PROVE  [Promise!Next]_<<Phase, Served>>
  <1>1. Served' = Served
    BY DEF Served
  <1> QED BY <1>1 DEF Promise!Next, Promise!Start, Promise!Succeed, Promise!Abandon

(* A step of handler h, which becomes x, that leaves the row alone.        *)
LEMMA QuietFollows ==
  ASSUME Inductive, Following, NEW h \in Handlers, NEW x \in HandlerSet, Goto(h, x),
         UNCHANGED <<row, worker>>, OnCourse(x),
         row.checkpoint.kind = "none" => x.checkpoint.kind = "none" /\ x.step # "failclosed",
         Served => Served', row.checkpoint.kind = "none" => (Served' => Served)
  PROVE  Follows
  <1>1. \A g \in Handlers : handler'[g] = IF g = h THEN x ELSE handler[g]
    BY DEF Goto, Inductive, TypeOK
  <1>2. TakenUp'
    BY <1>1 DEF Following, TakenUp
  <1>3. \A g \in Handlers : OnCourse(handler[g])'
    BY <1>1 DEF Following, OnCourse, Holds
  <1> QED BY <1>2, <1>3, ServedOnly DEF Follows, Following

(* A step of handler h after which nobody but perhaps h holds the lease.   *)
LEMMA WriterFollows ==
  ASSUME Inductive, Following, NEW h \in Handlers, NEW x \in HandlerSet, Goto(h, x),
         UNCHANGED worker, \A g \in Handlers \ {h} : ~Holds(handler[g])', OnCourse(x)',
         row'.checkpoint.kind = "none" =>
           row.checkpoint.kind = "none" /\ x.checkpoint.kind = "none" /\ x.step # "failclosed"
  PROVE  Following'
  <1>1. \A g \in Handlers : handler'[g] = IF g = h THEN x ELSE handler[g]
    BY DEF Goto, Inductive, TypeOK
  <1>2. TakenUp'
    BY <1>1 DEF Following, TakenUp
  <1>3. \A g \in Handlers : OnCourse(handler[g])'
    BY <1>1 DEF OnCourse, Holds
  <1> QED BY <1>2, <1>3 DEF Following

LEMMA QuietStepsFollow ==
  ASSUME Inductive, Following, NEW h \in Handlers,
         Refuse(h) \/ Resume(h) \/ RunAgent(h) \/ NoHandoff(h) \/ Handoff(h) \/ Reply(h) \/ Die(h)
  PROVE  Follows
  <1> DEFINE o == handler[h]
  <1>1. /\ TypeOK /\ Sound(o) /\ OnCourse(o) /\ UNCHANGED <<row, worker>>
        /\ row.checkpoint.kind = "none" => o.checkpoint.kind = "none" /\ o.step # "failclosed"
    BY DEF Inductive, Following, TakenUp, Refuse, Resume, RunAgent, NoHandoff, Handoff, Reply, Die
  <1>2. CASE Refuse(h) \/ Resume(h) \/ RunAgent(h) \/ NoHandoff(h) \/ Die(h)
    <2>1. Served' = Served
      BY <1>2 DEF Refuse, Resume, RunAgent, NoHandoff, Die, Served
    <2>2. CASE Die(h)
      <3>1. PICK x \in HandlerSet : x = Idle
        BY <1>1, IdleSound
      <3>2. Goto(h, x) /\ x.step = "idle" /\ x.checkpoint.kind = "none"
        BY <1>1, <2>2, <3>1, IdleSound DEF Die, Done, Idle
      <3> QED BY <1>1, <2>1, <3>2, QuietFollows DEF OnCourse
    <2>3. CASE Refuse(h) \/ RunAgent(h) \/ NoHandoff(h)
      <3>1. PICK x \in HandlerSet :
              /\ Goto(h, x) /\ x.token = o.token /\ x.checkpoint = o.checkpoint
              /\ \/ x.step = "complete" /\ x.outcome = "REFUSED"
                 \/ x.step = "agent"
                 \/ x.step = "reply" /\ o.step = "apply"
        <4>1. CASE Refuse(h)
          <5> DEFINE to == [o EXCEPT !.step = "complete", !.outcome = "REFUSED"]
          <5>1. to \in HandlerSet /\ to.step = "complete" /\ to.outcome = "REFUSED"
                /\ to.token = o.token /\ to.checkpoint = o.checkpoint
            BY <1>1, Types DEF HandlerSet, Terminal
          <5>2. Goto(h, to)
            BY <4>1 DEF Refuse, ToComplete
          <5> HIDE DEF to
          <5> QED BY <5>1, <5>2
        <4>2. CASE RunAgent(h)
          <5> DEFINE to == [o EXCEPT !.step = "agent"]
          <5>1. to \in HandlerSet /\ to.step = "agent" /\ to.token = o.token
                /\ to.checkpoint = o.checkpoint
            BY <1>1, Types DEF HandlerSet
          <5>2. Goto(h, to)
            BY <4>2 DEF RunAgent
          <5> HIDE DEF to
          <5> QED BY <5>1, <5>2
        <4>3. CASE NoHandoff(h)
          <5> DEFINE to == [o EXCEPT !.step = "reply"]
          <5>1. to \in HandlerSet /\ to.step = "reply" /\ to.token = o.token
                /\ to.checkpoint = o.checkpoint
            BY <1>1, Types DEF HandlerSet
          <5>2. Goto(h, to) /\ o.step = "apply"
            BY <4>3 DEF NoHandoff, At
          <5> HIDE DEF to
          <5> QED BY <5>1, <5>2
        <4> QED BY <2>3, <4>1, <4>2, <4>3
      <3>2. OnCourse(x)
        BY <1>1, <3>1 DEF OnCourse, Holds
      <3>3. row.checkpoint.kind = "none" => x.checkpoint.kind = "none" /\ x.step # "failclosed"
        BY <1>1, <3>1
      <3> HIDE DEF o
      <3> QED BY <1>1, <2>1, <3>1, <3>2, <3>3, QuietFollows
    <2>4. CASE Resume(h)
      <3> DEFINE kind == o.checkpoint.kind
                 to == [o EXCEPT !.step = Resumption(kind),
                          !.outcome = IF kind = "ABANDONED" THEN "HUMAN_REQUIRED" ELSE "PROCESSED"]
      <3>1. kind \in {"none", "STARTED", "RESULT", "ABANDONED"} /\ o.step = "claimed"
        BY <1>1, <2>4, Types DEF Checkpoint, Kinds, Sound, Resume, At
      <3>2. /\ Resumption(kind) \in {"start", "failclosed", "apply", "complete"}
            /\ Resumption(kind) = "failclosed" <=> kind = "STARTED"
            /\ Resumption(kind) = "apply" <=> kind = "RESULT"
            /\ Resumption(kind) = "complete" <=> kind = "ABANDONED"
        BY <3>1 DEF Resumption
      <3>3. PICK x \in HandlerSet : x = to
        BY <1>1, <3>2, Types DEF HandlerSet, Terminal
      <3>4. /\ Goto(h, x) /\ x.step = Resumption(kind) /\ x.token = o.token
            /\ x.checkpoint = o.checkpoint /\ (kind = "ABANDONED" => x.outcome = "HUMAN_REQUIRED")
        BY <1>1, <2>4, <3>3, Types DEF Resume, HandlerSet
      <3>5. Holds(x) => row.checkpoint = o.checkpoint
        BY <1>1, <3>1, <3>4 DEF Sound, Holds
      <3>6. OnCourse(x)
        BY <3>1, <3>2, <3>4, <3>5 DEF OnCourse
      <3>7. row.checkpoint.kind = "none" => x.checkpoint.kind = "none" /\ x.step # "failclosed"
        BY <1>1, <3>2, <3>4
      <3> QED BY <1>1, <2>1, <3>4, <3>6, <3>7, QuietFollows
    <2> QED BY <1>2, <2>2, <2>3, <2>4
  <1>3. CASE Handoff(h) \/ Reply(h)
    <2>1. o.step \in {"apply", "reply"} /\ row.checkpoint.kind # "none"
      BY <1>1, <1>3 DEF Handoff, Reply, At, Sound
    <2>2. Served => Served'
      <3>1. conv.handed => conv'.handed
        BY <1>1, <1>3, HumanEnsured DEF Handoff, Reply
      <3>2. replies \subseteq replies'
        BY <1>3 DEF Handoff, Reply
      <3> QED BY <3>1, <3>2 DEF Served
    <2>3. PICK x \in HandlerSet : Goto(h, x) /\ x.token = o.token
      <3>1. CASE Handoff(h)
        <4> DEFINE to == [o EXCEPT !.step = "handed"]
        <4>1. to \in HandlerSet /\ to.token = o.token /\ Goto(h, to)
          BY <1>1, <3>1, Types DEF HandlerSet, Handoff
        <4> HIDE DEF to
        <4> QED BY <4>1
      <3>2. CASE Reply(h)
        <4> DEFINE to == [o EXCEPT !.step = "complete", !.outcome = "PROCESSED"]
        <4>1. to \in HandlerSet /\ to.token = o.token /\ Goto(h, to)
          BY <1>1, <3>2, Types DEF HandlerSet, Reply, ToComplete, Terminal
        <4> HIDE DEF to
        <4> QED BY <4>1
      <3> QED BY <1>3, <3>1, <3>2
    <2>4. OnCourse(x)
      BY <1>1, <2>1, <2>3 DEF OnCourse, Holds
    <2> HIDE DEF o
    <2> QED BY <1>1, <2>1, <2>2, <2>3, <2>4, QuietFollows
  <1> QED BY <1>2, <1>3

(* Nobody knows what the agent did: the conversation is handed over.       *)
LEMMA FailClosedFollows ==
  ASSUME Inductive, Following, NEW h \in Handlers, FailClosed(h)
  PROVE  Follows
  <1> DEFINE o == handler[h]
             closed == [NoResult EXCEPT !.handoff = TRUE]
             mark == Mark("RESULT", closed, FALSE)
             to == [o EXCEPT !.step = "handed", !.outcome = "HUMAN_REQUIRED", !.checkpoint = mark]
  <1>1. /\ TypeOK /\ OnCourse(o) /\ UNCHANGED <<row, worker>> /\ o.step = "failclosed"
        /\ row.checkpoint.kind # "none"
    BY DEF Inductive, Following, TakenUp, FailClosed, At
  <1>2. mark \in Checkpoint
    BY Constants DEF NoResult, Result, Kinds, Mark, Checkpoint
  <1>3. Goto(h, to)
    BY DEF FailClosed
  <1> HIDE DEF mark
  <1>4. to \in HandlerSet /\ to.token = o.token
    BY <1>1, <1>2, Types DEF HandlerSet, Terminal
  <1>5. PICK x \in HandlerSet : Goto(h, x) /\ x.token = o.token
    BY <1>3, <1>4
  <1>6. OnCourse(x)
    BY <1>1, <1>5 DEF OnCourse, Holds
  <1>7. Served => Served'
    BY <1>1, HumanEnsured DEF FailClosed, HandOver, Served
  <1> HIDE DEF o
  <1> QED BY <1>1, <1>5, <1>6, <1>7, QuietFollows

(* A checkpoint is written by the one handler that holds the lease.        *)
LEMMA WriteFollows ==
  ASSUME Inductive, Following, NEW h \in Handlers, NEW c \in Checkpoint,
         NEW step \in {"run", "apply", "reply", "complete"}, Write(h, step, c),
         UNCHANGED <<conv, replies, worker>>, c.kind \in {"STARTED", "RESULT"},
         row.checkpoint.kind \in {"none", "STARTED", "RESULT"}
  PROVE  Follows
  <1> DEFINE to == [handler[h] EXCEPT !.step = step, !.checkpoint = c]
  <1>1. TypeOK /\ Holds(handler[h])
    BY DEF Inductive, Write, Holder, Holds
  <1>2. PICK x \in HandlerSet : x = to
    BY <1>1, Types DEF HandlerSet
  <1>3. Goto(h, x)
    BY <1>2 DEF Write
  <1>4. /\ row'.checkpoint = c /\ row'.status = row.status
        /\ row'.attempts = row.attempts /\ row'.live = row.live
    BY <1>1, Types DEF Write, RowSet
  <1>5. \A g \in Handlers : handler'[g] = IF g = h THEN x ELSE handler[g]
    BY <1>1, <1>3 DEF Goto, TypeOK
  <1>6. \A g \in Handlers \ {h} : ~Holds(handler[g])'
    BY <1>1, <1>4, <1>5, OneHolder DEF Holds
  <1>7. Following'
    BY <1>3, <1>4, <1>6, WriterFollows DEF OnCourse
  <1>8. \/ Phase = "waiting" /\ Phase' = "started"
        \/ Phase' = Phase
    BY <1>1, <1>4 DEF Phase, Holds, Terminal
  <1> QED BY <1>7, <1>8, PhaseOnly DEF Follows

LEMMA WritesFollow ==
  ASSUME Inductive, Following, NEW h \in Handlers,
         Start(h) \/ Media(h) \/ AgentAnswers(h) \/ NoteHandoff(h)
  PROVE  Follows
  <1>1. /\ TypeOK /\ Sound(handler[h]) /\ OnCourse(handler[h])
        /\ UNCHANGED <<conv, replies, worker>>
    BY DEF Inductive, Following, Start, Media, AgentAnswers, NoteHandoff
  <1>2. Holds(handler[h])
    BY DEF Start, Media, AgentAnswers, NoteHandoff, Write, Holder, Holds
  <1>3. row.checkpoint.kind \in {"none", "STARTED", "RESULT"}
    BY <1>1, <1>2 DEF Start, Media, AgentAnswers, NoteHandoff, At, Sound, OnCourse
  <1>4. \E c \in Checkpoint, step \in {"run", "apply", "reply", "complete"} :
          Write(h, step, c) /\ c.kind \in {"STARTED", "RESULT"}
    <2>1. CASE Start(h)
      <3>1. PICK c \in Checkpoint : c = Mark("STARTED", NoResult, FALSE)
        BY Marks DEF Kinds
      <3>2. c.kind = "STARTED"
        BY <3>1 DEF Mark
      <3>3. Write(h, "run", c)
        BY <2>1, <3>1 DEF Start
      <3> QED BY <3>2, <3>3
    <2>2. CASE Media(h)
      <3>1. [text |-> 0, handoff |-> TRUE] \in Result
        BY Constants DEF Result
      <3>2. PICK c \in Checkpoint : c = Mark("RESULT", [text |-> 0, handoff |-> TRUE], FALSE)
        BY <3>1 DEF Checkpoint, Kinds, Mark
      <3>3. c.kind = "RESULT"
        BY <3>2 DEF Mark
      <3>4. Write(h, "apply", c)
        BY <2>2, <3>2 DEF Media
      <3> QED BY <3>3, <3>4
    <2>3. CASE AgentAnswers(h)
      <3>1. PICK handoff \in BOOLEAN :
              Write(h, "apply", Mark("RESULT", [text |-> agent, handoff |-> handoff], FALSE))
        BY <2>3 DEF AgentAnswers
      <3>2. [text |-> agent, handoff |-> handoff] \in Result
        BY <1>1, Constants DEF TypeOK, Result, Texts
      <3>3. PICK c \in Checkpoint : c = Mark("RESULT", [text |-> agent, handoff |-> handoff], FALSE)
        BY <3>2 DEF Checkpoint, Kinds, Mark
      <3>4. c.kind = "RESULT"
        BY <3>3 DEF Mark
      <3>5. Write(h, "apply", c)
        BY <3>1, <3>3
      <3> QED BY <3>4, <3>5
    <2>4. CASE NoteHandoff(h)
      <3>1. PICK c \in Checkpoint : c = [handler[h].checkpoint EXCEPT !.applied = TRUE]
        BY <1>1, Types DEF Checkpoint
      <3>2. c.kind = "RESULT"
        BY <1>1, <2>4, <3>1, Types DEF Checkpoint, Sound, NoteHandoff, At
      <3>3. Write(h, "complete", c) \/ Write(h, "reply", c)
        BY <2>4, <3>1 DEF NoteHandoff
      <3> QED BY <3>2, <3>3
    <2> QED BY <2>1, <2>2, <2>3, <2>4
  <1> QED BY <1>1, <1>3, <1>4, WriteFollows

(* A handler that is done, whatever it leaves in the row.                  *)
LEMMA DoneFollows ==
  ASSUME Inductive, Following, NEW h \in Handlers, Done(h), UNCHANGED worker,
         \A g \in Handlers \ {h} : ~Holds(handler[g])',
         row'.checkpoint.kind = "none" => row.checkpoint.kind = "none"
  PROVE  Following'
  <1>1. PICK x \in HandlerSet : x = Idle
    BY IdleSound DEF Inductive
  <1>2. Goto(h, x) /\ x.step = "idle" /\ x.checkpoint.kind = "none"
    BY <1>1, IdleSound DEF Done, Idle, Inductive
  <1>3. OnCourse(x)'
    BY <1>2 DEF OnCourse
  <1> QED BY <1>2, <1>3, WriterFollows

LEMMA CompleteFollows ==
  ASSUME Inductive, Following, NEW h \in Handlers, Complete(h)
  PROVE  Follows
  <1>1. /\ TypeOK /\ Sound(handler[h]) /\ OnCourse(handler[h]) /\ Done(h)
        /\ handler[h].step = "complete" /\ UNCHANGED <<conv, replies, agent, worker, bounds>>
    BY DEF Inductive, Following, Complete, At
  <1>2. CASE Holder(h)
    <2>1. PICK s \in Terminal : s = handler[h].outcome
      BY <1>1, Types DEF HandlerSet, Sound
    <2>2. /\ row'.checkpoint = Receipt /\ row'.status = s /\ row.status = "CLAIMED"
          /\ Receipt.kind = "receipt"
      BY <1>1, <1>2, <2>1, Types, Marks DEF Complete, Holder, Release, RowSet
    <2>3. \A g \in Handlers : ~Holds(handler[g])'
      BY <2>2 DEF Holds, Terminal
    <2>4. Following'
      BY <1>1, <2>2, <2>3, DoneFollows
    <2>5. CASE s = "PROCESSED"
      <3>1. row.checkpoint.kind \in {"STARTED", "RESULT"} /\ Served
        BY <1>1, <1>2, <2>1, <2>5 DEF OnCourse, Holds, Holder, Sound
      <3>2. Phase = "started" /\ Phase' = "succeeded"
        BY <2>2, <2>5, <3>1 DEF Phase, Terminal
      <3> QED BY <1>1, <2>4, <3>1, <3>2, PhaseOnly DEF Follows
    <2>6. CASE s # "PROCESSED"
      <3>1. Phase \in {"waiting", "started", "abandoned"} /\ Phase' = "abandoned"
        BY <2>2, <2>6 DEF Phase, Terminal
      <3> QED BY <1>1, <2>4, <3>1, PhaseOnly DEF Follows
    <2> QED BY <2>5, <2>6
  <1>3. CASE ~Holder(h)
    <2>1. Die(h)
      BY <1>1, <1>3 DEF Complete, Die
    <2> QED BY <2>1, QuietStepsFollow
  <1> QED BY <1>2, <1>3

LEMMA FailFollows ==
  ASSUME Inductive, Following, NEW h \in Handlers, Fail(h)
  PROVE  Follows
  <1>1. TypeOK /\ Done(h) /\ UNCHANGED <<conv, replies, agent, worker, bounds>>
    BY DEF Inductive, Fail
  <1>2. CASE Holder(h)
    <2>1. row'.checkpoint = row.checkpoint /\ row'.status = "FAILED" /\ row.status = "CLAIMED"
      BY <1>1, <1>2, Types DEF Fail, Holder, Release, RowSet
    <2>2. \A g \in Handlers : ~Holds(handler[g])'
      BY <2>1 DEF Holds
    <2>3. Following'
      BY <1>1, <2>1, <2>2, DoneFollows
    <2>4. Phase' = Phase
      BY <2>1 DEF Phase, Terminal
    <2> QED BY <1>1, <2>3, <2>4, PhaseOnly DEF Follows
  <1>3. CASE ~Holder(h)
    <2>1. Die(h)
      BY <1>1, <1>3 DEF Fail, Die
    <2> QED BY <2>1, QuietStepsFollow
  <1> QED BY <1>2, <1>3

(* A step of nobody's that leaves the handlers alone.                      *)
LEMMA OthersFollow ==
  ASSUME Inductive, Following, UNCHANGED handler,
         row'.attempts = row.attempts, row'.status = "CLAIMED" /\ row'.live => row.status = "CLAIMED" /\ row.live,
         row'.checkpoint = row.checkpoint \/ (row'.status # "CLAIMED" /\ row'.checkpoint.kind # "none"),
         row'.checkpoint.kind = "none" => UNCHANGED worker
  PROVE  Following'
  <1>1. TakenUp'
    BY DEF Following, TakenUp
  <1>2. \A g \in Handlers : OnCourse(handler[g])'
    BY DEF Following, OnCourse, Holds
  <1> QED BY <1>1, <1>2 DEF Following

LEMMA ClaimFollows ==
  ASSUME Inductive, Following, NEW h \in Handlers, Claim(h)
  PROVE  Follows
  <1>1. /\ TypeOK /\ RowSound /\ Claimable /\ UNCHANGED <<conv, replies, agent, worker, bounds>>
    BY DEF Inductive, Claim
  <1>2. row.status \notin Terminal
    BY <1>1 DEF Claimable, Lapsed, Terminal
  <1>3. CASE AttemptsLeft
    <2> DEFINE to == [Idle EXCEPT !.step = "claimed", !.token = row.attempts + 1, !.checkpoint = row.checkpoint]
    <2>1. row.attempts + 1 \in 0..MaxAttempts /\ row.attempts \in Nat
      BY <1>1, <1>3, Types, Constants DEF AttemptsLeft
    <2>2. PICK x \in HandlerSet : x = to
      BY <1>1, <2>1, Types, IdleSound DEF HandlerSet
    <2>3. Goto(h, x) /\ x.step = "claimed" /\ x.checkpoint = row.checkpoint
      BY <1>1, <1>3, <2>2, Types, IdleSound DEF Claim, Idle
    <2>4. row'.status = "CLAIMED" /\ row'.attempts = row.attempts + 1 /\ row'.checkpoint = row.checkpoint
      BY <1>1, <1>3, <2>1, Types DEF Claim, RowSet
    <2>5. \A g \in Handlers : handler'[g] = IF g = h THEN x ELSE handler[g]
      BY <1>1, <2>3 DEF Goto, TypeOK
    <2>6. \A g \in Handlers \ {h} : ~Holds(handler[g])'
      <3>1. \A g \in Handlers : handler[g].token \in Nat /\ handler[g].token <= row.attempts
        BY <1>1, Types DEF Inductive, Sound
      <3> QED BY <2>1, <2>4, <2>5, <3>1 DEF Holds
    <2>7. OnCourse(x)'
      BY <2>3 DEF OnCourse
    <2> HIDE DEF to
    <2>8. Following'
      BY <1>1, <2>3, <2>4, <2>6, <2>7, WriterFollows
    <2>9. Phase' = Phase
      BY <1>2, <2>4 DEF Phase, Terminal
    <2> QED BY <1>1, <2>8, <2>9, PhaseOnly DEF Follows
  <1>4. CASE ~AttemptsLeft
    <2>1. /\ row'.checkpoint = Receipt /\ row'.status = "ATTEMPTS_EXHAUSTED" /\ UNCHANGED handler
          /\ row'.attempts = row.attempts /\ Receipt.kind = "receipt"
      <3>1. Release("ATTEMPTS_EXHAUSTED", Receipt) /\ UNCHANGED handler
        BY <1>4 DEF Claim
      <3> QED BY <1>1, <3>1, Types, Marks DEF Release, RowSet
    <2>2. Following'
      BY <1>1, <2>1, OthersFollow
    <2>3. Phase # "succeeded" /\ Phase' = "abandoned"
      BY <1>2, <2>1 DEF Phase, Terminal
    <2>4. Phase \in {"waiting", "started", "abandoned"}
      BY <2>3 DEF Phase
    <2> QED BY <1>1, <2>2, <2>3, <2>4, PhaseOnly DEF Follows
  <1> QED BY <1>3, <1>4

LEMMA RecoverFollows ==
  ASSUME Inductive, Following, NEW k \in Workers, Recover(k)
  PROVE  Follows
  <1>1. TypeOK /\ UNCHANGED <<conv, replies, agent, handler, bounds>>
    BY DEF Inductive, Recover
  <1>2. CASE Lapsed
    <2> DEFINE c == Mark("ABANDONED", NoResult, FALSE)
    <2>1. /\ row'.checkpoint = c /\ row'.status = "FAILED" /\ row'.attempts = row.attempts
          /\ c.kind = "ABANDONED" /\ row.status = "CLAIMED"
      BY <1>1, <1>2, Types DEF Recover, Release, RowSet, Mark, Lapsed
    <2> HIDE DEF c
    <2>2. Following'
      BY <1>1, <2>1, OthersFollow
    <2>3. Phase \in {"waiting", "started", "abandoned"} /\ Phase' = "abandoned"
      BY <2>1 DEF Phase, Terminal
    <2> QED BY <1>1, <2>2, <2>3, PhaseOnly DEF Follows
  <1>3. CASE ~Lapsed
    <2>1. UNCHANGED row /\ row.checkpoint.kind = "ABANDONED"
      BY <1>3 DEF Recover, Recoverable, Abandoned
    <2>2. Following'
      BY <1>1, <2>1, OthersFollow
    <2>3. Phase' = Phase
      BY <2>1 DEF Phase
    <2> QED BY <1>1, <2>2, <2>3, PhaseOnly DEF Follows
  <1> QED BY <1>2, <1>3

LEMMA RecoverHandoffFollows ==
  ASSUME Inductive, Following, NEW k \in Workers, RecoverHandoff(k)
  PROVE  Follows
  <1>1. UNCHANGED <<row, replies, agent, handler, bounds>> /\ conv'.handed
    BY DEF RecoverHandoff
  <1>2. row.checkpoint.kind # "none"
    BY DEF Following, TakenUp, RecoverHandoff, Step
  <1>3. Following'
    BY <1>1, <1>2, OthersFollow
  <1>4. Served'
    BY <1>1 DEF Served
  <1> QED BY <1>1, <1>2, <1>3, <1>4, ServedOnly DEF Follows

LEMMA RecoverDoneFollows ==
  ASSUME Inductive, Following, NEW k \in Workers, RecoverDone(k)
  PROVE  Follows
  <1>1. TypeOK /\ UNCHANGED <<conv, replies, agent, handler, bounds>> /\ row.checkpoint.kind # "none"
    BY DEF Inductive, Following, TakenUp, RecoverDone, Step
  <1>2. CASE row.status = "FAILED" /\ row.checkpoint.kind = "ABANDONED"
    <2>1. row' = [row EXCEPT !.checkpoint.applied = TRUE]
      BY <1>2 DEF RecoverDone
    <2>2. row'.status = "FAILED" /\ row'.attempts = row.attempts /\ row'.checkpoint.kind = "ABANDONED"
      BY <1>1, <1>2, <2>1, Types DEF RowSet, Checkpoint
    <2>3. Following'
      BY <1>1, <2>2, OthersFollow
    <2>4. Phase' = Phase
      BY <1>2, <2>2 DEF Phase, Terminal
    <2> QED BY <1>1, <2>3, <2>4, PhaseOnly DEF Follows
  <1>3. CASE ~(row.status = "FAILED" /\ row.checkpoint.kind = "ABANDONED")
    <2>1. UNCHANGED row
      BY <1>3 DEF RecoverDone
    <2>2. Following'
      BY <1>1, <2>1, OthersFollow
    <2>3. Phase' = Phase
      BY <2>1 DEF Phase
    <2> QED BY <1>1, <2>2, <2>3, PhaseOnly DEF Follows
  <1> QED BY <1>2, <1>3

LEMMA RecoverFailsFollows ==
  ASSUME Inductive, Following, NEW k \in Workers, RecoverFails(k)
  PROVE  Follows
  <1>1. UNCHANGED <<row, conv, replies, agent, handler>> /\ row.checkpoint.kind # "none"
    BY DEF Following, TakenUp, RecoverFails
  <1>2. Following'
    BY <1>1, OthersFollow
  <1>3. Phase' = Phase
    BY <1>1 DEF Phase
  <1> QED BY <1>1, <1>2, <1>3, PhaseOnly DEF Follows

(* A lapse, an operator, and a step of somebody else.                      *)
LEMMA OutsideFollows ==
  ASSUME Inductive, Following, Lapse \/ Operate \/ UNCHANGED vars
  PROVE  Follows
  <1>1. TypeOK /\ conv \in ConvSet /\ UNCHANGED <<replies, handler, worker>>
    BY DEF Inductive, TypeOK, Lapse, Operate, vars
  <1>2. /\ row'.checkpoint = row.checkpoint /\ row'.status = row.status
        /\ row'.attempts = row.attempts /\ (row'.live => row.live)
    BY <1>1, Types DEF Lapse, Operate, vars, RowSet
  <1>3. Following'
    BY <1>1, <1>2, OthersFollow
  <1>4. Phase' = Phase
    BY <1>2 DEF Phase
  <1>5. conv'.handed = conv.handed
    BY <1>1 DEF Lapse, Operate, vars, ConvSet
  <1>6. Served' = Served
    BY <1>1, <1>5 DEF Served
  <1> QED BY <1>3, <1>4, <1>6 DEF Follows

LEMMA NextFollows == Inductive /\ Following /\ [Next]_vars => Follows
  <1> SUFFICES ASSUME Inductive, Following, [Next]_vars PROVE Follows
    OBVIOUS
  <1>1. ASSUME NEW h \in Handlers,
               \/ Claim(h) \/ Refuse(h) \/ Resume(h) \/ Media(h) \/ Start(h) \/ RunAgent(h)
               \/ AgentAnswers(h) \/ Handoff(h) \/ NoteHandoff(h) \/ NoHandoff(h) \/ Reply(h)
               \/ FailClosed(h) \/ Complete(h) \/ Fail(h) \/ Die(h)
        PROVE  Follows
    BY <1>1, ClaimFollows, QuietStepsFollow, WritesFollow, FailClosedFollows, CompleteFollows, FailFollows
  <1>2. ASSUME NEW k \in Workers, Recover(k) \/ RecoverHandoff(k) \/ RecoverDone(k) \/ RecoverFails(k)
        PROVE  Follows
    BY <1>2, RecoverFollows, RecoverHandoffFollows, RecoverDoneFollows, RecoverFailsFollows
  <1> QED BY <1>1, <1>2, OutsideFollows DEF Next

(* Inbound messages keep the promise of OnceOnly for the effect "answered, *)
(* or given to a human": each step of a delivery, of the clock, of a       *)
(* recovery worker or of an operator is a step of the abstract job or      *)
(* leaves it alone.                                                        *)
THEOREM PromiseKept == Spec => KeepsPromise
  <1>1. Init => Following
    <2> SUFFICES ASSUME Init PROVE Following
      OBVIOUS
    <2>1. \A h \in Handlers : handler[h].step = "idle" /\ handler[h].checkpoint.kind = "none"
      BY Marks DEF Init, Idle
    <2>2. \A k \in Workers : worker[k] = "idle"
      BY DEF Init
    <2> QED BY <2>1, <2>2 DEF Following, TakenUp, OnCourse
  <1>2. Init => Promise!Init
    <2> SUFFICES ASSUME Init PROVE Promise!Init
      OBVIOUS
    <2>1. row.status = "ABSENT" /\ row.checkpoint.kind = "none" /\ ~conv.handed /\ replies = {}
      BY Marks DEF Init
    <2> QED BY <2>1 DEF Promise!Init, Phase, Served, Terminal
  <1>3. Inductive /\ Following /\ [Next]_vars => Following' /\ [Promise!Next]_<<Phase, Served>>
    BY NextFollows DEF Follows
  <1> QED BY <1>1, <1>2, <1>3, InductiveInvariant, PTL DEF Spec, KeepsPromise, Promise!Spec
===============================================================================
