------------------------------ MODULE OnceOnly ------------------------------
(***************************************************************************)
(* What the secure command ledger promises whoever asks for an effect: the *)
(* effect happens at most once, only after the job was started, and the    *)
(* job is called a success only if it happened.  An abandoned job may      *)
(* still have had its effect, and may even have it late: the answer is     *)
(* "unknown", never "run it again".                                        *)
(***************************************************************************)
VARIABLES phase,   \* where the job stands
          ran      \* the effect happened

Phases == {"waiting", "started", "succeeded", "abandoned"}

Init == phase = "waiting" /\ ran = FALSE

Start == phase = "waiting" /\ phase' = "started" /\ UNCHANGED ran

Run == ~ran /\ phase # "waiting" /\ ran' = TRUE /\ UNCHANGED phase

Succeed == phase = "started" /\ ran /\ phase' = "succeeded" /\ UNCHANGED ran

Abandon == phase \in {"waiting", "started"} /\ phase' = "abandoned" /\ UNCHANGED ran

Next == Start \/ Run \/ Succeed \/ Abandon

Spec == Init /\ [][Next]_<<phase, ran>>
=============================================================================
