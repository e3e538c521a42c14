-------------------------------- MODULE Turn --------------------------------
(***************************************************************************)
(* What a session's loop promises its user, with no queue, worker or bridge *)
(* in sight: the model is asked, may call tools while its step budget lasts, *)
(* is asked again once they have answered, and ends by answering or failing. *)
(***************************************************************************)
EXTENDS Naturals

CONSTANTS Steps,        \* the step budget of a turn
          MaxPosts      \* bound on user messages

VARIABLES phase,    \* who the turn waits for: "model", "tools" or nobody, "idle"
          rounds,   \* answers of the model in this turn
          asks      \* user messages so far

vars == <<phase, rounds, asks>>

Init == phase = "idle" /\ rounds = 0 /\ asks = 0

Ask ==
    /\ phase = "idle" /\ asks < MaxPosts
    /\ phase' = "model" /\ rounds' = 0 /\ asks' = asks + 1

CallTools ==
    /\ phase = "model" /\ rounds + 1 < Steps
    /\ phase' = "tools" /\ rounds' = rounds + 1 /\ UNCHANGED asks

\* The model answered, or the request failed.
End ==
    /\ phase = "model"
    /\ phase' = "idle" /\ rounds' \in {rounds, rounds + 1} /\ UNCHANGED asks

Resume == phase = "tools" /\ phase' = "model" /\ UNCHANGED <<rounds, asks>>

\* A spend cap refuses the continuation.
Refuse == phase = "tools" /\ phase' = "idle" /\ UNCHANGED <<rounds, asks>>

Next == Ask \/ CallTools \/ End \/ Resume \/ Refuse

Spec == Init /\ [][Next]_vars
=============================================================================
