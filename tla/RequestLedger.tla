----------------------------- MODULE RequestLedger -----------------------------
(***************************************************************************)
(* What the optimizer broker promises of one request identity: it is       *)
(* written down as reserved and as uncertain before the operation is       *)
(* called, the operation is called at most once, and the answer recorded   *)
(* for it stays until the identity is forgotten as a whole.                *)
(***************************************************************************)
EXTENDS Naturals

CONSTANT Answers

VARIABLES phase,   \* how far the identity has come, durably
          calls,   \* how often its operation was called
          answer   \* the recorded answer, or "none"

vars == <<phase, calls, answer>>

Init == phase = "absent" /\ calls = 0 /\ answer = "none"

Reserve ==
    /\ phase = "absent"
    /\ phase' = "reserved"
    /\ UNCHANGED <<calls, answer>>

Doubt ==
    /\ phase = "reserved"
    /\ phase' = "unknown-after-crash"
    /\ UNCHANGED <<calls, answer>>

CallOperation ==
    /\ phase = "unknown-after-crash" /\ calls = 0
    /\ calls' = 1
    /\ UNCHANGED <<phase, answer>>

Settle ==
    /\ phase = "unknown-after-crash" /\ calls = 1
    /\ phase' = "terminal"
    /\ answer' \in Answers
    /\ UNCHANGED calls

Forget ==
    /\ phase = "terminal"
    /\ phase' = "absent" /\ calls' = 0 /\ answer' = "none"

Next == Reserve \/ Doubt \/ CallOperation \/ Settle \/ Forget

Spec == Init /\ [][Next]_vars
=============================================================================
