-------------------------- MODULE TransactionLifecycle --------------------------
(***************************************************************************)
(* What the executor promises of one transaction: it is written down       *)
(* before its mutation leaves, the mutation leaves at most once and never  *)
(* after Windows was looked at to settle it, and a settled transaction     *)
(* stays settled with the verdict it got.                                  *)
(***************************************************************************)
EXTENDS Naturals

CONSTANT Verdicts

VARIABLES phase,    \* how far the transaction has come, durably
          sends,    \* how often its mutation was handed to the broker
          verdict   \* the verdict that settled it, or "none"

vars == <<phase, sends, verdict>>

Init == phase = "none" /\ sends = 0 /\ verdict = "none"

Prepare ==
    /\ phase = "none" /\ sends = 0
    /\ phase' = "prepared"
    /\ UNCHANGED <<sends, verdict>>

Send ==
    /\ phase = "prepared" /\ sends = 0
    /\ sends' = 1
    /\ UNCHANGED <<phase, verdict>>

Observe ==
    /\ phase = "prepared"
    /\ phase' = "observed"
    /\ UNCHANGED <<sends, verdict>>

Settle ==
    /\ phase = "observed"
    /\ phase' = "settled"
    /\ verdict' \in Verdicts
    /\ UNCHANGED sends

Next == Prepare \/ Send \/ Observe \/ Settle

Spec == Init /\ [][Next]_vars
=============================================================================
