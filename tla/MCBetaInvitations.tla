--------------------------- MODULE MCBetaInvitations ---------------------------
(***************************************************************************)
(* Instances of BetaInvitations for TLC.                                   *)
(***************************************************************************)
EXTENDS BetaInvitations, TLC

MCPort == {[postgres |-> FALSE, limit |-> 1]}
MCSchema == {[postgres |-> TRUE, limit |-> 2]}
\* Under the schema a seat more, which the letter that is sent again takes.
MCBoth == MCPort \cup MCSchema

Interchangeable ==
    Permutations(Commands) \cup Permutations(Invitations) \cup Permutations(Recipients)
=============================================================================
