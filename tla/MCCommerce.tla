------------------------------ MODULE MCCommerce ------------------------------
(* Small instances of CommerceReconciliation: one customer, one or two requests at a time. *)
EXTENDS CommerceReconciliation, TLC
CONSTANTS first, second, c1, c2
MCSubscriptions == {1, 2}
MCOneSubscription == {1}
MCOneWorker == {first}
MCTwoWorkers == {first, second}
MCNoCommand == {}
MCOneCommand == {c1}
MCKinds == {"checkout-returned", "cancel", "undo-cancel", "refund"}
MCCheckout == {"checkout-returned"}
\* Requests are interchangeable: the runs of safety properties use this.
MCSymmetry == Permutations(MCTwoWorkers)
=============================================================================
