--------------------------- MODULE MCAdminGovernance ---------------------------
(* Small instances of AdminGovernance. *)
EXTENDS AdminGovernance, TLC
CONSTANTS m1, m2, m3, r1, d1, s1, s2
MCMembers == {m1, m2, m3}
MCFounders == {m1, m2}
MCFunctions == {"security", "operations"}
MCRequests == {r1}
MCDelegations == {d1}
MCSlots == {s1, s2}
MCSymmetry == Permutations(MCFounders) \cup Permutations(MCSlots)
=============================================================================
