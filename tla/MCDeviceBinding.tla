----------------------------- MODULE MCDeviceBinding -----------------------------
(* Small instances of DeviceBinding. *)
EXTENDS DeviceBinding, TLC
CONSTANTS c1, c2, c3, pc1, pc2, b1, b2, b3, e1
MCTwoCommands == {c1, c2}
MCThreeCommands == {c1, c2, c3}
MCPCs == {pc1, pc2}
MCTwoBindings == {b1, b2}
MCThreeBindings == {b1, b2, b3}
MCNoException == {}
MCException == {e1}
MCKinds == {"bind", "revoke", "transfer", "revalidate"}
MCChanging == {"bind", "revoke", "transfer"}
MCBindRevoke == {"bind", "revoke"}
MCSymmetry == Permutations(MCPCs) \cup Permutations(MCThreeBindings) \cup Permutations(MCThreeCommands)
MCSymmetryTwo == Permutations(MCPCs) \cup Permutations(MCTwoBindings) \cup Permutations(MCTwoCommands)
=============================================================================
