----------------------------- MODULE MCBrokerDedup -----------------------------
(* A small instance of BrokerDedup: one observation and one activation of a transaction,
   two logon sessions, three connections, and counters that reach their limit,
   two times to issue a request at. *)
EXTENDS BrokerDedup, TLC
CONSTANTS observe, activate, logon1, logon2, early, late
MCIdentities == {observe, activate}
MCObservations == {observe}
MCTimes == {early, late}
MCPrincipals == {logon1, logon2}
MCSymmetry == Permutations(MCTimes) \cup Permutations(MCPrincipals)
=============================================================================
