----------------------------- MODULE AppendOnlyLog -----------------------------
(***************************************************************************)
(* What the recovery journal promises: a log that only ever grows, by one  *)
(* entry at a time, and whose acknowledged entries are entries of it.      *)
(***************************************************************************)
EXTENDS Naturals, Sequences

CONSTANT Entry

VARIABLES log,    \* the entries protected against loss
          acked   \* the entries whose append returned success

Init == log = <<>> /\ acked = {}

\* One entry more.  Its append may already have been reported as failed: then a later
\* repair protects the entry and nobody acknowledges it.
Extend ==
    LET entry == log'[Len(log) + 1]
    IN  /\ Len(log') = Len(log) + 1
        /\ entry \in Entry
        /\ log' = Append(log, entry)
        /\ acked' \in {acked, acked \cup {entry}}

Spec == Init /\ [][Extend]_<<log, acked>>
=============================================================================
