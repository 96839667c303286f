------------------------- MODULE MCAdvancedPreference -------------------------
(***************************************************************************)
(* Instances of AdvancedPreference for TLC.                                *)
(***************************************************************************)
EXTENDS AdvancedPreference, TLC

EveryFault == FaultKinds
CustodyOutage == {"custody"}
NoFault == {}

\* Bound: events in the journal of two stores, enough for a preference that is enabled,
\* invalidated and enabled again.
MaxEvents == 3
BoundedSpec == Init /\ [][Next /\ Len(events') <= MaxEvents]_vars

\* The start of the race the tests of the repository run: no store appends before
\* both are open on the new database.
RaceSpec ==
    Init /\ [][Next /\ ((\E s \in Stores : pc[s] = "closed") => events' = events)]_vars

Interchangeable == Permutations(Receipts) \cup Permutations(Postures) \cup Permutations(Stores)
=============================================================================
