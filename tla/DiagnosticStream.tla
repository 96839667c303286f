---------------------------- MODULE DiagnosticStream ----------------------------
(***************************************************************************)
(* Operators reading a diagnostic field that its owner has consented to    *)
(* share (consent-stream.ts), while the consent ends (manage-consent.ts,   *)
(* and the two transactions of runtime-authorities.ts that end it on the   *)
(* side).                                                                  *)
(*                                                                         *)
(* Every await of the adapter is a point where something else runs: the    *)
(* answer of the consent authority is a snapshot, which is judged in a     *)
(* later step; a notification, a close and a read of one stream overtake   *)
(* one another.  The storage, the inspector, the audit log and the         *)
(* authority may fail at any call.                                         *)
(*                                                                         *)
(* No route opens a stream yet, and the installed runtime publishes to      *)
(* nobody: the ports are those of the repository's tests.                  *)
(*                                                                         *)
(* There is one consent, and each stream asks for a field that it covers:  *)
(* any other request is denied before anything is opened.  The bytes are   *)
(* left out, their limits and their encoding with them: a chunk is good or *)
(* is rejected.                                                            *)
(***************************************************************************)
EXTENDS Naturals

CONSTANTS Streams,    \* streams opened under the consent
          MaxChunks   \* bound: chunks a stream releases

ASSUME StreamAssumption == MaxChunks \in Nat

VARIABLES consent,      \* the record of the consent: its state and version
          lapsed,       \* the clock has passed the expiry of the grant
          unpublished,  \* an ended consent is committed, its streams not yet told
          at,           \* how far openConsentBoundDiagnosticStream has come
          seen,         \* the snapshot that waits to be judged
          expected,     \* expectedConsentVersion
          reading,      \* where the one read of a stream is suspended
          subscribed,   \* the listener is with the authority
          rung,         \* the listener was called and has yet to re-read the consent
          closed,       \* closedReason
          reader,       \* the storage reader
          buffers,      \* delivered buffers that are not zeroed
          receipts,     \* access receipts: the version of a stream's consent, 0 for none
          late          \* history: the bytes in hand were read after the consent's end

authority == <<consent, lapsed, unpublished>>
ending == <<closed, buffers, subscribed, reader>>
streamVars == <<authority, at, seen, expected, reading, ending, rung, receipts, late>>

States == {"active", "revoked", "expired", "erased"}
AbortReasons == {"consent-changed", "content-rejected", "expired", "revoked", "storage-error"}
Verdicts == {"granted", "denied", "expired", "revoked", "consent-changed"}
Snapshot == [state : States \cup {"unavailable"}, version : Nat]
Unavailable == [state |-> "unavailable", version |-> 0]
NoVersion == 0

Ended == consent.state # "active" \/ lapsed

StreamInit ==
    /\ consent = [state |-> "active", version |-> 1]
    /\ lapsed = FALSE
    /\ unpublished = FALSE
    /\ at = [s \in Streams |-> "idle"]
    /\ seen = [s \in Streams |-> Unavailable]
    /\ expected = [s \in Streams |-> NoVersion]
    /\ reading = [s \in Streams |-> "none"]
    /\ subscribed = [s \in Streams |-> FALSE]
    /\ rung = [s \in Streams |-> FALSE]
    /\ closed = [s \in Streams |-> "no"]
    /\ reader = [s \in Streams |-> "none"]
    /\ buffers = [s \in Streams |-> 0]
    /\ receipts = [s \in Streams |-> NoVersion]
    /\ late = [s \in Streams |-> FALSE]

-----------------------------------------------------------------------------
(***************************************************************************)
(* The end of the consent                                                  *)
(***************************************************************************)
EndAs(state, notify) ==
    /\ consent.state = "active"
    /\ consent' = [state |-> state, version |-> consent.version + 1]
    /\ unpublished' = notify
    /\ UNCHANGED <<lapsed, at, seen, expected, reading, ending, rung, receipts, late>>

Lapse ==
    /\ ~lapsed
    /\ lapsed' = TRUE
    /\ UNCHANGED <<consent, unpublished, at, seen, expected, reading, ending, rung, receipts,
                   late>>

\* Mutant of Revoke: nobody is told.
RevokeUntold == EndAs("revoked", FALSE)

\* The owner revokes it; the streams are told after the commit.
Revoke == EndAs("revoked", TRUE)

\* The use case can end a lapsed consent; nobody asks for it yet.
Expire == lapsed /\ EndAs("expired", TRUE)

\* Reopening a case expires its consents within the transaction of the case.
ReopenCase == EndAs("expired", FALSE)

\* The finalization of an account deletion deletes the record.
EraseAccount ==
    /\ consent.state # "erased"
    /\ consent' = [state |-> "erased", version |-> 0]
    /\ UNCHANGED <<lapsed, unpublished, at, seen, expected, reading, ending, rung, receipts, late>>

Publish ==
    /\ unpublished
    /\ unpublished' = FALSE
    /\ rung' = [s \in Streams |-> rung[s] \/ subscribed[s]]
    /\ UNCHANGED <<consent, lapsed, at, seen, expected, reading, ending, receipts, late>>

-----------------------------------------------------------------------------
(***************************************************************************)
(* evaluateConsent and terminate                                           *)
(***************************************************************************)
\* What a snapshot is judged to be, by the clock of the judgement; no version is
\* expected before a stream exists.
Verdict(snapshot, version) ==
    IF snapshot.state \in {"unavailable", "erased"} THEN "denied"
    ELSE IF snapshot.state = "revoked" THEN "revoked"
    ELSE IF snapshot.state = "expired" \/ lapsed THEN "expired"
    ELSE IF version # NoVersion /\ snapshot.version # version THEN "consent-changed"
    ELSE "granted"

AbortReason(verdict) == IF verdict = "denied" THEN "consent-changed" ELSE verdict

\* The first reason stays; what was delivered so far is zeroed.
Terminate(s, reason) ==
    IF closed[s] # "no" THEN UNCHANGED ending
    ELSE /\ closed' = [closed EXCEPT ![s] = reason]
         /\ buffers' = [buffers EXCEPT ![s] = 0]
         /\ subscribed' = [subscribed EXCEPT ![s] = FALSE]
         /\ reader' = [reader EXCEPT ![s] = "disposed"]

\* The authority answers with the record of this moment, or fails.
ReadConsent(s) == \E answer \in {consent, Unavailable} : seen' = [seen EXCEPT ![s] = answer]

Deny(s) == at' = [at EXCEPT ![s] = "denied"]

-----------------------------------------------------------------------------
(***************************************************************************)
(* Opening a stream                                                        *)
(***************************************************************************)
AskAuthority(s) ==
    /\ at[s] = "idle"
    /\ at' = [at EXCEPT ![s] = "asking"]
    /\ ReadConsent(s)
    /\ UNCHANGED <<authority, expected, reading, ending, rung, receipts, late>>

Admit(s) ==
    /\ at[s] = "asking"
    /\ IF Verdict(seen[s], NoVersion) = "granted"
       THEN /\ at' = [at EXCEPT ![s] = "storing"]
            /\ expected' = [expected EXCEPT ![s] = seen[s].version]
       ELSE Deny(s) /\ UNCHANGED expected
    /\ UNCHANGED <<authority, seen, reading, ending, rung, receipts, late>>

\* openField fails; or its reader is disposed of, because the manifest is rejected or
\* the subscription fails; or the stream starts.
StoreFails(s) ==
    /\ at[s] = "storing"
    /\ Deny(s)
    /\ UNCHANGED <<authority, seen, expected, reading, ending, rung, receipts, late>>

StartFails(s) ==
    /\ at[s] = "storing"
    /\ Deny(s)
    /\ reader' = [reader EXCEPT ![s] = "disposed"]
    /\ UNCHANGED <<authority, seen, expected, reading, closed, buffers, subscribed, rung, receipts,
                   late>>

Start(s) ==
    /\ at[s] = "storing"
    /\ at' = [at EXCEPT ![s] = "receipting"]
    /\ reader' = [reader EXCEPT ![s] = "held"]
    /\ subscribed' = [subscribed EXCEPT ![s] = TRUE]
    /\ UNCHANGED <<authority, seen, expected, reading, closed, buffers, rung, receipts, late>>

\* Mutant of AppendReceipt: a failure of the audit log is ignored.
AppendReceiptOrNot(s) ==
    /\ at[s] = "receipting"
    /\ receipts' = receipts \/ receipts' = [receipts EXCEPT ![s] = expected[s]]
    /\ at' = [at EXCEPT ![s] = "open"]
    /\ UNCHANGED <<authority, seen, expected, reading, ending, rung, late>>

AppendReceipt(s) ==
    /\ at[s] = "receipting"
    /\ receipts' = [receipts EXCEPT ![s] = expected[s]]
    /\ at' = [at EXCEPT ![s] = "open"]
    /\ UNCHANGED <<authority, seen, expected, reading, ending, rung, late>>

\* Mutant of ReceiptFails: the stream is denied and not closed.
ReceiptFailsOpen(s) ==
    /\ at[s] = "receipting"
    /\ Deny(s)
    /\ UNCHANGED <<authority, seen, expected, reading, ending, rung, receipts, late>>

ReceiptFails(s) ==
    /\ at[s] = "receipting"
    /\ Terminate(s, "complete")
    /\ Deny(s)
    /\ UNCHANGED <<authority, seen, expected, reading, rung, receipts, late>>

-----------------------------------------------------------------------------
(***************************************************************************)
(* A read, from one await to the next                                      *)
(***************************************************************************)
Suspend(s, where) == reading' = [reading EXCEPT ![s] = where]
Abort(s, reason) == Terminate(s, reason) /\ Suspend(s, "none")

Read(s) ==
    /\ at[s] = "open" /\ reading[s] = "none" /\ closed[s] = "no"
    /\ buffers[s] < MaxChunks
    /\ ReadConsent(s)
    /\ Suspend(s, "before")
    /\ UNCHANGED <<authority, at, expected, ending, rung, receipts, late>>

\* A storage read that begins on a closed stream is refused by its aborted signal.
CheckBefore(s) ==
    /\ reading[s] = "before"
    /\ LET verdict == Verdict(seen[s], expected[s]) IN
       IF verdict # "granted" THEN Abort(s, AbortReason(verdict))
       ELSE /\ Suspend(s, IF closed[s] = "no" THEN "storage" ELSE "none")
            /\ UNCHANGED ending
    /\ UNCHANGED <<authority, at, seen, expected, rung, receipts, late>>

StorageAnswers(s) ==
    /\ reading[s] = "storage"
    /\ late' = [late EXCEPT ![s] = Ended]
    /\ \/ Suspend(s, "inspecting") /\ UNCHANGED ending
       \/ Abort(s, "content-rejected")
    /\ UNCHANGED <<authority, at, seen, expected, rung, receipts>>

\* The end of the field, an error of the storage, or an abort that nobody has asked for.
StorageEnds(s) ==
    /\ reading[s] = "storage"
    /\ \E reason \in {"complete", "storage-error", "consent-changed"} : Abort(s, reason)
    /\ UNCHANGED <<authority, at, seen, expected, rung, receipts, late>>

\* Mutant of Inspect: the snapshot from before the storage read is judged again.
InspectOnly(s) ==
    /\ reading[s] = "inspecting"
    /\ Suspend(s, "after")
    /\ UNCHANGED <<authority, at, seen, expected, ending, rung, receipts, late>>

Inspect(s) ==
    /\ reading[s] = "inspecting"
    /\ ReadConsent(s)
    /\ Suspend(s, "after")
    /\ UNCHANGED <<authority, at, expected, ending, rung, receipts, late>>

Reject(s) ==
    /\ reading[s] = "inspecting"
    /\ Abort(s, "content-rejected")
    /\ UNCHANGED <<authority, at, seen, expected, rung, receipts, late>>

Release(s) ==
    /\ reading[s] = "after"
    /\ LET verdict == Verdict(seen[s], expected[s]) IN
       IF verdict # "granted" THEN Abort(s, AbortReason(verdict))
       ELSE /\ buffers' = [buffers EXCEPT ![s] = @ + 1]
            /\ Suspend(s, "none")
            /\ UNCHANGED <<closed, subscribed, reader>>
    /\ UNCHANGED <<authority, at, seen, expected, rung, receipts, late>>

-----------------------------------------------------------------------------
(***************************************************************************)
(* What may happen to a stream at any await                                *)
(***************************************************************************)
\* revalidateNotification
Notified(s) ==
    /\ rung[s]
    /\ rung' = [rung EXCEPT ![s] = FALSE]
    /\ \E answer \in {consent, Unavailable} :
          LET verdict == Verdict(answer, expected[s]) IN
          IF verdict = "granted" THEN UNCHANGED ending ELSE Terminate(s, AbortReason(verdict))
    /\ UNCHANGED <<authority, at, seen, expected, reading, receipts, late>>

Close(s) ==
    /\ at[s] = "open"
    /\ Terminate(s, "complete")
    /\ UNCHANGED <<authority, at, seen, expected, reading, rung, receipts, late>>

Opening(s) ==
    \/ AskAuthority(s) \/ Admit(s) \/ StoreFails(s) \/ StartFails(s) \/ Start(s)
    \/ AppendReceipt(s) \/ ReceiptFails(s)

Suspended(s) ==
    \/ CheckBefore(s) \/ StorageAnswers(s) \/ StorageEnds(s) \/ Inspect(s) \/ Reject(s)
    \/ Release(s)

StreamNext ==
    \/ Lapse \/ Revoke \/ Expire \/ ReopenCase \/ EraseAccount \/ Publish
    \/ \E s \in Streams : Opening(s) \/ Read(s) \/ Suspended(s) \/ Notified(s) \/ Close(s)

StreamSpec == StreamInit /\ [][StreamNext]_streamVars

\* As long as the process lives, and the stream does not outlive it, a committed end is
\* published and a listener that was called goes on.
FairSpec ==
    /\ StreamSpec
    /\ WF_streamVars(Publish)
    /\ \A s \in Streams : WF_streamVars(Notified(s))

\* Moreover the storage, the inspector and the authority answer.
AnsweringSpec == FairSpec /\ \A s \in Streams : WF_streamVars(Suspended(s))

-----------------------------------------------------------------------------
(***************************************************************************)
(* Properties                                                              *)
(***************************************************************************)
StreamTypeOK ==
    /\ consent \in [state : States, version : Nat]
    /\ lapsed \in BOOLEAN /\ unpublished \in BOOLEAN
    /\ at \in [Streams -> {"idle", "asking", "storing", "receipting", "open", "denied"}]
    /\ seen \in [Streams -> Snapshot]
    /\ expected \in [Streams -> Nat]
    /\ reading \in [Streams -> {"none", "before", "storage", "inspecting", "after"}]
    /\ subscribed \in [Streams -> BOOLEAN] /\ rung \in [Streams -> BOOLEAN]
    /\ closed \in [Streams -> AbortReasons \cup {"no", "complete"}]
    /\ reader \in [Streams -> {"none", "held", "disposed"}]
    /\ buffers \in [Streams -> Nat]
    /\ receipts \in [Streams -> Nat]
    /\ late \in [Streams -> BOOLEAN]

Released(s) == buffers'[s] > buffers[s]

\* Bytes that came out of the storage after the consent had ended, in whatever way, are not
\* released, whatever the stream was doing when it ended: the consent is read again after
\* the inspection.
NothingReadLateIsReleased == [][\A s \in Streams : Released(s) => ~late[s]]_streamVars

\* No chunk is released without an access receipt that was written before, and it names the
\* version of the consent that the last re-read has found.
AccessIsReceipted ==
    [][\A s \in Streams :
          Released(s) => receipts[s] # NoVersion /\ receipts[s] = seen[s].version]_streamVars

\* A storage reader is held only by a stream that is open or opening and will be told of
\* the end of its consent; every path that fails disposes of it.
ReadersAreListening ==
    \A s \in Streams :
        reader[s] = "held" =>
            at[s] \in {"receipting", "open"} /\ closed[s] = "no" /\ subscribed[s]

\* A revoked consent closes every stream that has released a chunk, also one that nobody
\* reads any more.
RevocationCloses ==
    \A s \in Streams : (consent.state = "revoked" /\ buffers[s] > 0) ~> closed[s] # "no"

\* A stream that is closed holds no delivered bytes: 04-DIAGNOSTIC-MANIFEST.md:33 has every
\* end zero them.
ClosedHoldsNothing == \A s \in Streams : closed[s] # "no" => buffers[s] = 0

\* The expiry of the consent closes a stream as a revocation does: 04-DIAGNOSTIC-MANIFEST.md:33.
ExpiryCloses == \A s \in Streams : (lapsed /\ buffers[s] > 0) ~> closed[s] # "no"
=============================================================================
