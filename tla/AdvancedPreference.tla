-------------------------- MODULE AdvancedPreference --------------------------
(***************************************************************************)
(* The Advanced preference of one PC: whether high-risk operations may be  *)
(* offered at all (apps/desktop/src-tauri/src/recovery_store/              *)
(* advanced_preference.rs and the authority main.rs builds over it).  The  *)
(* preference is a journal of events, enabled, revoked and invalidated;    *)
(* each of the first two is backed by a one-use receipt of a strong        *)
(* authentication for one action and one posture of the device, and an     *)
(* enabled preference is invalidated when the posture is seen to change.   *)
(*                                                                         *)
(* A store is one process's handle on the journal: a projection in memory, *)
(* the posture it last observed, and the command it is executing.  The     *)
(* desktop host runs its commands one at a time; two stores on one         *)
(* database are what the tests of the repository exercise.                 *)
(*                                                                         *)
(* The other rows of the recovery journal are left to RecoveryJournal: the *)
(* protected head is the number of events it covers.  A posture stands for *)
(* the two fingerprints of one device.                                     *)
(***************************************************************************)
EXTENDS Integers, Sequences

CONSTANTS Stores,    \* handles opened on the database
          Postures,  \* postures the device can have
          Receipts,  \* receipts the user's authentications can yield
          NoReceipt, \* proof_reference of an invalidation
          Faults     \* what the environment does: a subset of FaultKinds

FaultKinds == {"storage", "custody", "network", "crash"}

ASSUME EnvironmentAssumption ==
    /\ NoReceipt \notin Receipts
    /\ Faults \subseteq FaultKinds

VARIABLES events,     \* the table advanced_preference_events
          protected,  \* how many of them the protected head covers
          custody,    \* the credential store that keeps the head answers
          posture,    \* the posture of the device
          grant,      \* what each receipt was issued for
          used,       \* receipts the API has consumed
          acked,      \* history: the receipts whose transition returned Ok
          pc,         \* where each store is in its command
          store,      \* projection and last observed posture of each store
          call,       \* the command a store executes
          answers     \* snapshots answered to the renderer of each store

vars == <<events, protected, custody, posture, grant, used, acked, pc, store, call, answers>>
device == <<custody, posture, grant>>

Transitions == {"enable", "revoke"}
States == {"disabled", "enabled", "revoked", "revalidation-required"}

Event == [kind : {"enabled", "revoked", "invalidated"}, posture : Postures,
          proof : Receipts \cup {NoReceipt}]
Store == [state : States, count : Nat, bound : Postures, current : Postures]
Answer == [state : States, sequence : Nat]
Call == [op : {"none", "open", "read"} \cup Transitions, on : Answer,
         proof : Receipts \cup {NoReceipt},
         kind : {"enabled", "revoked", "invalidated"}, head : Nat]
Stages == {"closed", "ready", "authorize", "append", "commit", "anchor", "reply"}
-----------------------------------------------------------------------------
(***************************************************************************)
(* The journal and what a store makes of it                                *)
(***************************************************************************)
StateAfter(kind) == IF kind = "invalidated" THEN "revalidation-required" ELSE kind
StateAt(evs, n) == IF n = 0 THEN "disabled" ELSE StateAfter(evs[n].kind)
StateOf(evs) == StateAt(evs, Len(evs))

Proofs(evs) == {evs[i].proof : i \in DOMAIN evs}

\* load_validated_events and reduce_projection accept the table: only an enabled
\* preference is revoked or invalidated, only one that is not is enabled, and no
\* receipt backs two events.
Loadable(evs) ==
    /\ \A i \in DOMAIN evs :
          (evs[i].kind = "enabled") <=> (StateAt(evs, i - 1) # "enabled")
    /\ \A i, j \in DOMAIN evs :
          evs[i].proof = evs[j].proof /\ evs[i].proof # NoReceipt => i = j

Projected(evs, seen) ==
    [state |-> StateOf(evs), count |-> Len(evs),
     bound |-> IF StateOf(evs) = "enabled" THEN evs[Len(evs)].posture ELSE seen,
     current |-> seen]

\* A verifying RecoveryStore finds the journal writable; it repairs a lag of one row
\* and locks the journal on any other.
Verified == custody /\ Len(events) - protected \in {0, 1}
Repaired == IF Verified THEN Len(events) ELSE protected

NoAnswer == [state |-> "disabled", sequence |-> 0]

\* A command, and the event it may append first: an invalidation.
NewCall(op, on, proof) ==
    [op |-> op, on |-> on, proof |-> proof, kind |-> "invalidated", head |-> 0]
NoCall == NewCall("none", NoAnswer, NoReceipt)
Starting == NewCall("open", NoAnswer, NoReceipt)

\* Where a command goes on once the posture is observed.
AfterObserving(op) ==
    IF op = "open" THEN "ready" ELSE IF op = "read" THEN "reply" ELSE "authorize"

\* The command returns an error; a failed start leaves no store behind.
Fail(s) ==
    /\ pc' = [pc EXCEPT ![s] = IF call[s].op = "open" THEN "closed" ELSE "ready"]
    /\ call' = [call EXCEPT ![s] = NoCall]
    /\ UNCHANGED <<acked, store, answers>>

Init ==
    /\ events = <<>>
    /\ protected = 0
    /\ custody = TRUE
    /\ posture \in Postures
    /\ grant \in [Receipts -> [action : Transitions, posture : Postures]]
    /\ used = {}
    /\ acked = {}
    /\ pc = [s \in Stores |-> "closed"]
    /\ store = [s \in Stores |-> Projected(<<>>, posture)]
    /\ call = [s \in Stores |-> NoCall]
    /\ answers = [s \in Stores |-> {}]
-----------------------------------------------------------------------------
(***************************************************************************)
(* Start-up and the commands of the renderer                               *)
(***************************************************************************)
\* Mutant: a restart trusts the journal whatever the posture is now.
OpenUnobserved(s) ==
    /\ pc[s] = "closed"
    /\ Verified /\ Loadable(events)
    /\ protected' = Repaired
    /\ store' = [store EXCEPT ![s] = Projected(events, posture)]
    /\ call' = [call EXCEPT ![s] = Starting]
    /\ pc' = [pc EXCEPT ![s] = "ready"]
    /\ UNCHANGED <<events, used, acked, answers, device>>

\* AdvancedPreferenceStore::open: the journal is verified and replayed, and an
\* enabled preference bound to another posture is invalidated before it is shown.
Open(s) ==
    /\ pc[s] = "closed"
    /\ Verified /\ Loadable(events)
    /\ protected' = Repaired
    /\ store' = [store EXCEPT ![s] = Projected(events, posture)]
    /\ call' = [call EXCEPT ![s] = Starting]
    /\ pc' = [pc EXCEPT ![s] =
                IF Projected(events, posture).bound # posture THEN "append" ELSE "ready"]
    /\ UNCHANGED <<events, used, acked, answers, device>>

\* observe_binding, the first step of every command: the store takes the new posture
\* over before the invalidation of an enabled preference is durable.
Begin(s, c) ==
    /\ pc[s] = "ready"
    /\ LET enabled == store[s].state = "enabled"
           changed == posture # store[s].current
       IN  /\ store' = [store EXCEPT ![s].current = posture,
                                     ![s].bound = IF enabled THEN @ ELSE posture]
           /\ pc' = [pc EXCEPT ![s] =
                       IF enabled /\ changed THEN "append" ELSE AfterObserving(c.op)]
    /\ call' = [call EXCEPT ![s] = c]
    /\ UNCHANGED <<events, protected, used, acked, answers, device>>

\* read_advanced_preference, and the check apply_plan makes before it admits a plan.
Read(s) == Begin(s, NewCall("read", NoAnswer, NoReceipt))

\* The renderer asks for the one transition the snapshot it shows offers, and names
\* the sequence of that snapshot; it may show it long after it was answered.
Transition(s, on, r) ==
    /\ on \in answers[s]
    /\ Begin(s, NewCall(IF on.state = "enabled" THEN "revoke" ELSE "enable", on, r))

-----------------------------------------------------------------------------
(***************************************************************************)
(* The authorization of a transition                                       *)
(***************************************************************************)
\* Mutant: the sequence the renderer names is not compared.
AdmittedWhatever(s) == TRUE

Admitted(s) == call[s].on.sequence = store[s].count

\* Mutant: the API matches the action of the receipt and not its target.
GrantedForAction(s) ==
    /\ call[s].proof \notin used
    /\ grant[call[s].proof].action = call[s].op

\* The API consumes a receipt that was never used, for this action and this target.
Granted(s) ==
    /\ call[s].proof \notin used
    /\ grant[call[s].proof] = [action |-> call[s].op, posture |-> store[s].current]

\* enable, revoke: the proof backs no event yet and the projection allows the action.
Allowed(s) ==
    /\ call[s].proof \notin Proofs(events)
    /\ (call[s].op = "enable") <=> (store[s].state # "enabled")

\* The receipt is consumed before the store looks at its own state.
Authorize(s) ==
    /\ pc[s] = "authorize"
    /\ Admitted(s) /\ Granted(s)
    /\ used' = used \cup {call[s].proof}
    /\ IF Allowed(s)
         THEN /\ pc' = [pc EXCEPT ![s] = "append"]
              /\ call' = [call EXCEPT ![s].kind =
                             IF call[s].op = "enable" THEN "enabled" ELSE "revoked"]
              /\ UNCHANGED <<acked, store, answers>>
         ELSE Fail(s)
    /\ UNCHANGED <<events, protected, device>>

Refuse(s) ==
    /\ pc[s] = "authorize"
    /\ ~(Admitted(s) /\ Granted(s))
    /\ Fail(s)
    /\ UNCHANGED <<events, protected, used, device>>

\* No answer of the API: whether it consumed the receipt is not known.
LoseApproval(s) ==
    /\ "network" \in Faults
    /\ pc[s] = "authorize"
    /\ Admitted(s)
    /\ used' \in {used} \cup (IF Granted(s) THEN {used \cup {call[s].proof}} ELSE {})
    /\ Fail(s)
    /\ UNCHANGED <<events, protected, device>>

-----------------------------------------------------------------------------
(***************************************************************************)
(* append_event                                                            *)
(***************************************************************************)
\* Mutant: the projection is not compared with the journal.
UpToDateWhatever(s) == TRUE

\* The projection this store decided on is what the journal says now.
UpToDate(s) == store[s].state = StateOf(events) /\ store[s].count = Len(events)

\* The verifier, the comparison of the projection and the read of the head.
Prepare(s) ==
    /\ pc[s] = "append"
    /\ Verified /\ Loadable(events) /\ UpToDate(s)
    /\ protected' = Repaired
    /\ call' = [call EXCEPT ![s].head = Len(events)]
    /\ pc' = [pc EXCEPT ![s] = "commit"]
    /\ UNCHANGED <<events, used, acked, store, answers, device>>

PrepareRefused(s) ==
    /\ pc[s] = "append"
    /\ ~(Verified /\ Loadable(events) /\ UpToDate(s))
    /\ protected' = Repaired
    /\ Fail(s)
    /\ UNCHANGED <<events, used, device>>

\* The event binds the preference to the posture the store observed last.
Pending(s) ==
    [kind |-> call[s].kind, posture |-> store[s].current,
     proof |-> IF call[s].kind = "invalidated" THEN NoReceipt ELSE call[s].proof]

\* Mutant: no unique index refuses a sequence that is taken.
CommitUnindexed(s) ==
    /\ pc[s] = "commit"
    /\ events' = Append(events, Pending(s))
    /\ pc' = [pc EXCEPT ![s] = "anchor"]
    /\ UNCHANGED <<protected, used, acked, store, call, answers, device>>

\* One transaction; its unique indexes refuse a sequence that is taken.
Commit(s) ==
    /\ pc[s] = "commit"
    /\ IF call[s].head = Len(events)
         THEN /\ events' = Append(events, Pending(s))
              /\ pc' = [pc EXCEPT ![s] = "anchor"]
              /\ UNCHANGED <<acked, store, call, answers>>
         ELSE Fail(s) /\ UNCHANGED events
    /\ UNCHANGED <<protected, used, device>>

\* The projection after the event that is being appended.
Moved(s) ==
    [state |-> StateAfter(call[s].kind), count |-> call[s].head + 1,
     bound |-> store[s].current, current |-> store[s].current]

AfterAppending(c) ==
    IF c.kind = "invalidated" THEN AfterObserving(c.op) ELSE "reply"

\* Mutant: moves the projection before the protected head is known to have moved.
AnchorProjectsFirst(s) ==
    /\ pc[s] = "anchor"
    /\ store' = [store EXCEPT ![s] = Moved(s)]
    /\ IF custody /\ protected = call[s].head
         THEN /\ protected' = call[s].head + 1
              /\ pc' = [pc EXCEPT ![s] = AfterAppending(call[s])]
              /\ call' = call
         ELSE /\ protected' = protected
              /\ pc' = [pc EXCEPT ![s] = IF call[s].op = "open" THEN "closed" ELSE "ready"]
              /\ call' = [call EXCEPT ![s] = NoCall]
    /\ UNCHANGED <<events, used, acked, answers, device>>

\* The compare-and-swap of the head; only then does the projection move.
Anchor(s) ==
    /\ pc[s] = "anchor"
    /\ IF custody /\ protected = call[s].head
         THEN /\ protected' = call[s].head + 1
              /\ store' = [store EXCEPT ![s] = Moved(s)]
              /\ pc' = [pc EXCEPT ![s] = AfterAppending(call[s])]
              /\ UNCHANGED <<acked, call, answers>>
         ELSE Fail(s) /\ UNCHANGED protected
    /\ UNCHANGED <<events, used, device>>

\* project_advanced_preference
Reply(s) ==
    /\ pc[s] = "reply"
    /\ answers' = [answers EXCEPT ![s] = @ \cup
                     {[state |-> store[s].state, sequence |-> store[s].count]}]
    /\ acked' = IF call[s].op \in Transitions THEN acked \cup {call[s].proof} ELSE acked
    /\ pc' = [pc EXCEPT ![s] = "ready"]
    /\ call' = [call EXCEPT ![s] = NoCall]
    /\ UNCHANGED <<events, protected, used, store, device>>

\* SQLite is full or busy, or fails to read: the projection row of observe_binding, the
\* append before its commit, the history that is answered.
StorageFails(s) ==
    /\ "storage" \in Faults
    /\ pc[s] \in {"authorize", "append", "commit", "reply"}
    /\ protected' \in IF pc[s] = "append" THEN {protected, Repaired} ELSE {protected}
    /\ Fail(s)
    /\ UNCHANGED <<events, used, device>>

-----------------------------------------------------------------------------
(***************************************************************************)
(* The environment                                                         *)
(***************************************************************************)
\* The process stops; the renderer and everything in memory go with it.
Crash(s) ==
    /\ "crash" \in Faults
    /\ pc[s] # "closed"
    /\ pc' = [pc EXCEPT ![s] = "closed"]
    /\ call' = [call EXCEPT ![s] = NoCall]
    /\ answers' = [answers EXCEPT ![s] = {}]
    /\ UNCHANGED <<events, protected, used, acked, store, device>>

CustodyChange ==
    /\ "custody" \in Faults
    /\ custody' = ~custody
    /\ UNCHANGED <<events, protected, posture, grant, used, acked, pc, store, call, answers>>

PostureChange ==
    /\ posture' \in Postures \ {posture}
    /\ UNCHANGED <<events, protected, custody, grant, used, acked, pc, store, call, answers>>

Next ==
    \/ \E s \in Stores :
          \/ Open(s) \/ Read(s)
          \/ \E on \in answers[s], r \in Receipts : Transition(s, on, r)
          \/ Authorize(s) \/ Refuse(s) \/ LoseApproval(s)
          \/ Prepare(s) \/ PrepareRefused(s) \/ Commit(s) \/ Anchor(s) \/ Reply(s)
          \/ StorageFails(s) \/ Crash(s)
    \/ CustodyChange \/ PostureChange

Spec == Init /\ [][Next]_vars
-----------------------------------------------------------------------------
(***************************************************************************)
(* Properties                                                              *)
(***************************************************************************)
\* Every variable stays in its type: a store holds a projection and a posture it
\* observed, a command the snapshot and the receipt it came with (the fields of
\* AdvancedPreferenceStore and AdvancedPreferenceTransition).
TypeOK ==
    /\ events \in Seq(Event)
    /\ protected \in Nat
    /\ custody \in BOOLEAN
    /\ posture \in Postures
    /\ grant \in [Receipts -> [action : Transitions, posture : Postures]]
    /\ used \subseteq Receipts
    /\ acked \subseteq Receipts
    /\ pc \in [Stores -> Stages]
    /\ store \in [Stores -> Store]
    /\ call \in [Stores -> Call]
    /\ answers \in [Stores -> SUBSET Answer]

\* Whatever commands, stores and failures came before, the next start can replay the
\* journal: no receipt backs two events, and no event is one that its predecessors do
\* not allow (load_validated_events and reduce_projection, which open calls).
JournalReplays == Loadable(events)

\* A transition in the journal was authenticated for just what it did: its receipt was
\* issued for that action and for the posture the event binds the preference to
\* (transition, authorize, consume_advanced_preference_approval).
TransitionsAreGranted ==
    \A i \in DOMAIN events :
        events[i].proof # NoReceipt =>
            /\ events[i].proof \in used
            /\ grant[events[i].proof] =
                 [action |-> IF events[i].kind = "enabled" THEN "enable" ELSE "revoke",
                  posture |-> events[i].posture]

\* A transition is appended only to the very journal whose snapshot the renderer had
\* when it asked for it, however late the command arrived and whatever was appended
\* in between or by the command itself (expected_sequence in transition).
TransitionsActOnWhatWasShown ==
    [][Len(events') > Len(events) /\ events'[Len(events')].proof # NoReceipt =>
          \E s \in Stores : /\ pc[s] = "commit"
                            /\ call[s].proof = events'[Len(events')].proof
                            /\ call[s].on.state = StateOf(events)
                            /\ call[s].on.sequence = Len(events)]_vars

\* No store's projection runs ahead of the protected head, whatever fails between the
\* commit of an event and the head: what is answered survives the loss of an
\* unprotected row (the order of the last statements of append_event).
ProjectionIsProtected ==
    \A s \in Stores : pc[s] # "closed" => store[s].count <= protected

\* However two stores interleave and wherever one of them stops, the journal is never
\* more than one event ahead of its protected head: the next verifier repairs it and
\* does not lock it (append_event, assess_integrity).
LagIsRepairable == Len(events) - protected \in {0, 1}

\* A start that succeeds leaves the store with the whole journal, and with an enabled
\* preference only when it is bound to the posture the start observed (open).
StartsCurrent ==
    [][\A s \in Stores :
          pc[s] \in {"closed", "anchor"} /\ pc'[s] = "ready" /\ call'[s].op = "open" =>
             /\ store'[s].state = StateOf(events')
             /\ store'[s].count = Len(events')
             /\ store'[s].bound = store'[s].current]_vars

\* The plan of the phase: "every high-risk admission revalidate[s] the persisted
\* device/posture binding before projecting enabled state".  A snapshot that says
\* enabled was answered to a command that observed the posture the preference was
\* enabled for (observe_binding, project_advanced_preference).
EnabledIsBoundToObserved ==
    \A s \in Stores :
        pc[s] = "reply" /\ store[s].state = "enabled" => store[s].bound = store[s].current

\* The test concurrent_enable_attempts_serialize_to_one_durable_event: of the callers
\* that race to append, the one whose event is durable is answered Ok.
DurableTransitionsAreAnswered ==
    (\A s \in Stores : pc[s] \in {"closed", "ready"}) =>
        Proofs(events) \ {NoReceipt} \subseteq acked
=============================================================================
