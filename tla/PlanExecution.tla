----------------------------- MODULE PlanExecution -----------------------------
(***************************************************************************)
(* The transaction executor of the desktop application: PlanExecutor and   *)
(* NativePhysicalExecutionAuthority (plan_executor.rs) around the engine   *)
(* of crates/plan-engine (executor.rs, reconcile.rs), writing to the       *)
(* recovery journal and mutating Windows through the optimizer broker.     *)
(*                                                                         *)
(* An execution writes its intent before it asks the broker for the        *)
(* mutation, and concludes from what it then observes of Windows.  The     *)
(* process may stop between any two of these steps; the next start looks   *)
(* for one pending transaction and settles it by observation alone.        *)
(*                                                                         *)
(* One call runs at a time (the authority sits behind a mutex).  The       *)
(* journal's appends have the outcomes module RecoveryJournal derives: a   *)
(* row is durable and reported so, or not durable, or durable although the *)
(* append reported an error; once a verdict on the chain is bad, the store *)
(* stays read-only until the process restarts.                             *)
(*                                                                         *)
(* Hashes, identifiers and time stamps are abstracted: a record id is the  *)
(* transaction, the chain of artifacts it was built for and its state.     *)
(***************************************************************************)
EXTENDS Integers, Sequences, FiniteSets

CONSTANTS Transactions,  \* transaction ids of approved plans
          Schemes,       \* exact power scheme states of Windows
          Prior,         \* the state each transaction starts from
          Requested,     \* the state each transaction asks for
          Operation,     \* "Apply" or "Restore", from the transaction's intent
          Unadmitted     \* transactions of an operation version that is not admitted

Unknown == "unknown"     \* the scheme of a read that established nothing
NoTxn == "none"

ASSUME ConstantsAssumption ==
    /\ Prior \in [Transactions -> Schemes]
    /\ Requested \in [Transactions -> Schemes]
    /\ Operation \in [Transactions -> {"Apply", "Restore"}]
    /\ Unadmitted \subseteq Transactions
    /\ Unknown \notin Schemes
    /\ NoTxn \notin Transactions

VARIABLES transactions,      \* plan-transaction rows
          journal,           \* journal-event rows, in the order they were appended
          receipts,          \* transaction-receipt rows
          store,             \* mutation_state of the RecoveryStore
          windows,           \* the active power scheme
          broker,            \* each mutation, in the broker's hands
          up,                \* the process runs
          snapshot,          \* ExecutionSnapshot
          acceptingNewWork,  \* accepting_new_work of the PlanExecutor
          call,              \* the running execute or reconcile_pending
          dispatches         \* history: mutations handed to the broker

durable == <<transactions, journal, receipts>>
vars == <<transactions, journal, receipts, store, windows, broker, up, snapshot,
          acceptingNewWork, call, dispatches>>

Terminal == {"verified", "restored", "not-applied", "drift", "conflict"}
Verdict == Terminal \cup {"unknown"}
Chains == {"native", "uncertain", "recovery"}

Event == [txn : Transactions, chain : Chains, sequence : Nat,
          state : Verdict \cup {"prepared", "dispatch-returned", "observed"},
          observed : Schemes \cup {Unknown}]

Snapshot == [txn : Transactions \cup {NoTxn}, accepts : BOOLEAN,
             state : {"Idle", "Applying", "RecoveryRequired", "Verified", "Restored",
                      "Unknown", "Conflict", "JournalUnavailable"}]

Call == [at : {"idle", "transaction", "prepare", "dispatch", "await", "returned",
               "observe", "observed", "verdict", "receipt"},
         txn : Transactions \cup {NoTxn}, chain : Chains, sequence : Int,
         observed : Schemes \cup {Unknown}]

NoCall == [at |-> "idle", txn |-> NoTxn, chain |-> "native", sequence |-> -1,
           observed |-> Unknown]
DefaultSnapshot == [txn |-> NoTxn, state |-> "Idle", accepts |-> TRUE]

-----------------------------------------------------------------------------
(***************************************************************************)
(* Reading the journal                                                     *)
(***************************************************************************)
EventsOf(t) == {i \in DOMAIN journal : journal[i].txn = t}

\* load_recovery keeps one event of the whole journal: the highest sequence number,
\* the later row on a tie, whatever transaction it belongs to.
IsLatest(i) ==
    \A j \in DOMAIN journal :
        journal[j].sequence < journal[i].sequence
          \/ (journal[j].sequence = journal[i].sequence /\ j <= i)

\* Mutant: an unknown verdict concludes a transaction.
PendingUnlessConcluded(i) == IsLatest(i) /\ journal[i].state \notin Verdict

Pending(i) == IsLatest(i) /\ journal[i].state \notin Terminal
Clear == \A i \in DOMAIN journal : ~Pending(i)

Accepts == up /\ call.at = "idle" /\ acceptingNewWork /\ snapshot.accepts

\* reconcile of an exact observation.
\* Mutant: a state that is not the prior one is taken for the requested one.
ReconcileByPrior(t, observed) ==
    IF observed = Unknown THEN "unknown"
    ELSE IF observed = Prior[t] THEN "not-applied"
    ELSE IF Operation[t] = "Apply" THEN "verified" ELSE "restored"

Reconcile(t, observed) ==
    LET applies == Operation[t] = "Apply"
    IN  IF observed = Unknown THEN "unknown"
        ELSE IF observed = Requested[t] THEN IF applies THEN "verified" ELSE "restored"
        ELSE IF observed = Prior[t] THEN "not-applied"
        ELSE IF applies THEN "drift" ELSE "conflict"

ReceiptEligible(verdict) == verdict \in {"verified", "restored"}

\* snapshot_from_outcome of a verdict.
StateOf(verdict) ==
    CASE verdict = "verified" -> "Verified"
      [] verdict = "restored" -> "Restored"
      [] verdict = "unknown" -> "Unknown"
      [] verdict \in {"drift", "conflict"} -> "Conflict"
      [] OTHER -> "RecoveryRequired"

-----------------------------------------------------------------------------
(***************************************************************************)
(* Appending to the journal                                                *)
(***************************************************************************)
\* The next event of the running call, chained to its last one by append_next.
EventOf(state) ==
    [txn |-> call.txn, chain |-> call.chain, sequence |-> call.sequence + 1,
     state |-> state, observed |-> call.observed]

\* validate_relationships and the unique record id of the store.
Acceptable(e) ==
    /\ e.txn \in transactions
    /\ \A i \in EventsOf(e.txn) :
          /\ journal[i].sequence < e.sequence
          /\ journal[i].chain # e.chain \/ journal[i].state # e.state
    /\ e.sequence = 0 \/ \E i \in EventsOf(e.txn) : journal[i].sequence + 1 = e.sequence

\* The three outcomes of an append: ok, and an error with the row durable or not.
Appended == store = "Writable" /\ UNCHANGED store
ReportedLost == store = "Writable" /\ store' = "ReadOnly"
NotAppended == store' \in {store, "ReadOnly"}

-----------------------------------------------------------------------------
(***************************************************************************)
(* Ends of a call                                                          *)
(***************************************************************************)
\* The engine returned an outcome; its gate is Open only with a stored receipt.
Return(state, open) ==
    /\ snapshot' = [txn |-> call.txn, state |-> state, accepts |-> open]
    /\ acceptingNewWork' = open
    /\ call' = NoCall

\* Mutant: a failed append does not close the gate.
JournalFailureOpen == Return("JournalUnavailable", TRUE)

JournalFailure == Return("JournalUnavailable", FALSE)

\* The engine returned Err: execute leaves the snapshot as it had set it.
InvalidRequest == call' = NoCall /\ UNCHANGED <<snapshot, acceptingNewWork>>

Proceed(at) ==
    /\ call' = [call EXCEPT !.at = at]
    /\ UNCHANGED <<snapshot, acceptingNewWork>>

ProceedAfterEvent(at) ==
    /\ call' = [call EXCEPT !.at = at, !.sequence = @ + 1]
    /\ UNCHANGED <<snapshot, acceptingNewWork>>

-----------------------------------------------------------------------------
Init ==
    /\ transactions = {} /\ journal = <<>> /\ receipts = {}
    /\ store = "Writable"
    /\ windows \in Schemes
    /\ broker = [t \in Transactions |-> "none"]
    /\ up = FALSE
    /\ snapshot = DefaultSnapshot
    /\ acceptingNewWork = TRUE
    /\ call = NoCall
    /\ dispatches = [t \in Transactions |-> 0]

(***************************************************************************)
(* Startup and resume: observation-first reconciliation                    *)
(***************************************************************************)
\* reconcile_transaction: the observation follows the pending event.
Recovery(i) ==
    [at |-> "observe", txn |-> journal[i].txn, chain |-> "recovery",
     sequence |-> journal[i].sequence, observed |-> Unknown]

ReconcileStartup ==
    \/ /\ Clear
       /\ snapshot' = DefaultSnapshot
       /\ UNCHANGED call
    \/ \E i \in DOMAIN journal :
          /\ Pending(i)
          /\ call' = Recovery(i)
          /\ UNCHANGED snapshot

\* setup: the store opens writable (a lag of one row is repaired) or the process exits.
Start ==
    /\ ~up
    /\ up' = TRUE
    /\ ReconcileStartup
    /\ UNCHANGED <<durable, store, windows, broker, acceptingNewWork, dispatches>>

\* reconcile_physical_on_resume; with nothing pending accepting_new_work stays as it is.
Resume ==
    /\ up /\ call.at = "idle" /\ ~Accepts
    /\ ReconcileStartup
    /\ UNCHANGED <<durable, store, windows, broker, up, acceptingNewWork, dispatches>>

-----------------------------------------------------------------------------
(***************************************************************************)
(* Execution of one transaction                                            *)
(***************************************************************************)
\* The states an execution can stop in before it wrote anything: recovery has priority,
\* the operation is not admitted, the prior state is unknown or is not the expected one.
Refusals(t) ==
    IF ~Clear \/ (Operation[t] = "Apply" /\ t \in Unadmitted) THEN {"RecoveryRequired"}
    ELSE {"Unknown"} \cup (IF windows = Prior[t] THEN {} ELSE {"Conflict"})

Refuse(t) ==
    /\ Accepts
    /\ \E state \in Refusals(t) :
          snapshot' = [txn |-> t, state |-> state, accepts |-> FALSE]
    /\ acceptingNewWork' = FALSE
    /\ UNCHANGED <<durable, store, windows, broker, up, call, dispatches>>

Begin(t) ==
    /\ Accepts
    /\ "Unknown" \in Refusals(t) /\ windows = Prior[t]
    /\ snapshot' = [txn |-> t, state |-> "Applying", accepts |-> FALSE]
    /\ call' = [NoCall EXCEPT !.at = "transaction", !.txn = t]
    /\ UNCHANGED <<durable, store, windows, broker, up, acceptingNewWork, dispatches>>

\* append_prepared: the transaction row, whose id is unique, then the prepared event.
AppendTransaction ==
    /\ call.at = "transaction"
    /\ \/ /\ Appended /\ call.txn \notin transactions
          /\ transactions' = transactions \cup {call.txn}
          /\ Proceed("prepare")
       \/ /\ ReportedLost /\ call.txn \notin transactions
          /\ transactions' = transactions \cup {call.txn}
          /\ JournalFailure
       \/ /\ NotAppended
          /\ UNCHANGED transactions
          /\ JournalFailure
    /\ UNCHANGED <<journal, receipts, windows, broker, up, dispatches>>

\* An append of the event that takes the call to the step next.
AppendEvent(state, next) ==
    LET e == EventOf(state)
    IN  /\ \/ /\ Appended /\ Acceptable(e)
              /\ journal' = Append(journal, e)
              /\ next
           \/ /\ ReportedLost /\ Acceptable(e)
              /\ journal' = Append(journal, e)
              /\ JournalFailure
           \/ /\ NotAppended
              /\ UNCHANGED journal
              /\ JournalFailure
        /\ UNCHANGED <<transactions, receipts, windows, broker, up, dispatches>>

AppendPrepared ==
    call.at = "prepare" /\ AppendEvent("prepared", ProceedAfterEvent("dispatch"))

\* broker.mutate: the request leaves and the call waits for the answer.
\* Mutant: a call that waits asks once more.
DispatchAgain ==
    /\ call.at \in {"dispatch", "await"}
    /\ Proceed("await")
    /\ broker' = [broker EXCEPT ![call.txn] = "inTransit"]
    /\ dispatches' = [dispatches EXCEPT ![call.txn] = @ + 1]
    /\ UNCHANGED <<durable, store, windows, up>>

Dispatch ==
    /\ call.at = "dispatch"
    /\ Proceed("await")
    /\ broker' = [broker EXCEPT ![call.txn] = "inTransit"]
    /\ dispatches' = [dispatches EXCEPT ![call.txn] = @ + 1]
    /\ UNCHANGED <<durable, store, windows, up>>

\* An accepted or a rejected response.
DispatchReturns ==
    /\ call.at = "await"
    /\ broker[call.txn] \in {"accepted", "rejected"}
    /\ broker' = [broker EXCEPT ![call.txn] = "none"]
    /\ Proceed("returned")
    /\ UNCHANGED <<durable, store, windows, up, dispatches>>

AppendReturned ==
    call.at = "returned" /\ AppendEvent("dispatch-returned", ProceedAfterEvent("observe"))

\* Nobody waits any more: what is in transit stays so, an answer is dropped.
InTransit == [t \in Transactions |-> IF broker[t] = "inTransit" THEN "inTransit" ELSE "none"]

\* Mutant: no deadline, the wait ends with an answer only.
DispatchTimesOutAnswered ==
    /\ call.at = "await" /\ broker[call.txn] # "inTransit"
    /\ call' = [call EXCEPT !.at = "observe", !.chain = "uncertain"]
    /\ broker' = InTransit
    /\ UNCHANGED <<durable, store, windows, up, snapshot, acceptingNewWork, dispatches>>

\* No valid response in time: the artifacts of the uncertain chain take over.
DispatchTimesOut ==
    /\ call.at = "await"
    /\ call' = [call EXCEPT !.at = "observe", !.chain = "uncertain"]
    /\ broker' = InTransit
    /\ UNCHANGED <<durable, store, windows, up, snapshot, acceptingNewWork, dispatches>>

-----------------------------------------------------------------------------
(***************************************************************************)
(* Observation and verdict, of an execution and of a recovery              *)
(***************************************************************************)
\* What the prepared artifacts hold before an observation is bound to them.
Prebound == IF call.chain = "native" THEN Requested[call.txn] ELSE Unknown

\* observe_bounded: an exact state, an unknown state, or every read of the limit failed.
Observe ==
    /\ call.at = "observe"
    /\ \E seen \in {windows, Unknown, Prebound} :
          call' = [call EXCEPT !.at = "observed", !.observed = seen]
    /\ UNCHANGED <<durable, store, windows, broker, up, snapshot, acceptingNewWork, dispatches>>

AppendObserved ==
    call.at = "observed" /\ AppendEvent("observed", ProceedAfterEvent("verdict"))

\* Mutant: concludes from Windows as it is now, not as it was observed.
AppendVerdictReread ==
    LET verdict == Reconcile(call.txn, windows)
    IN  /\ call.at = "verdict"
        /\ AppendEvent(verdict, IF ReceiptEligible(verdict) THEN ProceedAfterEvent("receipt")
                                ELSE Return(StateOf(verdict), FALSE))

\* finalize_observation up to the verdict event; any other verdict closes the gate.
AppendVerdict ==
    LET verdict == Reconcile(call.txn, call.observed)
    IN  /\ call.at = "verdict"
        /\ AppendEvent(verdict, IF ReceiptEligible(verdict) THEN ProceedAfterEvent("receipt")
                                ELSE Return(StateOf(verdict), FALSE))

\* Mutant: reports the verdict without waiting for the receipt's append.
StoreReceiptUnchecked ==
    /\ call.at = "receipt"
    /\ IF call.chain = "uncertain" THEN InvalidRequest /\ UNCHANGED <<receipts, store>>
       ELSE \/ Appended /\ receipts' = receipts \cup {call.txn}
            \/ NotAppended /\ UNCHANGED receipts
    /\ call.chain # "uncertain" => Return(StateOf(Reconcile(call.txn, call.observed)), TRUE)
    /\ UNCHANGED <<transactions, journal, windows, broker, up, dispatches>>

\* validate_receipt compares the receipt's head with the verdict's hash: the receipt of
\* an execution was built for the native chain, so an uncertain chain always fails it.
StoreReceipt ==
    /\ call.at = "receipt"
    /\ \/ /\ call.chain = "uncertain"
          /\ InvalidRequest
          /\ UNCHANGED <<receipts, store>>
       \/ /\ call.chain # "uncertain"
          /\ Appended
          /\ receipts' = receipts \cup {call.txn}
          /\ Return(StateOf(Reconcile(call.txn, call.observed)), TRUE)
       \/ /\ call.chain # "uncertain"
          /\ ReportedLost
          /\ receipts' = receipts \cup {call.txn}
          /\ JournalFailure
       \/ /\ call.chain # "uncertain"
          /\ NotAppended
          /\ UNCHANGED receipts
          /\ JournalFailure
    /\ UNCHANGED <<transactions, journal, windows, broker, up, dispatches>>

-----------------------------------------------------------------------------
(***************************************************************************)
(* The process, the broker and Windows                                     *)
(***************************************************************************)
\* begin_shutdown, when the application exits.
Shutdown ==
    /\ up /\ call.at = "idle"
    /\ acceptingNewWork' = FALSE
    /\ snapshot' = [snapshot EXCEPT !.accepts = FALSE]
    /\ UNCHANGED <<durable, store, windows, broker, up, call, dispatches>>

\* The process ends, between any two steps; PlanExecutor::new and RecoveryStore::open
\* start from these values.
Crash ==
    /\ up
    /\ up' = FALSE
    /\ snapshot' = DefaultSnapshot
    /\ acceptingNewWork' = TRUE
    /\ call' = NoCall
    /\ broker' = InTransit
    /\ store' = "Writable"
    /\ UNCHANGED <<durable, windows, dispatches>>

\* An answer is heard only by the call that waits for it.
Answer(t, answers) ==
    \E answer \in answers :
        broker' = [broker EXCEPT ![t] = IF call.at = "await" /\ call.txn = t THEN answer
                                        ELSE "none"]

\* The broker acts on the request now or long after the call stopped waiting, and only
\* from the expected scheme; an error of an effect is no response, whether it acted or not.
BrokerHandles(t) ==
    /\ broker[t] = "inTransit"
    /\ \/ windows = Prior[t] /\ windows' = Requested[t] /\ Answer(t, {"accepted", "none"})
       \/ windows' = windows /\ Answer(t, {"rejected", "none"})
    /\ UNCHANGED <<durable, store, up, snapshot, acceptingNewWork, call, dispatches>>

\* Somebody else changes the active scheme.
Drift ==
    /\ \E s \in Schemes \ {windows} : windows' = s
    /\ UNCHANGED <<durable, store, broker, up, snapshot, acceptingNewWork, call,
                   dispatches>>

CallStep ==
    \/ AppendTransaction \/ AppendPrepared \/ Dispatch
    \/ DispatchReturns \/ AppendReturned \/ DispatchTimesOut
    \/ Observe \/ AppendObserved \/ AppendVerdict \/ StoreReceipt

Next ==
    \/ Start \/ Resume \/ Shutdown \/ Crash
    \/ \E t \in Transactions : Refuse(t) \/ Begin(t) \/ BrokerHandles(t)
    \/ CallStep
    \/ Drift

\* A running call is never abandoned: it holds the mutex, every wait of the broker
\* client ends in a response or a timeout.
Spec == Init /\ [][Next]_vars /\ WF_vars(CallStep)
-----------------------------------------------------------------------------
(***************************************************************************)
(* Properties                                                              *)
(***************************************************************************)
\* Every variable stays in its type; a call is running exactly at its steps, and only a
\* running process has one (the mutex around the authority).
TypeOK ==
    /\ transactions \subseteq Transactions
    /\ journal \in Seq(Event)
    /\ receipts \subseteq Transactions
    /\ store \in {"Writable", "ReadOnly"}
    /\ windows \in Schemes
    /\ broker \in [Transactions -> {"none", "inTransit", "accepted", "rejected"}]
    /\ up \in BOOLEAN
    /\ snapshot \in Snapshot
    /\ acceptingNewWork \in BOOLEAN
    /\ call \in Call
    /\ (call.at = "idle" <=> call.txn = NoTxn) /\ (call.at # "idle" => up)
    /\ dispatches \in [Transactions -> Nat]

Has(t, states) == \E i \in EventsOf(t) : journal[i].state \in states
Settled(t) == Has(t, Terminal)

PhaseOf(t) == IF Settled(t) THEN "settled"
              ELSE IF Has(t, {"observed"}) THEN "observed"
              ELSE IF Has(t, {"prepared"}) THEN "prepared"
              ELSE "none"
VerdictIn(events) == (CHOOSE e \in events : e.state \in Terminal).state
VerdictOf(t) == IF Settled(t) THEN VerdictIn({journal[i] : i \in EventsOf(t)}) ELSE "none"

\* Across crashes, lost answers, appends that lie and any number of recoveries, a
\* mutation leaves at most once, only behind its durable prepared event and never after
\* an observation, and the first terminal verdict is the last (execute,
\* reconcile_startup: observation only, allows_automatic_retry is false).
Lifecycle(t) == INSTANCE TransactionLifecycle WITH
    Verdicts <- Terminal,
    phase <- PhaseOf(t), sends <- dispatches[t], verdict <- VerdictOf(t)
FollowsLifecycle ==
    /\ \A t \in Transactions : Lifecycle(t)!Init
    /\ [][\A t \in Transactions : UNCHANGED Lifecycle(t)!vars \/ Lifecycle(t)!Next]_vars

\* The events of a transaction count up from its prepared event; a verdict stands right
\* behind the observation it rests on and says of it what reconcile says, whichever of
\* the native, uncertain and recovery chains its events come from (append_next,
\* validate_relationships, bind_observation_artifacts).
VerdictFollowsObservation ==
    \A i \in DOMAIN journal :
        journal[i].state \in Verdict =>
            \E j \in EventsOf(journal[i].txn) :
                /\ journal[j].state = "observed"
                /\ journal[j].chain = journal[i].chain
                /\ journal[j].sequence = journal[i].sequence - 1
                /\ journal[j].observed = journal[i].observed
                /\ journal[i].state = Reconcile(journal[i].txn, journal[j].observed)

\* A receipt certifies a transaction whose last event is a success verdict on exactly
\* the requested state (validate_receipt, validate_receipt_head).
ReceiptCertifiesRequested ==
    \A t \in receipts :
        \E i \in EventsOf(t) :
            /\ ReceiptEligible(journal[i].state)
            /\ journal[i].observed = Requested[t]
            /\ \A j \in EventsOf(t) : journal[j].sequence <= journal[i].sequence

\* Success is never shown before its receipt is durable, also not when an append failed
\* or the store turned read-only on the way (finalize_observation).
SuccessShownIsDurable ==
    snapshot.state \in {"Verified", "Restored"} => snapshot.txn \in receipts

\* While new work is accepted load_recovery has nothing to report, so the recovery
\* check of an execution never stops a transaction the gate let through.
GateAgreesWithRecovery == Accepts => Clear

\* What the gate may overlook: an unsettled transaction is behind it only when another
\* transaction's terminal event has a sequence number at least as high (load_recovery
\* keeps one event of the whole journal).
OverlookedOnlyIfOutrun ==
    Accepts => \A t \in Transactions :
        Has(t, {"prepared"}) /\ ~Settled(t) =>
            \E i \in DOMAIN journal :
                /\ journal[i].txn # t /\ journal[i].state \in Terminal
                /\ \A j \in EventsOf(t) : journal[j].sequence <= journal[i].sequence

\* A call always returns and gives the mutex back, also when the broker never answers.
CallReturns == call.at # "idle" ~> call.at = "idle"

(***************************************************************************)
(* Claims of the repository that the code does not keep                    *)
(***************************************************************************)
\* "Pending or unverifiable state closes admission" (PlanExecutor::reconcile_startup).
PendingClosesAdmission ==
    Accepts => \A t \in Transactions : Has(t, {"prepared"}) => Settled(t)

\* "A broker return, rejection, timeout, or lost response is diagnostic only. Exact
\* post-effect observation selects" the verdict (execute).
VerdictRestsOnObservation ==
    [][(call.at = "observe" /\ call'.at = "observed" /\ call'.observed # Unknown)
          => call'.observed = windows]_vars

\* "A verdict append or receipt failure remains recovery-pending rather than
\* successful" (finalize_observation, load_recovery).
ReceiptFailureStaysPending ==
    Accepts => \A t \in Transactions : Has(t, {"verified", "restored"}) => t \in receipts
=============================================================================
