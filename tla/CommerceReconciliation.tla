------------------------ MODULE CommerceReconciliation ------------------------
(***************************************************************************)
(* Commerce of the control plane: one customer of the payment provider,    *)
(* the provider's events, the requests that reconcile them                 *)
(* (reconcile-commerce.ts with the PostgreSQL repository of                *)
(* runtime-authorities.ts and the Stripe adapter) and the commands of the  *)
(* account page (manage-subscription.ts with the transitions of            *)
(* subscription.ts).                                                       *)
(*                                                                         *)
(* A request claims an event in the inbox, asks the provider for the       *)
(* current state outside any transaction, and only then takes the locks    *)
(* and writes.  The provider repeats an event until an answer accepts it   *)
(* and may have several deliveries of it under way.  Database transactions *)
(* are serializable: each is one step, or it fails.  A management command  *)
(* calls the provider inside its transaction, which then fails when the    *)
(* row it read has changed.                                                *)
(*                                                                         *)
(* Event r announces revision r of the provider's state.  Prices, dates,   *)
(* invoices other than the one the lifecycle depends on, audit receipts    *)
(* and notices are left out.                                               *)
(***************************************************************************)
EXTENDS Naturals, FiniteSets

CONSTANTS Workers,        \* requests of the webhook that may run at once
          Subscriptions,  \* the provider's subscriptions of the customer, numbered
          Commands,       \* identifiers of management commands
          Kinds,          \* the management actions used
          StripeAdapter,  \* TRUE: stripe-provider.ts; FALSE: all the port allows
          GracePeriod,    \* SUBSCRIPTION_GRACE_PERIOD_MS in ticks
          Period,         \* length of a paid period in ticks
          MaxTime,        \* bound: the clock
          MaxRevision,    \* bound: changes of the provider's state
          MaxVersion,     \* bound: versions of the subscription row
          MaxLosses       \* bound: requests that stop before they answer

ASSUME CommerceAssumption ==
    /\ Subscriptions \subseteq Nat \ {0}
    /\ Kinds \subseteq {"start-checkout", "checkout-returned", "cancel", "undo-cancel", "refund"}
    /\ StripeAdapter \in BOOLEAN
    /\ GracePeriod \in Nat \ {0} /\ Period \in Nat
    /\ MaxTime \in Nat /\ MaxRevision \in Nat /\ MaxVersion \in Nat /\ MaxLosses \in Nat

VARIABLES now,          \* the clock of the provider and of the service
          truth,        \* the provider's state of the customer's latest subscription
          rev,          \* its revision
          owed,         \* events no answer has accepted
          inbox,        \* provider_inbox.processing_state, by event
          worker,       \* the requests that reconcile
          row,          \* runtime_aggregates 'subscription': the account's subscription
          entitlement,  \* premium_entitlements, by subscription
          command,      \* the management commands
          writes,       \* history: changes of row
          applied,      \* history: revision of the snapshot last reconciled
          newest,       \* history: the newest revision ever reconciled
          dismissed,    \* history: events a delivery of which was accepted during another
          paid,         \* history: subscriptions the provider ever reported active
          losses        \* requests that have stopped before they answered

vars == <<now, truth, rev, owed, inbox, worker, row, entitlement, command,
          writes, applied, newest, dismissed, paid, losses>>

NoSub == 0
Never == MaxTime + GracePeriod + Period + 1   \* a time that is not set
Event == 1 .. MaxRevision
Time == 0 .. MaxTime
Later == 0 .. Never

ProviderStates == {"active", "past-due", "unpaid", "canceled", "expired"}
InvoiceStates == {"paid", "refunded", "disputed"}
InboxStates == {"absent", "processing", "processed", "retryable"}
Statuses == {"free", "payment-pending", "active", "grace", "canceled", "expired",
             "refund-review", "disputed"}

Truth == [sub : Subscriptions \cup {NoSub}, state : ProviderStates, cancel : BOOLEAN,
          failedAt : Later, until : Later, invoice : InvoiceStates]
NoTruth == [sub |-> NoSub, state |-> "expired", cancel |-> FALSE, failedAt |-> Never,
            until |-> 0, invoice |-> "paid"]

\* What retrieveCurrentState answered: the truth of a revision, read at a time.
Snapshot == [of : Truth, rev : 0 .. MaxRevision, at : Time]
NoSnapshot == [of |-> NoTruth, rev |-> 0, at |-> 0]

Worker == [at : {"idle", "retrieve", "commit", "failing"}, event : 0 .. MaxRevision,
           snap : Snapshot]
Idle == [at |-> "idle", event |-> 0, snap |-> NoSnapshot]

\* reconciliationFingerprint; version 0 is the state of an account without a row.
Fingerprint == [sub : Subscriptions \cup {NoSub}, status : Statuses, cancel : BOOLEAN,
                ends : Later, until : Later, invoice : InvoiceStates]
NoFingerprint == [sub |-> NoSub, status |-> "free", cancel |-> FALSE, ends |-> Never,
                  until |-> 0, invoice |-> "paid"]
Row == [sub : Subscriptions \cup {NoSub}, ver : 0 .. MaxVersion, plan : {"free", "premium"},
        status : Statuses, premium : BOOLEAN, cancel : BOOLEAN, ends : Later, until : Later,
        fingerprint : Fingerprint]
NoRow == [sub |-> NoSub, ver |-> 0, plan |-> "free", status |-> "free", premium |-> FALSE,
          cancel |-> FALSE, ends |-> Never, until |-> 0, fingerprint |-> NoFingerprint]

Entitlement == [status : {"none", "active", "grace", "expired"}, allow : BOOLEAN,
                ver : 0 .. MaxVersion]
NoEntitlement == [status |-> "none", allow |-> FALSE, ver |-> 0]

\* A command carries the version its client read; stamp counts the writes the client had seen,
\* base, read and since are the row, its writes and the time its transaction read.
Command == [at : {"unused", "sent", "calling", "saving", "done"},
            kind : Kinds \cup {"none"}, expects : 0 .. MaxVersion, stamp : Nat,
            base : Row, read : Nat, since : Time]
Unused == [at |-> "unused", kind |-> "none", expects |-> 0, stamp |-> 0, base |-> NoRow, read |-> 0,
           since |-> 0]
Done == [Unused EXCEPT !.at = "done"]

Init ==
    /\ now = 0
    /\ truth = NoTruth
    /\ rev = 0
    /\ owed = {}
    /\ inbox = [e \in Event |-> "absent"]
    /\ worker = [w \in Workers |-> Idle]
    /\ row = NoRow
    /\ entitlement = [s \in Subscriptions |-> NoEntitlement]
    /\ command = [c \in Commands |-> Unused]
    /\ writes = 0 /\ applied = 0 /\ newest = 0 /\ dismissed = {} /\ paid = {} /\ losses = 0

-----------------------------------------------------------------------------
(***************************************************************************)
(* The provider                                                            *)
(***************************************************************************)
Tick ==
    /\ now < MaxTime
    /\ now' = now + 1
    /\ UNCHANGED <<truth, rev, owed, inbox, worker, row, entitlement, command, writes,
                   applied, newest, dismissed, paid, losses>>

Publish(new) ==
    /\ rev < MaxRevision
    /\ new # truth
    /\ truth' = new
    /\ rev' = rev + 1
    /\ owed' = owed \cup {rev + 1}
    /\ paid' = IF new.state = "active" THEN paid \cup {new.sub} ELSE paid

\* A paid checkout starts a new subscription, which the provider lists first.
Subscribe ==
    /\ truth.state \in {"expired", "canceled"}
    /\ \E s \in Subscriptions :
          /\ s = truth.sub + 1
          /\ Publish([sub |-> s, state |-> "active", cancel |-> FALSE, failedAt |-> Never,
                      until |-> now + Period, invoice |-> "paid"])
    /\ UNCHANGED <<now, inbox, worker, row, entitlement, command, writes, applied, newest,
                   dismissed, losses>>

Renew == [truth EXCEPT !.state = "active", !.failedAt = Never, !.until = now + Period]
Fail(state) == [truth EXCEPT !.state = state, !.failedAt = now]
Settle(invoice) == [truth EXCEPT !.invoice = invoice]

ProviderChanges ==
    /\ truth.sub # NoSub
    /\ \/ truth.state \in {"active", "past-due", "unpaid"} /\ Publish(Renew)
       \/ truth.state = "active" /\ Publish(Fail("past-due"))
       \/ truth.state = "past-due" /\ Publish([truth EXCEPT !.state = "unpaid"])
       \/ truth.state # "canceled" /\ Publish([truth EXCEPT !.state = "canceled"])
       \/ \E invoice \in InvoiceStates : truth.invoice # "refunded" /\ Publish(Settle(invoice))
    /\ UNCHANGED <<now, inbox, worker, row, entitlement, command, writes, applied, newest,
                   dismissed, losses>>

-----------------------------------------------------------------------------
(***************************************************************************)
(* reconcileCommerce                                                       *)
(***************************************************************************)
\* Mutant: every answer accepts the event.
AnswerAccepting(w, accepted) ==
    /\ owed' = owed \ {worker[w].event}
    /\ worker' = [worker EXCEPT ![w] = Idle]

Answer(w, accepted) ==
    /\ owed' = IF accepted THEN owed \ {worker[w].event} ELSE owed
    /\ worker' = [worker EXCEPT ![w] = Idle]

\* Mutant: an event is claimed once and never again.
ClaimableOnce(e) == inbox[e] = "absent"

Claimable(e) == inbox[e] \in {"absent", "retryable"}

\* A delivery of event e: it is claimed, or answered as a duplicate.
Deliver(w, e) ==
    /\ worker[w].at = "idle" /\ e \in owed
    /\ IF Claimable(e)
       THEN /\ inbox' = [inbox EXCEPT ![e] = "processing"]
            /\ worker' = [worker EXCEPT ![w] = [at |-> "retrieve", event |-> e, snap |-> NoSnapshot]]
            /\ UNCHANGED <<owed, dismissed>>
       ELSE /\ owed' = owed \ {e}
            /\ dismissed' = IF inbox[e] = "processing" THEN dismissed \cup {e} ELSE dismissed
            /\ UNCHANGED <<inbox, worker>>
    /\ UNCHANGED <<now, truth, rev, row, entitlement, command, writes, applied, newest, paid,
                   losses>>

\* retrieveAuthority reports no refund and no dispute, and as the time of a failed payment
\* the time of the retrieval; the port allows what the provider knows.
Reported ==
    IF StripeAdapter
    THEN [truth EXCEPT !.failedAt = IF truth.state = "past-due" THEN now ELSE Never,
                       !.invoice = "paid"]
    ELSE [truth EXCEPT !.failedAt = IF truth.state = "past-due" THEN @ ELSE Never]

Retrieve(w) ==
    /\ worker[w].at = "retrieve"
    /\ worker' = [worker EXCEPT ![w].at = "commit",
                                ![w].snap = [of |-> Reported, rev |-> rev, at |-> now]]
    /\ UNCHANGED <<now, truth, rev, owed, inbox, row, entitlement, command, writes, applied,
                   newest, dismissed, paid, losses>>

\* The provider cannot be asked, or the transaction is rolled back.
ReconcileFails(w) ==
    /\ worker[w].at \in {"retrieve", "commit"}
    /\ worker' = [worker EXCEPT ![w].at = "failing", ![w].snap = NoSnapshot]
    /\ UNCHANGED <<now, truth, rev, owed, inbox, row, entitlement, command, writes, applied,
                   newest, dismissed, paid, losses>>

\* Mutant: grace ends with the paid period.
GraceEndsWithPeriod(s) == IF s.of.state = "past-due" THEN s.of.until ELSE Never

GraceEnds(s) == IF s.of.state = "past-due" THEN s.of.failedAt + GracePeriod ELSE Never

\* The status stateFromProvider derives from a snapshot.
StatusOf(s) ==
    CASE s.of.invoice = "refunded" -> "expired"
      [] s.of.invoice = "disputed" -> "disputed"
      [] s.of.invoice = "paid" /\ s.of.state = "active" -> "active"
      [] s.of.invoice = "paid" /\ s.of.state = "past-due" ->
            IF s.at < GraceEnds(s) THEN "grace" ELSE "expired"
      [] s.of.invoice = "paid" /\ s.of.state = "canceled" ->
            IF s.of.cancel /\ s.at < s.of.until THEN "active" ELSE "canceled"
      [] OTHER -> "expired"

Grants(status) == status \in {"active", "grace"}

FingerprintOf(s) ==
    [sub |-> s.of.sub, status |-> StatusOf(s), cancel |-> s.of.cancel,
     ends |-> IF s.of.invoice = "paid" THEN GraceEnds(s) ELSE Never,
     until |-> s.of.until, invoice |-> s.of.invoice]

RowOf(s, version) ==
    [sub |-> s.of.sub, ver |-> version, plan |-> "premium", status |-> StatusOf(s),
     premium |-> Grants(StatusOf(s)), cancel |-> s.of.cancel, ends |-> FingerprintOf(s).ends,
     until |-> s.of.until, fingerprint |-> FingerprintOf(s)]

EntitlementOf(s, version) ==
    [status |-> IF Grants(StatusOf(s)) THEN StatusOf(s) ELSE "expired",
     allow |-> Grants(StatusOf(s)), ver |-> version]

\* lockSubscription answers null for a row of another subscription, or of none.
Base(s) == IF row.sub = s.of.sub THEN row ELSE NoRow

Locked == \E c \in Commands : /\ command[c].at \in {"calling", "saving"}
                              /\ command[c].base # NoRow

\* Mutant: a period of a subscription is reconciled once.
SameFingerprintOfPeriod(s) ==
    Base(s).fingerprint.sub = s.of.sub /\ Base(s).fingerprint.until = s.of.until
SameFingerprint(s) == Base(s).fingerprint = FingerprintOf(s)

Write(s) ==
    IF SameFingerprint(s)
    THEN UNCHANGED <<row, entitlement, writes>>
    ELSE /\ Base(s).ver < MaxVersion
         /\ row' = RowOf(s, Base(s).ver + 1)
         /\ entitlement' = [entitlement EXCEPT ![s.of.sub] = EntitlementOf(s, Base(s).ver + 1)]
         /\ writes' = writes + 1

\* The reconciliation transaction, after which the caller may still see a failure.
Commit(w) ==
    LET s == worker[w].snap IN
    /\ worker[w].at = "commit"
    /\ s.of.sub # NoSub
    /\ ~Locked
    /\ Write(s)
    /\ applied' = s.rev
    /\ newest' = IF s.rev > newest THEN s.rev ELSE newest
    /\ inbox' = [inbox EXCEPT ![worker[w].event] = "processed"]
    /\ \/ Answer(w, TRUE)
       \/ worker' = [worker EXCEPT ![w].at = "failing", ![w].snap = NoSnapshot] /\ UNCHANGED owed
    /\ UNCHANGED <<now, truth, rev, command, dismissed, paid, losses>>

\* markProviderEventRetryable, and an answer that does not accept the event.
MarkRetryable(w) ==
    /\ worker[w].at = "failing"
    /\ inbox' = [inbox EXCEPT ![worker[w].event] = "retryable"]
    /\ Answer(w, FALSE)
    /\ UNCHANGED <<now, truth, rev, row, entitlement, command, writes, applied, newest, dismissed,
                   paid, losses>>

\* The process ends, or the database refuses even the marking: nobody answers.
Lose(w) ==
    /\ worker[w].at # "idle" /\ losses < MaxLosses
    /\ losses' = losses + 1
    /\ Answer(w, FALSE)
    /\ UNCHANGED <<now, truth, rev, inbox, row, entitlement, command, writes, applied, newest,
                   dismissed, paid>>

-----------------------------------------------------------------------------
(***************************************************************************)
(* manageSubscription                                                      *)
(***************************************************************************)
\* A client reads the account's subscription and sends a command for that version.
Send(c, kind) ==
    /\ command[c].at = "unused"
    /\ command' = [command EXCEPT ![c] = [at |-> "sent", kind |-> kind, expects |-> row.ver,
                                          stamp |-> writes, base |-> NoRow, read |-> 0, since |-> 0]]
    /\ UNCHANGED <<now, truth, rev, owed, inbox, worker, row, entitlement, writes, applied,
                   newest, dismissed, paid, losses>>

Current(c) == row.ver = command[c].expects
NeedsSubscription == {"cancel", "undo-cancel", "refund"}

\* The transaction reads the row; without one there is nothing to lock.
Load(c) ==
    /\ command[c].at = "sent" /\ ~Locked
    /\ command' = [command EXCEPT ![c] =
          IF Current(c) /\ (command[c].kind \in NeedsSubscription => row.sub # NoSub)
          THEN [@ EXCEPT !.at = "calling", !.base = row, !.read = writes, !.since = now]
          ELSE Done]
    /\ UNCHANGED <<now, truth, rev, owed, inbox, worker, row, entitlement, writes, applied,
                   newest, dismissed, paid, losses>>

\* Mutant: the return from the checkout activates Premium.
AfterActivating(kind, r, at) == [r EXCEPT !.plan = "premium", !.status = "active", !.premium = TRUE,
                                      !.ver = @ + 1]
\* decideSubscriptionTransition, the state a command saves.
After(kind, r, at) ==
    CASE kind \in {"start-checkout", "checkout-returned"} ->
            IF r.plan = "premium" /\ r.status = "active" THEN r
            ELSE [r EXCEPT !.plan = "free", !.status = "payment-pending", !.premium = FALSE,
                           !.ver = @ + 1]
      [] kind = "cancel" /\ r.plan = "premium" -> [r EXCEPT !.cancel = TRUE, !.ver = @ + 1]
      [] kind = "undo-cancel" /\ r.cancel /\ at < r.until ->
            [r EXCEPT !.cancel = FALSE, !.ver = @ + 1]
      [] OTHER -> r

\* What an accepted call changes at the provider.
Mutated(kind) ==
    CASE kind = "cancel" -> [truth EXCEPT !.cancel = TRUE]
      [] kind = "undo-cancel" -> [truth EXCEPT !.cancel = FALSE]
      [] kind = "refund" -> Settle("refunded")
      [] OTHER -> truth

\* The provider accepts the call; one on a subscription it no longer lists first changes
\* nothing here.  The return from a checkout calls nobody.
Call(c) ==
    LET effect == IF command[c].base.sub = truth.sub THEN Mutated(command[c].kind) ELSE truth IN
    /\ command[c].at = "calling"
    /\ command[c].kind \in NeedsSubscription => truth.state # "canceled"
    /\ IF effect = truth THEN UNCHANGED <<truth, rev, owed, paid>> ELSE Publish(effect)
    /\ command' = [command EXCEPT ![c].at = "saving"]
    /\ UNCHANGED <<now, inbox, worker, row, entitlement, writes, applied, newest, dismissed, losses>>

Replace(c, new) ==
    /\ writes = command[c].read
    /\ new.ver \in 0 .. MaxVersion
    /\ row' = new
    /\ writes' = IF new = row THEN writes ELSE writes + 1
    /\ command' = [command EXCEPT ![c] = Done]
    /\ UNCHANGED <<now, truth, rev, owed, inbox, worker, entitlement, applied, newest, dismissed,
                   paid, losses>>

Save(c) ==
    /\ command[c].at = "saving"
    /\ Replace(c, After(command[c].kind, command[c].base, command[c].since))

\* A refund outside its window calls nobody: an operator reviews it.
Review(c) ==
    /\ command[c].at = "calling" /\ command[c].kind = "refund"
    /\ Replace(c, [command[c].base EXCEPT !.status = "refund-review", !.ver = @ + 1])

\* The provider refuses, its answer is lost, or the transaction is rolled back.
Abort(c) ==
    /\ command[c].at \in {"calling", "saving"}
    /\ command' = [command EXCEPT ![c] = Done]
    /\ UNCHANGED <<now, truth, rev, owed, inbox, worker, row, entitlement, writes, applied,
                   newest, dismissed, paid, losses>>

-----------------------------------------------------------------------------
Reconcile(w) ==
    \/ \E e \in Event : Deliver(w, e)
    \/ Retrieve(w) \/ ReconcileFails(w) \/ Commit(w) \/ MarkRetryable(w) \/ Lose(w)
Manage(c) ==
    \/ \E kind \in Kinds : Send(c, kind)
    \/ Load(c) \/ Call(c) \/ Save(c) \/ Review(c) \/ Abort(c)

Next ==
    \/ Tick \/ Subscribe \/ ProviderChanges
    \/ \E w \in Workers : Reconcile(w)
    \/ \E c \in Commands : Manage(c)

Spec == Init /\ [][Next]_vars

\* The provider repeats what was not accepted and answers in the end; a request that has
\* started goes on.
Handling(e, Step(_)) == \E w \in Workers : worker[w].event = e /\ Step(w)
Fairness ==
    /\ \A e \in Event :
          /\ SF_vars(\E w \in Workers : Deliver(w, e))
          /\ SF_vars(Handling(e, Retrieve))
          /\ SF_vars(Handling(e, Commit))
          /\ WF_vars(Handling(e, MarkRetryable))
    /\ \A c \in Commands : WF_vars(Save(c) \/ Abort(c))
FairSpec == Spec /\ Fairness

-----------------------------------------------------------------------------
(***************************************************************************)
(* Properties                                                              *)
(***************************************************************************)
TypeOK ==
    /\ now \in Time /\ truth \in Truth /\ rev \in 0 .. MaxRevision
    /\ owed \subseteq Event
    /\ inbox \in [Event -> InboxStates]
    /\ worker \in [Workers -> Worker]
    /\ row \in Row
    /\ entitlement \in [Subscriptions -> Entitlement]
    /\ command \in [Commands -> Command]
    /\ writes \in Nat /\ applied \in 0 .. MaxRevision /\ newest \in 0 .. MaxRevision
    /\ dismissed \subseteq Event
    /\ paid \subseteq Subscriptions /\ losses \in 0 .. MaxLosses

\* One request at a time works on an event, however often it is delivered: the claim is
\* exclusive until the event is marked again, even when a commit was reported as a failure.
OneOwner ==
    /\ \A w \in Workers : worker[w].at # "idle" => inbox[worker[w].event] \in {"processing", "processed"}
    /\ \A w, v \in Workers : w # v /\ worker[w].at # "idle" => worker[w].event # worker[v].event

\* D-16: only a state the provider reported as paid gives Premium, in the account's
\* subscription and in every entitlement; no command of the account page does.
PremiumWasPaid ==
    /\ row.premium => row.sub \in paid
    /\ \A s \in Subscriptions : entitlement[s].allow => s \in paid

Settled == rev > 0 /\ \A e \in 1 .. rev : inbox[e] = "processed"
\* Two requests overlapped and the older state was committed last.
Overtaken == applied < newest

Owing(t) == \/ t.invoice # "paid" \/ t.state \in {"unpaid", "expired"}
            \/ t.state = "canceled" /\ ~t.cancel
Paying(t) == t.invoice = "paid" /\ t.state = "active"
EntitlementFollowsProvider ==
    /\ Owing(Reported) => ~entitlement[truth.sub].allow
    /\ Paying(Reported) => entitlement[truth.sub].allow

\* D-17: when every event is processed the entitlement of the provider's subscription is what
\* the provider reports of it deserves, however deliveries were late, repeated, lost, failed or
\* overlapping, unless an older retrieval was committed after a newer one.
SettledUnlessOvertaken == Settled /\ ~Overtaken => EntitlementFollowsProvider

\* D-17 as it is stated: the older retrieval does no harm either.
SettledEntitlement == Settled => EntitlementFollowsProvider

\* D-14: a refund the provider confirmed ends Premium once its event is processed.
RefundEndsPremium == Settled /\ truth.invoice = "refunded" => ~entitlement[truth.sub].allow

\* D-12: Premium expires only after the grace period: once the events are processed, a failed
\* renewal leaves it for a whole grace period from the failure.
GraceIsNotCutShort ==
    Settled /\ ~Overtaken /\ truth.state = "past-due" /\ Reported.invoice = "paid" =>
        /\ row.ends >= truth.failedAt + GracePeriod
        /\ entitlement[truth.sub].allow \/ now >= truth.failedAt + GracePeriod

\* D-12: grace ends a fixed time after the payment failed, not after it was last looked at.
GraceIsBounded ==
    Settled /\ truth.state = "past-due" /\ row.sub = truth.sub /\ row.status = "grace" =>
        row.ends = truth.failedAt + GracePeriod

\* D-17: only one subscription entitles the account once every event is processed.
SingleEntitlement ==
    Settled => Cardinality({s \in Subscriptions : entitlement[s].allow}) <= 1

\* D-55: a command goes on only for the state its client had read.
StaleCommandRejected ==
    \A c \in Commands : command[c].at \in {"calling", "saving"} => command[c].stamp = command[c].read

\* D-17: applying the revision applied last once more, from another event, a redelivery or
\* another retrieval, gives an entitlement a new version only when time has changed what that
\* revision is worth, or in the grace of a payment that failed.
AppliedOnce ==
    [][\A s \in Subscriptions :
          entitlement'[s].ver # entitlement[s].ver =>
              \/ applied' # applied
              \/ entitlement'[s].status # entitlement[s].status
              \/ entitlement'[s].status = "grace"]_vars

\* D-12: once an event is processed, the account's subscription and the entitlement agree on
\* Premium, whatever a command of the account page had left in the row.
ReconciledAgrees ==
    [][\A e \in Event : inbox[e] # "processed" /\ inbox'[e] = "processed" =>
          row'.premium = entitlement'[row'.sub].allow]_vars

\* D-17: an event the provider has stopped to deliver was not in vain: a state no older than the
\* one it announced has been applied, or a delivery of it was accepted while another was at work.
NewsIsKept == \A e \in 1 .. rev : e \in owed \/ e <= newest \/ e \in dismissed

\* Every event the provider owes is reconciled in the end, unless a delivery of it was accepted
\* while another was at work and that one did not come to its end.
AtWork(e) == \E w \in Workers : worker[w].event = e
Abandoned(e) == e \in dismissed /\ ~AtWork(e)
ReconciledUnlessDismissed ==
    \A e \in Event : e \in owed ~> (inbox[e] = "processed" \/ Abandoned(e))

\* D-17 as it is stated: every event the provider owes is reconciled in the end.
EventuallyReconciled == \A e \in Event : e \in owed ~> inbox[e] = "processed"
=============================================================================
