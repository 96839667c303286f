---------------------- MODULE CommerceReconciliationProofs ----------------------
(***************************************************************************)
(* Proofs about CommerceReconciliation for every set of requests,          *)
(* subscriptions and commands, either provider adapter, any grace that is  *)
(* not empty and any paid period.                                          *)
(*                                                                         *)
(* The strengthening CInv follows what the provider reported active from   *)
(* its state into the snapshots of the requests and the rows that commands *)
(* have read (TruthFits, SnapshotsFit, BasesFit), and the time of a failed *)
(* payment with it, which bounds the end of the grace.                     *)
(*                                                                         *)
(* The row is what the revision applied last is worth, and two reports of  *)
(* one revision differ at most in the time of a failed payment (DInv);     *)
(* that time is no earlier than the failure (HInv); an event that is       *)
(* processed has been applied (OInv).  Requests may overlap, fail, repeat  *)
(* and stop, and commands may run beside them, in all of it.               *)
(***************************************************************************)
EXTENDS CommerceReconciliation, TLAPS

\* What the provider may say of a subscription: it has been paid, and a past-due one has failed.
Fits(t) ==
    /\ t.sub # NoSub => t.sub \in paid
    /\ t.state = "active" => t.sub # NoSub
    /\ t.state = "past-due" => t.failedAt \in Time
TruthFits == Fits(truth)
SnapshotsFit == \A w \in Workers : Fits(worker[w].snap.of)

\* A row gives Premium for a subscription that was paid.
Earned(r) == r.premium => r.sub \in paid
BasesFit == \A c \in Commands : Earned(command[c].base)

\* A request has an event exactly while it is under way.
Engaged == \A w \in Workers : worker[w].at # "idle" <=> worker[w].event \in Event

CInv == TypeOK /\ TruthFits /\ SnapshotsFit /\ BasesFit /\ Engaged /\ OneOwner /\ PremiumWasPaid

-----------------------------------------------------------------------------
(***************************************************************************)
(* Times and values                                                        *)
(***************************************************************************)
\* What is a time, and what is later, stays below the time that is not set.
LEMMA Times ==
    /\ Time \subseteq Later /\ Never \in Later /\ 0 \in Time /\ 0 \in Later
    /\ \A t \in Time : t + GracePeriod \in Later /\ t + Period \in Later
BY CommerceAssumption DEF Time, Later, Never

\* The values at the start are values.
LEMMA Starts ==
    /\ NoTruth \in Truth /\ NoSnapshot \in Snapshot /\ Idle \in Worker
    /\ NoFingerprint \in Fingerprint /\ NoRow \in Row /\ NoEntitlement \in Entitlement
    /\ Unused \in Command /\ Done \in Command /\ Done.at = "done" /\ Done.base = NoRow
<1> USE Times, CommerceAssumption
<1>1. NoTruth \in Truth
  BY DEF NoTruth, Truth, ProviderStates, InvoiceStates
<1>2. NoSnapshot \in Snapshot
  BY <1>1 DEF NoSnapshot, Snapshot
<1>3. Idle \in Worker
  BY <1>2 DEF Idle, Worker
<1>4. NoFingerprint \in Fingerprint
  BY DEF NoFingerprint, Fingerprint, Statuses, InvoiceStates
<1>5. NoRow \in Row
  BY <1>4 DEF NoRow, Row, Statuses
<1>6. NoEntitlement \in Entitlement
  BY DEF NoEntitlement, Entitlement
<1>7. Unused \in Command
  BY <1>5 DEF Unused, Command
<1>8. Done \in Command /\ Done.at = "done" /\ Done.base = NoRow
  BY <1>7 DEF Done, Unused, Command
<1>9. QED BY <1>1, <1>2, <1>3, <1>4, <1>5, <1>6, <1>7, <1>8

\* A snapshot gives a status, a row and an entitlement.
LEMMA Reconciled ==
    ASSUME NEW s \in Snapshot, Fits(s.of), NEW v \in 0 .. MaxVersion
    PROVE  /\ StatusOf(s) \in Statuses
           /\ RowOf(s, v) \in Row /\ RowOf(s, v).sub = s.of.sub
           /\ EntitlementOf(s, v) \in Entitlement
<1>0. /\ s.of \in Truth /\ s.of.sub \in Subscriptions \cup {NoSub} /\ s.of.cancel \in BOOLEAN
      /\ s.of.until \in Later /\ s.of.invoice \in InvoiceStates
  BY DEF Snapshot, Truth
<1>1. StatusOf(s) \in Statuses
  BY DEF StatusOf, Statuses
<1>2. GraceEnds(s) \in Later
  BY Times DEF GraceEnds, Fits
<1>3. Grants(StatusOf(s)) \in BOOLEAN
  BY DEF Grants
<1>4. FingerprintOf(s) \in Fingerprint /\ FingerprintOf(s).ends \in Later
  BY <1>0, <1>1, <1>2, Times DEF FingerprintOf, Fingerprint
<1>5. RowOf(s, v) \in Row
  BY <1>0, <1>1, <1>3, <1>4 DEF RowOf, Row
<1>6. EntitlementOf(s, v) \in Entitlement
  BY <1>3 DEF EntitlementOf, Entitlement, Grants
<1>7. RowOf(s, v).sub = s.of.sub
  BY DEF RowOf
<1>8. QED BY <1>1, <1>5, <1>6, <1>7

\* What a command saves is a row if its version is one, of the same subscription, and gives no
\* Premium that was not there.
LEMMA Saved ==
    ASSUME NEW r \in Row, NEW kind, NEW at, After(kind, r, at).ver \in 0 .. MaxVersion
    PROVE  /\ After(kind, r, at) \in Row
           /\ Earned(r) => Earned(After(kind, r, at))
<1>0. /\ r.ver \in Nat
      /\ r = [sub |-> r.sub, ver |-> r.ver, plan |-> r.plan, status |-> r.status,
              premium |-> r.premium, cancel |-> r.cancel, ends |-> r.ends, until |-> r.until,
              fingerprint |-> r.fingerprint]
  BY CommerceAssumption DEF Row
<1> DEFINE v == r.ver + 1
<1>v. v \in Nat
  BY <1>0
<1> HIDE DEF v
<1>1. ASSUME After(kind, r, at) = [r EXCEPT !.plan = "free", !.status = "payment-pending",
                                           !.premium = FALSE, !.ver = v]
      PROVE  After(kind, r, at) \in Row /\ Earned(After(kind, r, at))
  BY <1>1 DEF Row, Statuses, Earned
<1>2. ASSUME NEW b \in BOOLEAN, After(kind, r, at) = [r EXCEPT !.cancel = b, !.ver = v]
      PROVE  After(kind, r, at) \in Row /\ (Earned(r) => Earned(After(kind, r, at)))
  BY <1>2 DEF Row, Earned
<1>3. \/ After(kind, r, at) = r
      \/ After(kind, r, at) = [r EXCEPT !.plan = "free", !.status = "payment-pending",
                                        !.premium = FALSE, !.ver = v]
      \/ \E b \in BOOLEAN : After(kind, r, at) = [r EXCEPT !.cancel = b, !.ver = v]
  BY DEF After, v
<1>4. QED BY <1>1, <1>2, <1>3

-----------------------------------------------------------------------------
(***************************************************************************)
(* The provider                                                            *)
(***************************************************************************)
\* A published state is one the provider may be in, announced by the next event.
LEMMA Published ==
    ASSUME TypeOK, NEW new \in Truth, Publish(new),
           new.state = "active" => new.sub # NoSub,
           new.sub # NoSub => new.sub \in paid \/ new.state = "active",
           new.state = "past-due" => new.failedAt \in Time
    PROVE  /\ truth' \in Truth /\ rev' \in 0 .. MaxRevision /\ owed' \subseteq Event
           /\ paid' \subseteq Subscriptions /\ paid \subseteq paid'
           /\ TruthFits'
<1>1. rev + 1 \in 0 .. MaxRevision /\ rev + 1 \in Event
  BY CommerceAssumption DEF Publish, TypeOK, Event
<1>2. new.state = "active" => new.sub \in Subscriptions
  BY DEF Truth
<1>3. /\ truth' = new /\ rev' = rev + 1 /\ owed' = owed \cup {rev + 1}
      /\ paid' = IF new.state = "active" THEN paid \cup {new.sub} ELSE paid
  BY DEF Publish
<1>4. truth' \in Truth /\ rev' \in 0 .. MaxRevision /\ owed' \subseteq Event
  BY <1>1, <1>3 DEF TypeOK
<1>5. paid' \subseteq Subscriptions /\ paid \subseteq paid'
  BY <1>2, <1>3 DEF TypeOK
<1>6. TruthFits'
  BY <1>3 DEF TruthFits, Fits
<1>7. QED BY <1>4, <1>5, <1>6

\* A state that keeps the subscription, and is active, failed or what it was, may be published.
LEMMA Changed ==
    ASSUME TypeOK, TruthFits, truth.sub # NoSub,
           NEW state \in ProviderStates, NEW cancel \in BOOLEAN, NEW failed \in Later,
           NEW until \in Later, NEW invoice \in InvoiceStates,
           state = "past-due" => failed \in Time
    PROVE  LET new == [sub |-> truth.sub, state |-> state, cancel |-> cancel,
                       failedAt |-> failed, until |-> until, invoice |-> invoice]
           IN  /\ new \in Truth /\ (new.state = "active" => new.sub # NoSub)
               /\ new.sub \in paid /\ (new.state = "past-due" => new.failedAt \in Time)
BY DEF TypeOK, TruthFits, Fits, Truth

\* What was paid stays paid.
LEMMA PaidGrows ==
    ASSUME SnapshotsFit, BasesFit, PremiumWasPaid, paid \subseteq paid',
           UNCHANGED <<worker, row, entitlement>>,
           \A c \in Commands : command'[c].base = command[c].base
    PROVE  SnapshotsFit' /\ BasesFit' /\ PremiumWasPaid'
<1>1. SnapshotsFit'
  BY DEF SnapshotsFit, Fits
<1>2. BasesFit'
  BY DEF BasesFit, Earned
<1>3. PremiumWasPaid'
  BY DEF PremiumWasPaid
<1>4. QED BY <1>1, <1>2, <1>3

\* A new subscription is reported active, so it is paid when it is first known.
LEMMA SubscribeStep == CInv /\ Subscribe => CInv'
<1> SUFFICES ASSUME CInv, Subscribe PROVE CInv'
  OBVIOUS
<1>1. PICK s \in Subscriptions :
          Publish([sub |-> s, state |-> "active", cancel |-> FALSE, failedAt |-> Never,
                   until |-> now + Period, invoice |-> "paid"])
  BY DEF Subscribe
<1> DEFINE new == [sub |-> s, state |-> "active", cancel |-> FALSE, failedAt |-> Never,
                   until |-> now + Period, invoice |-> "paid"]
<1>2. Publish(new)
  BY <1>1
<1>3. new \in Truth
  BY Times DEF CInv, TypeOK, Truth, ProviderStates, InvoiceStates
<1>4. new.state = "active" /\ new.sub = s /\ s # NoSub
  BY CommerceAssumption DEF NoSub
<1> HIDE DEF new
<1>5. /\ truth' \in Truth /\ rev' \in 0 .. MaxRevision /\ owed' \subseteq Event
      /\ paid' \subseteq Subscriptions /\ paid \subseteq paid'
      /\ TruthFits'
  BY <1>2, <1>3, <1>4, Published DEF CInv
<1>6. UNCHANGED <<now, inbox, worker, row, entitlement, command, writes, applied, newest,
                  dismissed, losses>>
  BY DEF Subscribe
<1>7. TypeOK'
  BY <1>5, <1>6 DEF CInv, TypeOK
<1>8. SnapshotsFit' /\ BasesFit' /\ PremiumWasPaid'
  BY <1>5, <1>6, PaidGrows DEF CInv
<1>9. Engaged' /\ OneOwner'
  BY <1>6 DEF CInv, Engaged, OneOwner
<1>10. QED BY <1>5, <1>7, <1>8, <1>9 DEF CInv

\* Whatever else the provider reports is about the subscription it has, which was paid.
LEMMA ProviderStep == CInv /\ ProviderChanges => CInv'
<1> SUFFICES ASSUME CInv, ProviderChanges PROVE CInv'
  OBVIOUS
<1>0. /\ TypeOK /\ TruthFits /\ truth.sub # NoSub /\ truth \in Truth /\ now \in Time
      /\ truth = [sub |-> truth.sub, state |-> truth.state, cancel |-> truth.cancel,
                  failedAt |-> truth.failedAt, until |-> truth.until, invoice |-> truth.invoice]
  BY DEF ProviderChanges, CInv, TypeOK, Truth
<1>1. PICK state \in ProviderStates, failed \in Later, until \in Later, invoice \in InvoiceStates :
          /\ state = "past-due" => failed \in Time
          /\ Publish([sub |-> truth.sub, state |-> state, cancel |-> truth.cancel,
                      failedAt |-> failed, until |-> until, invoice |-> invoice])
  <2> DEFINE end == now + Period
  <2> DEFINE New(state, failed, until, invoice) ==
                 [sub |-> truth.sub, state |-> state, cancel |-> truth.cancel,
                  failedAt |-> failed, until |-> until, invoice |-> invoice]
  <2>0. /\ truth.state \in ProviderStates /\ truth.failedAt \in Later /\ truth.until \in Later
        /\ truth.invoice \in InvoiceStates /\ (truth.state = "past-due" => truth.failedAt \in Time)
        /\ end \in Later /\ now \in Later /\ Never \in Later
    BY <1>0, Times DEF Truth, TruthFits, Fits
  <2>1. Renew = New("active", Never, end, truth.invoice)
    <3>1. Renew = [truth EXCEPT !.state = "active", !.failedAt = Never, !.until = end]
      BY DEF Renew
    <3> HIDE DEF end
    <3>2. QED BY <1>0, <3>1
  <2>2. Fail("past-due") = New("past-due", now, truth.until, truth.invoice)
    <3>1. Fail("past-due") = [truth EXCEPT !.state = "past-due", !.failedAt = now]
      BY DEF Fail
    <3>2. QED BY <1>0, <3>1
  <2>3. \A state : [truth EXCEPT !.state = state]
                      = New(state, truth.failedAt, truth.until, truth.invoice)
    BY <1>0
  <2>4. \A invoice : Settle(invoice) = New(truth.state, truth.failedAt, truth.until, invoice)
    BY <1>0 DEF Settle
  <2> HIDE DEF New, end
  <2>5. {"active", "past-due", "unpaid", "canceled"} \subseteq ProviderStates
    BY DEF ProviderStates
  <2>6. CASE Publish(Renew)
    <3>1. Publish(New("active", Never, end, truth.invoice))
      BY <2>1, <2>6
    <3>2. QED BY <2>0, <2>5, <3>1 DEF New
  <2>7. CASE Publish(Fail("past-due"))
    <3>1. Publish(New("past-due", now, truth.until, truth.invoice))
      BY <2>2, <2>7
    <3>2. QED BY <1>0, <2>0, <2>5, <3>1 DEF New
  <2>8. CASE Publish([truth EXCEPT !.state = "unpaid"]) \/ Publish([truth EXCEPT !.state = "canceled"])
    <3>1. PICK state \in {"unpaid", "canceled"} : Publish([truth EXCEPT !.state = state])
      BY <2>8
    <3>2. Publish(New(state, truth.failedAt, truth.until, truth.invoice))
      BY <2>3, <3>1
    <3>3. QED BY <2>0, <2>5, <3>2 DEF New
  <2>9. CASE \E invoice \in InvoiceStates : Publish(Settle(invoice))
    <3>1. PICK invoice \in InvoiceStates : Publish(Settle(invoice))
      BY <2>9
    <3>2. Publish(New(truth.state, truth.failedAt, truth.until, invoice))
      BY <2>4, <3>1
    <3>3. QED BY <2>0, <3>2 DEF New
  <2>10. QED BY <2>6, <2>7, <2>8, <2>9 DEF ProviderChanges
<1> DEFINE new == [sub |-> truth.sub, state |-> state, cancel |-> truth.cancel,
                   failedAt |-> failed, until |-> until, invoice |-> invoice]
<1>2. truth.cancel \in BOOLEAN
  BY <1>0 DEF Truth
<1>3. /\ new \in Truth /\ (new.state = "active" => new.sub # NoSub)
      /\ new.sub \in paid /\ (new.state = "past-due" => new.failedAt \in Time)
  BY <1>0, <1>1, <1>2, Changed
<1>4. Publish(new)
  BY <1>1
<1> HIDE DEF new
<1>5. /\ truth' \in Truth /\ rev' \in 0 .. MaxRevision /\ owed' \subseteq Event
      /\ paid' \subseteq Subscriptions /\ paid \subseteq paid'
      /\ TruthFits'
  BY <1>0, <1>3, <1>4, Published
<1>6. UNCHANGED <<now, inbox, worker, row, entitlement, command, writes, applied, newest,
                  dismissed, losses>>
  BY DEF ProviderChanges
<1>7. TypeOK'
  BY <1>5, <1>6 DEF CInv, TypeOK
<1>8. SnapshotsFit' /\ BasesFit' /\ PremiumWasPaid'
  BY <1>5, <1>6, PaidGrows DEF CInv
<1>9. Engaged' /\ OneOwner'
  BY <1>6 DEF CInv, Engaged, OneOwner
<1>10. QED BY <1>5, <1>7, <1>8, <1>9 DEF CInv

\* Time changes nothing the invariant is about.
LEMMA TickStep == CInv /\ Tick => CInv'
<1> SUFFICES ASSUME CInv, Tick PROVE CInv'
  OBVIOUS
<1>1. now' \in Time
  BY CommerceAssumption DEF Tick, CInv, TypeOK, Time
<1>2. UNCHANGED <<truth, rev, owed, inbox, worker, row, entitlement, command, writes, applied,
                  newest, dismissed, paid, losses>>
  BY DEF Tick
<1>3. TypeOK'
  BY <1>1, <1>2 DEF CInv, TypeOK
<1>4. TruthFits' /\ Engaged' /\ OneOwner'
  BY <1>2 DEF CInv, TruthFits, Fits, Engaged, OneOwner
<1>5. SnapshotsFit' /\ BasesFit' /\ PremiumWasPaid'
  BY <1>2, PaidGrows DEF CInv
<1>6. QED BY <1>3, <1>4, <1>5 DEF CInv

-----------------------------------------------------------------------------
(***************************************************************************)
(* The requests                                                            *)
(***************************************************************************)
\* A request takes a new value, for the event it had or one nobody else works on.
LEMMA WorkerSet ==
    ASSUME TypeOK, SnapshotsFit, Engaged, OneOwner, NEW w \in Workers, NEW v \in Worker,
           worker' = [worker EXCEPT ![w] = v], paid' = paid, Fits(v.snap.of),
           v.at # "idle" <=> v.event \in Event,
           v.at # "idle" =>
               /\ inbox'[v.event] \in {"processing", "processed"}
               /\ \A u \in Workers \ {w} : worker[u].at # "idle" => worker[u].event # v.event,
           \A u \in Workers \ {w} :
               worker[u].at # "idle" => inbox'[worker[u].event] \in {"processing", "processed"}
    PROVE  worker' \in [Workers -> Worker] /\ SnapshotsFit' /\ Engaged' /\ OneOwner'
<1>1. worker' \in [Workers -> Worker]
  BY DEF TypeOK
<1>2. worker'[w] = v /\ \A u \in Workers \ {w} : worker'[u] = worker[u]
  BY DEF TypeOK
<1>3. SnapshotsFit'
  BY <1>2 DEF SnapshotsFit, Fits
<1>4. Engaged'
  BY <1>2 DEF Engaged
<1>5. \A u \in Workers : worker'[u].at # "idle" => inbox'[worker'[u].event] \in {"processing", "processed"}
  BY <1>2
<1>6. \A u, x \in Workers : u # x /\ worker'[u].at # "idle" => worker'[u].event # worker'[x].event
  <2> SUFFICES ASSUME NEW u \in Workers, NEW x \in Workers, u # x, worker'[u].at # "idle"
               PROVE  worker'[u].event # worker'[x].event
    OBVIOUS
  <2>1. CASE u # w /\ x # w
    BY <1>2, <2>1 DEF OneOwner
  <2>2. CASE u = w
    BY <1>2, <2>2 DEF Engaged
  <2>3. CASE x = w
    BY <1>2, <2>3 DEF Engaged
  <2>4. QED BY <2>1, <2>2, <2>3
<1>7. OneOwner'
  BY <1>5, <1>6 DEF OneOwner
<1>8. QED BY <1>1, <1>3, <1>4, <1>7

\* A claimed event is nobody else's, because it was not being processed.
LEMMA DeliverStep == ASSUME NEW w \in Workers, NEW e \in Event, CInv, Deliver(w, e) PROVE CInv'
<1>0. UNCHANGED <<now, truth, rev, row, entitlement, command, writes, applied, newest, paid, losses>>
  BY DEF Deliver
<1>1. TruthFits' /\ BasesFit' /\ PremiumWasPaid'
  BY <1>0 DEF CInv, TruthFits, Fits, BasesFit, Earned, PremiumWasPaid
<1>2. CASE Claimable(e)
  <2> DEFINE v == [at |-> "retrieve", event |-> e, snap |-> NoSnapshot]
  <2>3. v \in Worker /\ v.at = "retrieve" /\ v.event = e /\ v.snap = NoSnapshot
    BY Starts DEF Worker, Event
  <2> HIDE DEF v
  <2>4. /\ inbox' = [inbox EXCEPT ![e] = "processing"]
        /\ worker' = [worker EXCEPT ![w] = v] /\ owed' = owed /\ dismissed' = dismissed
    BY <1>2 DEF Deliver, v
  <2>5. inbox' \in [Event -> InboxStates] /\ inbox'[e] = "processing"
        /\ \A d \in Event \ {e} : inbox'[d] = inbox[d]
    BY <2>4 DEF CInv, TypeOK, InboxStates
  <2>6. Fits(v.snap.of)
    BY <2>3 DEF NoSnapshot, NoTruth, Fits
  <2>7. \A u \in Workers : worker[u].at # "idle" =>
           worker[u].event # e /\ worker[u].event \in Event
           /\ inbox[worker[u].event] \in {"processing", "processed"}
    BY <1>2 DEF CInv, OneOwner, Claimable, Engaged
  <2>8. worker' \in [Workers -> Worker] /\ SnapshotsFit' /\ Engaged' /\ OneOwner'
    BY <1>0, <2>3, <2>4, <2>5, <2>6, <2>7, WorkerSet DEF CInv
  <2>9. TypeOK'
    BY <1>0, <2>4, <2>5, <2>8 DEF CInv, TypeOK
  <2>10. QED BY <1>1, <2>8, <2>9 DEF CInv
<1>3. CASE ~Claimable(e)
  <2>1. owed' = owed \ {e} /\ UNCHANGED <<inbox, worker>> /\ dismissed' \subseteq dismissed \cup {e}
    BY <1>3 DEF Deliver
  <2>2. TypeOK'
    BY <1>0, <2>1 DEF CInv, TypeOK
  <2>3. SnapshotsFit' /\ Engaged' /\ OneOwner'
    BY <1>0, <2>1 DEF CInv, SnapshotsFit, Fits, Engaged, OneOwner
  <2>4. QED BY <1>1, <2>2, <2>3 DEF CInv
<1>4. QED BY <1>2, <1>3

\* What the adapter reports of the provider's state is a state that fits.
LEMMA Reports == ASSUME CInv PROVE Reported \in Truth /\ Fits(Reported)
<1>1. PICK failed \in Later, invoice \in InvoiceStates :
          /\ Reported = [truth EXCEPT !.failedAt = failed, !.invoice = invoice]
          /\ truth.state = "past-due" => failed \in Time
  <2>1. truth \in Truth /\ truth.failedAt \in Later /\ truth.invoice \in InvoiceStates
        /\ now \in Time /\ now \in Later /\ Never \in Later /\ "paid" \in InvoiceStates
        /\ (truth.state = "past-due" => truth.failedAt \in Time)
    BY Times DEF CInv, TypeOK, TruthFits, Fits, Truth, InvoiceStates
  <2>2. CASE StripeAdapter
    BY <2>1, <2>2 DEF Reported
  <2>3. CASE ~StripeAdapter
    <3>1. Reported = [truth EXCEPT !.failedAt = IF truth.state = "past-due" THEN truth.failedAt ELSE Never]
      BY <2>1, <2>3 DEF Reported
    <3>2. \A x : [truth EXCEPT !.failedAt = x] = [truth EXCEPT !.failedAt = x, !.invoice = truth.invoice]
      BY <2>1 DEF Truth
    <3>3. QED BY <2>1, <3>1, <3>2
  <2>4. QED BY <2>2, <2>3
<1>2. truth \in Truth /\ truth.sub = Reported.sub /\ truth.state = Reported.state
      /\ Reported.failedAt = failed
  BY <1>1 DEF CInv, TypeOK, Truth
<1>3. Reported \in Truth
  BY <1>1, <1>2 DEF Truth
<1>4. Fits(Reported)
  BY <1>1, <1>2 DEF CInv, TruthFits, Fits
<1>5. QED BY <1>3, <1>4

\* A request that goes on keeps its event.
LEMMA WorkerGoesOn ==
    ASSUME CInv, NEW w \in Workers, worker[w].at # "idle", NEW v \in Worker, v.at # "idle",
           v.event = worker[w].event, Fits(v.snap.of), worker' = [worker EXCEPT ![w] = v],
           UNCHANGED <<now, truth, rev, owed, inbox, row, entitlement, command, writes, applied,
                       newest, dismissed, paid, losses>>
    PROVE  CInv'
<1>1. worker' \in [Workers -> Worker] /\ SnapshotsFit' /\ Engaged' /\ OneOwner'
  <2>1. v.event \in Event
    BY DEF CInv, Engaged
  <2>2. \A u \in Workers : worker[u].at # "idle" => inbox'[worker[u].event] \in {"processing", "processed"}
    BY DEF CInv, OneOwner
  <2>3. \A u \in Workers \ {w} : worker[u].at # "idle" => worker[u].event # v.event
    BY DEF CInv, OneOwner
  <2>4. QED BY <2>1, <2>2, <2>3, WorkerSet DEF CInv
<1>2. TypeOK'
  BY <1>1 DEF CInv, TypeOK
<1>3. TruthFits' /\ BasesFit' /\ PremiumWasPaid'
  BY DEF CInv, TruthFits, Fits, BasesFit, Earned, PremiumWasPaid
<1>4. QED BY <1>1, <1>2, <1>3 DEF CInv

\* A request reads what the provider reports, or gives up.
LEMMA RetrieveStep ==
    ASSUME NEW w \in Workers, CInv, Retrieve(w) \/ ReconcileFails(w) PROVE CInv'
<1>0. worker[w] \in Worker /\ worker[w].at # "idle" /\ Fits(worker[w].snap.of)
  BY DEF CInv, TypeOK, SnapshotsFit, Retrieve, ReconcileFails
<1>1. CASE Retrieve(w)
  <2> DEFINE s == [of |-> Reported, rev |-> rev, at |-> now]
             v == [worker[w] EXCEPT !.at = "commit", !.snap = s]
  <2>1. s \in Snapshot /\ s.of = Reported
    BY Reports DEF CInv, TypeOK, Snapshot
  <2> HIDE DEF s
  <2>2. v \in Worker /\ v.at = "commit" /\ v.event = worker[w].event /\ v.snap = s
    BY <1>0, <2>1 DEF Worker
  <2>3. worker' = [worker EXCEPT ![w] = v]
    BY <1>1 DEF Retrieve, s, CInv, TypeOK
  <2> HIDE DEF v
  <2>4. Fits(v.snap.of)
    BY <2>1, <2>2, Reports
  <2>5. QED BY <1>0, <1>1, <2>2, <2>3, <2>4, WorkerGoesOn DEF Retrieve
<1>2. CASE ReconcileFails(w)
  <2> DEFINE v == [worker[w] EXCEPT !.at = "failing", !.snap = NoSnapshot]
  <2>1. v \in Worker /\ v.at = "failing" /\ v.event = worker[w].event /\ v.snap = NoSnapshot
    BY <1>0, Starts DEF Worker
  <2>2. worker' = [worker EXCEPT ![w] = v]
    BY <1>2 DEF ReconcileFails, CInv, TypeOK
  <2> HIDE DEF v
  <2>3. Fits(v.snap.of)
    BY <2>1 DEF NoSnapshot, NoTruth, Fits
  <2>4. QED BY <1>0, <1>2, <2>1, <2>2, <2>3, WorkerGoesOn DEF ReconcileFails
<1>3. QED BY <1>1, <1>2

\* A request that stops, and marks its event or leaves it as it was.
LEMMA WorkerStops ==
    ASSUME CInv, NEW w \in Workers, worker[w].at # "idle", worker' = [worker EXCEPT ![w] = Idle],
           NEW mark \in InboxStates, inbox' = [inbox EXCEPT ![worker[w].event] = mark],
           paid' = paid
    PROVE  /\ inbox' \in [Event -> InboxStates] /\ worker' \in [Workers -> Worker]
           /\ SnapshotsFit' /\ Engaged' /\ OneOwner'
<1>1. inbox' \in [Event -> InboxStates]
  BY DEF CInv, TypeOK
<1>2. PICK v \in Worker : v = Idle /\ v.at = "idle" /\ v.event \notin Event /\ Fits(v.snap.of)
  <2>1. Idle.at = "idle" /\ Idle.event = 0 /\ Idle.snap.of = NoTruth
    BY DEF Idle, NoSnapshot
  <2>2. 0 \notin Event
    BY DEF Event
  <2>3. Fits(NoTruth)
    BY DEF NoTruth, Fits
  <2>4. QED BY <2>1, <2>2, <2>3, Starts
<1>3. ASSUME NEW u \in Workers \ {w}, worker[u].at # "idle"
      PROVE  inbox'[worker[u].event] \in {"processing", "processed"}
  <2>1. worker[u].event \in Event /\ worker[u].event # worker[w].event
        /\ inbox[worker[u].event] \in {"processing", "processed"}
    BY <1>3 DEF CInv, OneOwner, Engaged
  <2>2. QED BY <2>1 DEF CInv, TypeOK
<1>4. worker' = [worker EXCEPT ![w] = v]
  BY <1>2
<1>5. worker' \in [Workers -> Worker] /\ SnapshotsFit' /\ Engaged' /\ OneOwner'
  BY <1>2, <1>3, <1>4, WorkerSet DEF CInv
<1>6. QED BY <1>1, <1>5

\* A request that failed makes its event retryable; one that is lost leaves it claimed.
LEMMA StopStep ==
    ASSUME NEW w \in Workers, CInv, MarkRetryable(w) \/ Lose(w) PROVE CInv'
<1>1. /\ worker[w].at # "idle" /\ worker' = [worker EXCEPT ![w] = Idle]
      /\ UNCHANGED <<now, truth, rev, owed, row, entitlement, command, writes, applied, newest,
                     dismissed, paid>>
      /\ losses' \in 0 .. MaxLosses
  BY CommerceAssumption DEF MarkRetryable, Lose, Answer, CInv, TypeOK
<1>2. PICK mark \in InboxStates : inbox' = [inbox EXCEPT ![worker[w].event] = mark]
  <2>1. CASE MarkRetryable(w)
    BY <2>1 DEF MarkRetryable, InboxStates
  <2>2. CASE Lose(w)
    <3>1. worker[w].event \in Event
      BY <1>1 DEF CInv, Engaged
    <3>2. inbox[worker[w].event] \in InboxStates /\ inbox' = [inbox EXCEPT ![worker[w].event] = inbox[worker[w].event]]
      BY <2>2, <3>1 DEF Lose, CInv, TypeOK
    <3>3. QED BY <3>2
  <2>3. QED BY <2>1, <2>2
<1>3. /\ inbox' \in [Event -> InboxStates] /\ worker' \in [Workers -> Worker]
      /\ SnapshotsFit' /\ Engaged' /\ OneOwner'
  BY <1>1, <1>2, WorkerStops
<1>4. TypeOK'
  BY <1>1, <1>3 DEF CInv, TypeOK
<1>5. TruthFits' /\ BasesFit' /\ PremiumWasPaid'
  BY <1>1 DEF CInv, TruthFits, Fits, BasesFit, Earned, PremiumWasPaid
<1>6. QED BY <1>3, <1>4, <1>5 DEF CInv

\* What a reconciliation writes is of a subscription that was paid.
LEMMA Written ==
    ASSUME CInv, NEW s \in Snapshot, Fits(s.of), s.of.sub # NoSub, Write(s), paid' = paid
    PROVE  /\ row' \in Row /\ entitlement' \in [Subscriptions -> Entitlement] /\ writes' \in Nat
           /\ PremiumWasPaid'
<1>1. CASE SameFingerprint(s)
  BY <1>1 DEF Write, CInv, TypeOK, PremiumWasPaid
<1>2. CASE ~SameFingerprint(s)
  <2> DEFINE version == Base(s).ver + 1
  <2>0. Base(s) \in Row
    BY Starts DEF Base, CInv, TypeOK
  <2>1. version \in 0 .. MaxVersion
    BY <1>2, <2>0, CommerceAssumption DEF Write, Row
  <2>2. /\ row' = RowOf(s, version) /\ writes' = writes + 1
        /\ entitlement' = [entitlement EXCEPT ![s.of.sub] = EntitlementOf(s, version)]
    BY <1>2 DEF Write
  <2> HIDE DEF version
  <2>3. /\ RowOf(s, version) \in Row /\ RowOf(s, version).sub = s.of.sub
        /\ EntitlementOf(s, version) \in Entitlement
    BY <2>1, Reconciled
  <2>4. s.of.sub \in Subscriptions /\ s.of.sub \in paid
    BY DEF Fits, CInv, TypeOK
  <2>5. row' \in Row /\ entitlement' \in [Subscriptions -> Entitlement] /\ writes' \in Nat
    <3> DEFINE r == RowOf(s, version)
               t == EntitlementOf(s, version)
    <3>1. r \in Row /\ row' = r /\ t \in Entitlement /\ writes' = writes + 1
          /\ entitlement' = [entitlement EXCEPT ![s.of.sub] = t]
      BY <2>2, <2>3
    <3> HIDE DEF r, t
    <3>2. entitlement \in [Subscriptions -> Entitlement] /\ writes \in Nat
      BY DEF CInv, TypeOK
    <3>3. entitlement' \in [Subscriptions -> Entitlement]
      BY <3>1, <3>2
    <3>4. QED BY <3>1, <3>2, <3>3
  <2>6. PremiumWasPaid'
    BY <2>2, <2>3, <2>4 DEF CInv, TypeOK, PremiumWasPaid
  <2>7. QED BY <2>5, <2>6
<1>3. QED BY <1>1, <1>2

\* A reconciliation that is committed keeps its event processed, whatever its caller sees.
LEMMA CommitStep == ASSUME NEW w \in Workers, CInv, Commit(w) PROVE CInv'
<1> DEFINE s == worker[w].snap
<1>0. /\ worker[w] \in Worker /\ worker[w].at # "idle" /\ Fits(s.of) /\ s \in Snapshot
      /\ worker[w].event \in Event /\ s.rev \in 0 .. MaxRevision
  BY DEF CInv, TypeOK, SnapshotsFit, Commit, Worker, Snapshot, Engaged
<1>1. /\ s.of.sub # NoSub /\ Write(s) /\ applied' = s.rev /\ newest' \in {newest, s.rev}
      /\ inbox' = [inbox EXCEPT ![worker[w].event] = "processed"]
      /\ UNCHANGED <<now, truth, rev, command, dismissed, paid, losses>>
  BY DEF Commit
<1> HIDE DEF s
<1>2. /\ row' \in Row /\ entitlement' \in [Subscriptions -> Entitlement] /\ writes' \in Nat
      /\ PremiumWasPaid'
  BY <1>0, <1>1, Written
<1>3. /\ inbox' \in [Event -> InboxStates] /\ worker' \in [Workers -> Worker]
      /\ SnapshotsFit' /\ Engaged' /\ OneOwner' /\ owed' \subseteq Event
  <2>1. CASE Answer(w, TRUE)
    <3>1. worker' = [worker EXCEPT ![w] = Idle] /\ owed' = owed \ {worker[w].event}
      BY <2>1 DEF Answer
    <3>2. "processed" \in InboxStates
      BY DEF InboxStates
    <3>3. QED BY <1>0, <1>1, <3>1, <3>2, WorkerStops DEF CInv, TypeOK
  <2>2. CASE worker' = [worker EXCEPT ![w].at = "failing", ![w].snap = NoSnapshot] /\ UNCHANGED owed
    <3> DEFINE v == [worker[w] EXCEPT !.at = "failing", !.snap = NoSnapshot]
    <3>1. v \in Worker /\ v.at = "failing" /\ v.event = worker[w].event /\ v.snap = NoSnapshot
      BY <1>0, Starts DEF Worker
    <3>2. worker' = [worker EXCEPT ![w] = v]
      BY <2>2 DEF CInv, TypeOK
    <3> HIDE DEF v
    <3>3. inbox' \in [Event -> InboxStates] /\ inbox'[worker[w].event] = "processed"
          /\ \A d \in Event \ {worker[w].event} : inbox'[d] = inbox[d]
      BY <1>0, <1>1 DEF CInv, TypeOK, InboxStates
    <3>4. ASSUME NEW u \in Workers \ {w}, worker[u].at # "idle"
          PROVE  worker[u].event # v.event /\ inbox'[worker[u].event] \in {"processing", "processed"}
      BY <3>1, <3>3, <3>4 DEF CInv, OneOwner, Engaged
    <3>5. Fits(v.snap.of)
      BY <3>1 DEF NoSnapshot, NoTruth, Fits
    <3>6. worker' \in [Workers -> Worker] /\ SnapshotsFit' /\ Engaged' /\ OneOwner'
      BY <1>0, <1>1, <3>1, <3>2, <3>3, <3>4, <3>5, WorkerSet DEF CInv
    <3>7. QED BY <2>2, <3>3, <3>6 DEF CInv, TypeOK
  <2>3. QED BY <2>1, <2>2 DEF Commit
<1>4. TypeOK'
  BY <1>0, <1>1, <1>2, <1>3 DEF CInv, TypeOK
<1>5. TruthFits' /\ BasesFit'
  BY <1>1 DEF CInv, TruthFits, Fits, BasesFit, Earned
<1>6. QED BY <1>2, <1>3, <1>4, <1>5 DEF CInv

-----------------------------------------------------------------------------
(***************************************************************************)
(* The commands                                                            *)
(***************************************************************************)
\* A command takes a new value, and holds a row that is what a payment gave.
LEMMA CommandSet ==
    ASSUME TypeOK, BasesFit, paid \subseteq paid', NEW c \in Commands, NEW v \in Command,
           Earned(v.base), command' = [command EXCEPT ![c] = v]
    PROVE  command' \in [Commands -> Command] /\ BasesFit'
<1>1. command' \in [Commands -> Command]
  BY DEF TypeOK
<1>2. command'[c] = v /\ \A d \in Commands \ {c} : command'[d] = command[d]
  BY DEF TypeOK
<1>3. BasesFit'
  BY <1>2 DEF BasesFit, Earned
<1>4. QED BY <1>1, <1>3

\* What is left when only the commands change.
LEMMA OnlyCommands ==
    ASSUME CInv, command' \in [Commands -> Command], BasesFit',
           UNCHANGED <<now, truth, rev, owed, inbox, worker, row, entitlement, writes, applied,
                       newest, dismissed, paid, losses>>
    PROVE  CInv'
<1>1. TypeOK'
  BY DEF CInv, TypeOK
<1>2. TruthFits' /\ SnapshotsFit' /\ Engaged' /\ OneOwner' /\ PremiumWasPaid'
  BY DEF CInv, TruthFits, SnapshotsFit, Fits, Engaged, OneOwner, PremiumWasPaid
<1>3. QED BY <1>1, <1>2 DEF CInv

\* A client sends a command; the transaction that carries it out reads the row, or gives up.
LEMMA CommandStep ==
    ASSUME NEW c \in Commands, CInv, (\E kind \in Kinds : Send(c, kind)) \/ Load(c) \/ Abort(c)
    PROVE  CInv'
<1>0. command[c] \in Command /\ Earned(command[c].base) /\ row \in Row /\ writes \in Nat
      /\ now \in Time /\ Earned(row)
  BY DEF CInv, TypeOK, BasesFit, PremiumWasPaid, Earned
<1>e. Done \in Command /\ Earned(Done.base)
  BY Starts DEF Earned, NoRow
<1>1. PICK v \in Command : command' = [command EXCEPT ![c] = v] /\ Earned(v.base)
  <2>1. CASE \E kind \in Kinds : Send(c, kind)
    <3>1. PICK kind \in Kinds : Send(c, kind)
      BY <2>1
    <3> DEFINE v == [at |-> "sent", kind |-> kind, expects |-> row.ver, stamp |-> writes,
                     base |-> NoRow, read |-> 0, since |-> 0]
    <3>2. v \in Command /\ v.base = NoRow
      BY <1>0, Starts, Times, CommerceAssumption DEF Command, Row
    <3>3. command' = [command EXCEPT ![c] = v]
      BY <3>1 DEF Send
    <3> HIDE DEF v
    <3>4. Earned(v.base)
      BY <3>2 DEF Earned, NoRow
    <3>5. QED BY <3>2, <3>3, <3>4
  <2>2. CASE Load(c)
    <3> DEFINE v == [command[c] EXCEPT !.at = "calling", !.base = row, !.read = writes, !.since = now]
    <3>1. v \in Command /\ v.base = row
      BY <1>0 DEF Command
    <3>2. command' = [command EXCEPT ![c] = v] \/ command' = [command EXCEPT ![c] = Done]
      BY <2>2 DEF Load, CInv, TypeOK
    <3> HIDE DEF v
    <3>3. QED BY <1>0, <1>e, <3>1, <3>2
  <2>3. CASE Abort(c)
    BY <1>e, <2>3 DEF Abort
  <2>4. QED BY <2>1, <2>2, <2>3
<1>2. UNCHANGED <<now, truth, rev, owed, inbox, worker, row, entitlement, writes, applied,
                  newest, dismissed, paid, losses>>
  BY DEF Send, Load, Abort
<1>3. command' \in [Commands -> Command] /\ BasesFit'
  BY <1>1, <1>2, CommandSet DEF CInv
<1>4. QED BY <1>2, <1>3, OnlyCommands

\* What an accepted call changes at the provider is neither the subscription nor its state.
LEMMA Mutates ==
    ASSUME CInv, NEW kind PROVE
    /\ Mutated(kind) \in Truth /\ Mutated(kind).sub = truth.sub
    /\ Mutated(kind).state = truth.state /\ Mutated(kind).failedAt = truth.failedAt
<1>0. truth \in Truth
  BY DEF CInv, TypeOK
<1>1. \/ \E b \in BOOLEAN : Mutated(kind) = [truth EXCEPT !.cancel = b]
      \/ Mutated(kind) = [truth EXCEPT !.invoice = "refunded"]
      \/ Mutated(kind) = truth
  BY DEF Mutated, Settle
<1>2. QED BY <1>0, <1>1 DEF Truth, InvoiceStates

\* A call changes nothing of what was paid.
LEMMA CallStep == ASSUME NEW c \in Commands, CInv, Call(c) PROVE CInv'
<1> DEFINE v == [command[c] EXCEPT !.at = "saving"]
<1>0. command[c] \in Command /\ Earned(command[c].base)
  BY DEF CInv, TypeOK, BasesFit
<1>1. v \in Command /\ v.base = command[c].base
  BY <1>0 DEF Command
<1>2. command' = [command EXCEPT ![c] = v]
  BY DEF Call
<1>3. UNCHANGED <<now, inbox, worker, row, entitlement, writes, applied, newest, dismissed,
                  losses>>
  BY DEF Call
<1> HIDE DEF v
<1>4. /\ truth' \in Truth /\ rev' \in 0 .. MaxRevision /\ owed' \subseteq Event
      /\ paid' \subseteq Subscriptions /\ paid \subseteq paid' /\ TruthFits'
  <2>1. CASE UNCHANGED <<truth, rev, owed, paid>>
    BY <2>1 DEF CInv, TypeOK, TruthFits, Fits
  <2>2. CASE \E kind : Publish(Mutated(kind))
    <3>1. PICK kind : Publish(Mutated(kind))
      BY <2>2
    <3>2. PICK new \in Truth : new = Mutated(kind) /\ Publish(new)
      BY <3>1, Mutates
    <3>3. new.sub = truth.sub /\ new.state = truth.state /\ new.failedAt = truth.failedAt
      BY <3>2, Mutates
    <3>4. TypeOK /\ TruthFits
      BY DEF CInv
    <3>5. /\ (new.state = "active" => new.sub # NoSub)
          /\ (new.sub # NoSub => new.sub \in paid \/ new.state = "active")
          /\ (new.state = "past-due" => new.failedAt \in Time)
      BY <3>3, <3>4 DEF TruthFits, Fits
    <3>6. QED BY <3>2, <3>4, <3>5, Published
  <2>3. QED BY <2>1, <2>2 DEF Call
<1>5. command' \in [Commands -> Command] /\ BasesFit'
  BY <1>0, <1>1, <1>2, <1>4, CommandSet DEF CInv
<1>6. TypeOK'
  BY <1>3, <1>4, <1>5 DEF CInv, TypeOK
<1>7. SnapshotsFit' /\ PremiumWasPaid' /\ Engaged' /\ OneOwner'
  BY <1>3, <1>4 DEF CInv, SnapshotsFit, Fits, PremiumWasPaid, Engaged, OneOwner
<1>8. QED BY <1>4, <1>5, <1>6, <1>7 DEF CInv

\* A command that replaces the row by one that is as well earned keeps the invariant.
LEMMA ReplaceStep ==
    ASSUME NEW c \in Commands, CInv, NEW new \in Row, Replace(c, new), Earned(new) PROVE CInv'
<1>1. PICK v \in Command : v = Done /\ Earned(v.base)
  BY Starts DEF Earned, NoRow
<1>2. /\ command' = [command EXCEPT ![c] = v] /\ row' = new /\ writes' \in {writes, writes + 1}
      /\ UNCHANGED <<now, truth, rev, owed, inbox, worker, entitlement, applied, newest,
                     dismissed, paid, losses>>
  BY <1>1 DEF Replace
<1>3. command' \in [Commands -> Command] /\ BasesFit'
  BY <1>1, <1>2, CommandSet DEF CInv
<1>4. writes' \in Nat
  BY <1>2 DEF CInv, TypeOK
<1>5. TypeOK'
  BY <1>2, <1>3, <1>4 DEF CInv, TypeOK
<1>6. PremiumWasPaid'
  BY <1>2 DEF CInv, PremiumWasPaid, Earned
<1>7. TruthFits' /\ SnapshotsFit' /\ Engaged' /\ OneOwner'
  BY <1>2 DEF CInv, TruthFits, SnapshotsFit, Fits, Engaged, OneOwner
<1>8. QED BY <1>3, <1>5, <1>6, <1>7 DEF CInv

\* No command gives Premium: neither the state it saves nor the review it asks for.
LEMMA SaveStep == ASSUME NEW c \in Commands, CInv, Save(c) \/ Review(c) PROVE CInv'
<1>0. command[c].base \in Row /\ Earned(command[c].base)
  BY DEF CInv, TypeOK, BasesFit, Command
<1>1. CASE Save(c)
  <2> DEFINE new == After(command[c].kind, command[c].base, command[c].since)
  <2>1. Replace(c, new) /\ new.ver \in 0 .. MaxVersion
    BY <1>1 DEF Save, Replace
  <2>2. new \in Row /\ Earned(new)
    BY <1>0, <2>1, Saved
  <2> HIDE DEF new
  <2>3. QED BY <2>1, <2>2, ReplaceStep
<1>2. CASE Review(c)
  <2>1. PICK r \in Row : r = command[c].base
    BY <1>0
  <2> DEFINE n == r.ver + 1
             new == [r EXCEPT !.status = "refund-review", !.ver = n]
  <2>2. Replace(c, new)
    BY <1>2, <2>1 DEF Review
  <2> HIDE DEF n
  <2>3. new.ver = n /\ new.ver \in 0 .. MaxVersion
    BY <2>2 DEF Replace, Row
  <2>4. new \in Row /\ new.premium = r.premium /\ new.sub = r.sub
    BY <2>3 DEF Row, Statuses
  <2> HIDE DEF new
  <2>5. QED BY <1>0, <2>1, <2>2, <2>4, ReplaceStep DEF Earned
<1>3. QED BY <1>1, <1>2

-----------------------------------------------------------------------------
(***************************************************************************)
(* The invariant                                                           *)
(***************************************************************************)
\* An account nobody subscribed for starts in the invariant.
LEMMA InitInv == Init => CInv
<1> SUFFICES ASSUME Init PROVE CInv
  OBVIOUS
<1>1. TypeOK
  BY Starts, Times, CommerceAssumption DEF Init, TypeOK, InboxStates
<1>2. TruthFits /\ SnapshotsFit /\ BasesFit
  BY DEF Init, TruthFits, SnapshotsFit, BasesFit, Fits, Earned, NoTruth, Idle, NoSnapshot, Unused, NoRow
<1>3. Engaged /\ OneOwner /\ PremiumWasPaid
  BY DEF Init, Engaged, OneOwner, PremiumWasPaid, Idle, Event, NoRow, NoEntitlement
<1>4. QED BY <1>1, <1>2, <1>3 DEF CInv

\* Every step keeps it.
LEMMA StepInv == CInv /\ [Next]_vars => CInv'
<1> SUFFICES ASSUME CInv, [Next]_vars PROVE CInv'
  OBVIOUS
<1>1. CASE UNCHANGED vars
  BY <1>1 DEF vars, CInv, TypeOK, TruthFits, SnapshotsFit, Fits, BasesFit, Earned, Engaged, OneOwner,
              PremiumWasPaid
<1>2. CASE Tick \/ Subscribe \/ ProviderChanges
  BY <1>2, TickStep, SubscribeStep, ProviderStep
<1>3. CASE \E w \in Workers : Reconcile(w)
  BY <1>3, DeliverStep, RetrieveStep, CommitStep, StopStep DEF Reconcile
<1>4. CASE \E c \in Commands : Manage(c)
  BY <1>4, CommandStep, CallStep, SaveStep DEF Manage
<1>5. QED BY <1>1, <1>2, <1>3, <1>4 DEF Next

\* What a request, a command and the account hold always follows from what was paid.
THEOREM Traced == Spec => []CInv
BY InitInv, StepInv, PTL DEF Spec

\* The variables keep their types.
THEOREM TypeCorrect == Spec => []TypeOK
<1>1. CInv => TypeOK
  BY DEF CInv
<1>2. QED BY <1>1, Traced, PTL

\* One request at a time works on an event, however often the provider delivers it
\* (claimProviderEvent).
THEOREM EventsHaveOneOwner == Spec => []OneOwner
<1>1. CInv => OneOwner
  BY DEF CInv
<1>2. QED BY <1>1, Traced, PTL

\* Only what the provider reported as paid gives Premium, in the row and in every entitlement:
\* no late event, retry or command of the account page does.
THEOREM PremiumIsPaidFor == Spec => []PremiumWasPaid
<1>1. CInv => PremiumWasPaid
  BY DEF CInv
<1>2. QED BY <1>1, Traced, PTL

-----------------------------------------------------------------------------
(***************************************************************************)
(* What the provider's state is worth                                      *)
(*                                                                         *)
(* Two requests that have read the same revision have read the same but    *)
(* for the time of a failed payment, which the Stripe adapter dates at the *)
(* retrieval; the row is what the reconciliation of revision `applied'     *)
(* made of what it had read (DInv).                                        *)
(***************************************************************************)
\* The fingerprint of a state retrieved at a time.
Made(t, at) == FingerprintOf([of |-> t, rev |-> 0, at |-> at])

\* Two reports of the same state.
Twins(t, u) ==
    /\ t.sub = u.sub /\ t.state = u.state /\ t.cancel = u.cancel /\ t.until = u.until
    /\ t.invoice = u.invoice
    /\ t.failedAt = u.failedAt \/ StripeAdapter

\* The row carries what a report of state t was worth at some time.
Reflects(t) ==
    t.sub # NoSub =>
        /\ row.sub = t.sub
        /\ \E u \in Truth, at \in Time : Twins(u, t) /\ row.fingerprint = Made(u, at)

Reads(w) == worker[w].at = "commit"
SnapshotsCurrent ==
    \A w \in Workers : Reads(w) =>
        /\ worker[w].snap.rev <= rev
        /\ worker[w].snap.rev = rev => Twins(worker[w].snap.of, Reported)
        /\ \A v \in Workers : Reads(v) /\ worker[v].snap.rev = worker[w].snap.rev =>
               Twins(worker[v].snap.of, worker[w].snap.of)
RowReflects ==
    /\ applied <= rev
    /\ applied = rev => Reflects(Reported)
    /\ \A w \in Workers : Reads(w) /\ worker[w].snap.rev = applied => Reflects(worker[w].snap.of)

\* Whatever commands have made of the row, its entitlement is that of its fingerprint.
Worth(status) == IF Grants(status) THEN status ELSE "expired"
Carried ==
    /\ row.ends = row.fingerprint.ends
    /\ row.sub # NoSub =>
         /\ entitlement[row.sub].status = Worth(row.fingerprint.status)
         /\ entitlement[row.sub].allow = Grants(row.fingerprint.status)

\* A command whose read is not outdated holds the row as it is.
BasesCurrent ==
    \A c \in Commands : command[c].at \in {"calling", "saving"} =>
        /\ command[c].read <= writes
        /\ command[c].read = writes => command[c].base = row

DInv == SnapshotsCurrent /\ RowReflects /\ Carried /\ BasesCurrent

\* The fingerprint of a snapshot is that of its state at its time.
LEMMA MadeOf == ASSUME NEW s PROVE FingerprintOf(s) = Made(s.of, s.at)
BY DEF Made, FingerprintOf, StatusOf, GraceEnds

\* The parts of a fingerprint.
LEMMA Parts ==
    ASSUME NEW t, NEW at
    PROVE  \E s : /\ s.of = t /\ s.at = at /\ Made(t, at) = FingerprintOf(s)
                  /\ Made(t, at).status = StatusOf(s)
                  /\ t.invoice = "paid" => Made(t, at).ends = GraceEnds(s)
<1> DEFINE s == [of |-> t, rev |-> 0, at |-> at]
<1>1. s.of = t /\ s.at = at /\ Made(t, at) = FingerprintOf(s)
  BY DEF Made
<1> HIDE DEF s
<1>2. Made(t, at).status = StatusOf(s)
  BY <1>1 DEF FingerprintOf
<1>3. t.invoice = "paid" => Made(t, at).ends = GraceEnds(s)
  BY <1>1 DEF FingerprintOf
<1>4. QED BY <1>1, <1>2, <1>3

\* When two reports of one state have different fingerprints, time has changed what it is worth,
\* or the second is the grace of a payment that failed.
LEMMA OneState ==
    ASSUME NEW t \in Truth, NEW u \in Truth, Twins(t, u), NEW a \in Time, NEW b \in Time,
           StripeAdapter /\ u.state = "past-due" => u.failedAt = b,
           Made(t, a) # Made(u, b)
    PROVE  Made(u, b).status = "grace" \/ Worth(Made(u, b).status) # Worth(Made(t, a).status)
<1>1. PICK s : /\ s.of = t /\ s.at = a /\ Made(t, a) = FingerprintOf(s)
               /\ Made(t, a).status = StatusOf(s)
  BY Parts
<1>2. PICK r : /\ r.of = u /\ r.at = b /\ Made(u, b) = FingerprintOf(r)
               /\ Made(u, b).status = StatusOf(r)
  BY Parts
<1>3. u.invoice \in InvoiceStates
  BY DEF Truth
<1>4. CASE u.invoice = "paid" /\ u.state = "past-due"
  <2>1. CASE StripeAdapter
    <3>1. GraceEnds(r) = b + GracePeriod
      BY <1>2, <1>4, <2>1 DEF GraceEnds
    <3>2. b < b + GracePeriod
      BY CommerceAssumption DEF Time
    <3>3. StatusOf(r) = "grace"
      BY <1>2, <1>4, <3>1, <3>2 DEF StatusOf
    <3>4. QED BY <1>2, <3>3
  <2>2. CASE ~StripeAdapter
    <3>1. GraceEnds(s) = GraceEnds(r)
      BY <1>1, <1>2, <2>2 DEF GraceEnds, Twins
    <3>2. StatusOf(s) # StatusOf(r)
      BY <1>1, <1>2, <3>1 DEF FingerprintOf, Twins
    <3>3. StatusOf(s) \in {"grace", "expired"} /\ StatusOf(r) \in {"grace", "expired"}
      BY <1>1, <1>2, <1>4 DEF StatusOf, Twins
    <3>4. QED BY <1>1, <1>2, <3>2, <3>3 DEF Worth, Grants
  <2>3. QED BY <2>1, <2>2
<1>5. CASE ~(u.invoice = "paid" /\ u.state = "past-due")
  <2>1. u.invoice = "paid" => GraceEnds(s) = GraceEnds(r)
    BY <1>1, <1>2, <1>5 DEF GraceEnds, Twins
  <2>2. StatusOf(s) # StatusOf(r)
    BY <1>1, <1>2, <2>1 DEF FingerprintOf, Twins
  <2>3. CASE u.invoice = "paid" /\ u.state = "canceled"
    <3>1. StatusOf(s) \in {"active", "canceled"} /\ StatusOf(r) \in {"active", "canceled"}
      BY <1>1, <1>2, <2>3 DEF StatusOf, Twins
    <3>2. QED BY <1>1, <1>2, <2>2, <3>1 DEF Worth, Grants
  <2>4. CASE ~(u.invoice = "paid" /\ u.state = "canceled")
    BY <1>1, <1>2, <1>3, <1>5, <2>2, <2>4 DEF StatusOf, InvoiceStates, Twins
  <2>5. QED BY <2>3, <2>4
<1>6. QED BY <1>4, <1>5

\* What is reported of a state at two times are two reports of it.
LEMMA ReportStays ==
    ASSUME truth \in Truth, truth' = truth PROVE Twins(Reported, Reported') /\ Twins(Reported', Reported)
BY DEF Reported, Twins, Truth

\* A row that reflects a report of a state reflects every other one.
LEMMA TwinReflects ==
    ASSUME NEW t, NEW u, Twins(t, u), Reflects(t), row' = row PROVE Reflects(u) /\ Reflects(u)'
<1>1. \A x : Twins(x, t) => Twins(x, u)
  BY DEF Twins
<1>2. Reflects(u)
  BY <1>1 DEF Reflects, Twins
<1>3. QED BY <1>2 DEF Reflects

-----------------------------------------------------------------------------
(***************************************************************************)
(* The steps                                                               *)
(***************************************************************************)
\* Requests that read nothing new see a row that does not change.
LEMMA NothingRead ==
    ASSUME truth \in Truth, SnapshotsCurrent, RowReflects, UNCHANGED <<truth, rev, row, applied>>,
           \A w \in Workers : Reads(w)' => Reads(w) /\ worker'[w].snap = worker[w].snap
    PROVE  SnapshotsCurrent' /\ RowReflects'
<1>1. Twins(Reported, Reported')
  BY ReportStays
<1>2. SnapshotsCurrent'
  <2>1. \A x : Twins(x, Reported) => Twins(x, Reported')
    BY <1>1 DEF Twins
  <2> DEFINE now_ == Reported
             then_ == Reported'
  <2>2. \A x : Twins(x, now_) => Twins(x, then_)
    BY <2>1
  <2>3. \A w \in Workers : Reads(w) =>
            /\ worker[w].snap.rev <= rev
            /\ worker[w].snap.rev = rev => Twins(worker[w].snap.of, now_)
            /\ \A v \in Workers : Reads(v) /\ worker[v].snap.rev = worker[w].snap.rev =>
                   Twins(worker[v].snap.of, worker[w].snap.of)
    BY DEF SnapshotsCurrent
  <2> HIDE DEF now_, then_
  <2>4. \A w \in Workers : Reads(w)' =>
            /\ worker'[w].snap.rev <= rev'
            /\ worker'[w].snap.rev = rev' => Twins(worker'[w].snap.of, then_)
            /\ \A v \in Workers : Reads(v)' /\ worker'[v].snap.rev = worker'[w].snap.rev =>
                   Twins(worker'[v].snap.of, worker'[w].snap.of)
    BY <2>2, <2>3
  <2>5. QED BY <2>4 DEF SnapshotsCurrent, then_, Twins
<1>3. RowReflects'
  <2>1. ASSUME applied = rev PROVE Reflects(Reported)'
    <3>1. PICK u : u = Reported'
      OBVIOUS
    <3>2. Reflects(u)
      <4>1. PICK t : t = Reported
        OBVIOUS
      <4>2. Reflects(t) /\ Twins(t, u)
        BY <1>1, <2>1, <3>1, <4>1 DEF RowReflects
      <4>3. QED BY <4>2, TwinReflects
    <3>3. QED BY <3>1, <3>2 DEF Reflects
  <2>2. \A t : Reflects(t) => Reflects(t)'
    BY DEF Reflects
  <2>3. QED BY <2>1, <2>2 DEF RowReflects, Reflects
<1>4. QED BY <1>2, <1>3

\* Nor does a row that nobody writes stop being carried.
LEMMA NothingWritten ==
    ASSUME Carried, BasesCurrent, writes \in Nat, UNCHANGED <<row, entitlement, writes>>,
           \A c \in Commands : command'[c].at \in {"calling", "saving"} =>
               \/ command'[c].base = row /\ command'[c].read = writes
               \/ /\ command[c].at \in {"calling", "saving"}
                  /\ command'[c].base = command[c].base /\ command'[c].read = command[c].read
    PROVE  Carried' /\ BasesCurrent'
<1>1. Carried'
  BY DEF Carried
<1>2. ASSUME NEW c \in Commands, command'[c].at \in {"calling", "saving"}
      PROVE  /\ command'[c].read <= writes'
             /\ command'[c].read = writes' => command'[c].base = row'
  BY <1>2 DEF BasesCurrent
<1>3. QED BY <1>1, <1>2 DEF BasesCurrent

\* A new revision is one that nobody has read and nothing reflects.
LEMMA NewRevision ==
    ASSUME TypeOK, SnapshotsCurrent, RowReflects, NEW new, Publish(new),
           UNCHANGED <<row, applied>>,
           \A w \in Workers : worker'[w] = worker[w]
    PROVE  SnapshotsCurrent' /\ RowReflects'
<1>1. rev' = rev + 1 /\ rev \in Nat /\ applied \in Nat
  BY CommerceAssumption DEF Publish, TypeOK
<1>2. \A w \in Workers : worker[w].snap.rev \in Nat
  BY CommerceAssumption DEF TypeOK, Worker, Snapshot
<1>3. SnapshotsCurrent'
  BY <1>1, <1>2 DEF SnapshotsCurrent, Reads
<1>4. RowReflects'
  BY <1>1, <1>2 DEF RowReflects, Reflects, Reads
<1>5. QED BY <1>3, <1>4

\* A request reads what is reported of the present revision.
LEMMA RetrieveDated ==
    ASSUME CInv, DInv, NEW w \in Workers, Retrieve(w) PROVE DInv'
<1> DEFINE s == [of |-> Reported, rev |-> rev, at |-> now]
<1>1. /\ UNCHANGED <<truth, rev, row, entitlement, command, writes, applied>>
      /\ worker'[w].snap.of = Reported /\ worker'[w].snap.rev = rev
      /\ \A v \in Workers \ {w} : worker'[v] = worker[v]
  <2>1. worker[w] \in Worker /\ worker \in [Workers -> Worker]
    BY DEF CInv, TypeOK
  <2>2. worker'[w] = [worker[w] EXCEPT !.at = "commit", !.snap = s]
    BY <2>1 DEF Retrieve
  <2>3. worker'[w].snap = s
    BY <2>1, <2>2 DEF Worker
  <2>4. \A v \in Workers \ {w} : worker'[v] = worker[v]
    BY <2>1 DEF Retrieve
  <2>5. s.of = Reported /\ s.rev = rev
    OBVIOUS
  <2>6. UNCHANGED <<truth, rev, row, entitlement, command, writes, applied>>
    BY DEF Retrieve
  <2> HIDE DEF s
  <2>7. QED BY <2>3, <2>4, <2>5, <2>6
<1>2. rev \in Nat /\ applied <= rev
  BY CommerceAssumption DEF CInv, DInv, RowReflects, TypeOK
<1>3. PICK t, u : t = Reported /\ u = Reported' /\ Twins(t, u) /\ Twins(u, t) /\ Twins(t, t)
  BY <1>1, ReportStays DEF CInv, TypeOK, Twins
<1>4. \A v \in Workers \ {w} : Reads(v)' => Reads(v)
  BY <1>1 DEF Reads
<1>5. \A v \in Workers : Reads(v)' =>
          /\ worker'[v].snap.rev <= rev
          /\ worker'[v].snap.rev = rev => Twins(worker'[v].snap.of, t) /\ Twins(t, worker'[v].snap.of)
  BY <1>1, <1>2, <1>3, <1>4 DEF DInv, SnapshotsCurrent, Twins
<1>6. SnapshotsCurrent'
  <2>1. ASSUME NEW v \in Workers, Reads(v)', NEW x \in Workers, Reads(x)',
               worker'[x].snap.rev = worker'[v].snap.rev
        PROVE  Twins(worker'[x].snap.of, worker'[v].snap.of)
    <3>1. CASE v = w \/ x = w
      BY <1>1, <1>3, <1>5, <2>1, <3>1
    <3>2. CASE v # w /\ x # w
      BY <1>1, <1>4, <2>1, <3>2 DEF DInv, SnapshotsCurrent
    <3>3. QED BY <3>1, <3>2
  <2>2. \A v \in Workers : Reads(v)' /\ worker'[v].snap.rev = rev => Twins(worker'[v].snap.of, u)
    BY <1>3, <1>5 DEF Twins
  <2>3. QED BY <1>1, <1>3, <1>5, <2>1, <2>2 DEF SnapshotsCurrent, Twins
<1>7. RowReflects'
  <2>1. applied = rev => Reflects(t)
    BY <1>3 DEF DInv, RowReflects
  <2>2. applied = rev => Reflects(u)'
    BY <1>1, <1>3, <2>1, TwinReflects
  <2>3. ASSUME NEW v \in Workers, Reads(v)', worker'[v].snap.rev = applied,
               NEW x, x = worker'[v].snap.of
        PROVE  Reflects(x)'
    <3>1. CASE v = w
      BY <1>1, <1>3, <2>1, <2>3, <3>1, TwinReflects
    <3>2. CASE v # w
      <4>1. Reflects(x)
        BY <1>1, <1>4, <2>3, <3>2 DEF DInv, RowReflects
      <4>2. QED BY <1>1, <4>1 DEF Reflects
    <3>3. QED BY <3>1, <3>2
  <2>4. QED BY <1>1, <1>2, <1>3, <2>2, <2>3 DEF RowReflects, Reflects
<1>8. Carried' /\ BasesCurrent'
  BY <1>1, NothingWritten DEF CInv, DInv, TypeOK
<1>9. QED BY <1>6, <1>7, <1>8 DEF DInv

\* What a reconciliation leaves in the row is what its snapshot is worth.
LEMMA WrittenReflects ==
    ASSUME CInv, DInv, NEW s \in Snapshot, s.of.sub # NoSub, Write(s)
    PROVE  /\ row'.sub = s.of.sub /\ row'.fingerprint = Made(s.of, s.at)
           /\ Carried'
           /\ \/ writes' = writes + 1
              \/ UNCHANGED <<row, writes>>
<1>1. CASE SameFingerprint(s)
  <2>1. UNCHANGED <<row, entitlement, writes>>
    BY <1>1 DEF Write
  <2>2. row.sub = s.of.sub /\ row.fingerprint = FingerprintOf(s)
    BY <1>1 DEF SameFingerprint, Base, NoRow, NoFingerprint, FingerprintOf
  <2>3. QED BY <2>1, <2>2, MadeOf DEF DInv, Carried
<1>2. CASE ~SameFingerprint(s)
  <2> DEFINE version == Base(s).ver + 1
  <2>1. /\ row' = RowOf(s, version) /\ writes' = writes + 1
        /\ entitlement' = [entitlement EXCEPT ![s.of.sub] = EntitlementOf(s, version)]
    BY <1>2 DEF Write
  <2> HIDE DEF version
  <2>2. /\ row'.sub = s.of.sub /\ row'.fingerprint = FingerprintOf(s)
        /\ row'.status = StatusOf(s) /\ row'.ends = FingerprintOf(s).ends
    BY <2>1 DEF RowOf
  <2>3. FingerprintOf(s).status = StatusOf(s)
    BY DEF FingerprintOf
  <2>4. entitlement'[s.of.sub] = EntitlementOf(s, version)
    BY <2>1 DEF CInv, TypeOK, Snapshot, Truth
  <2>5. Carried'
    BY <2>2, <2>3, <2>4 DEF Carried, EntitlementOf, Worth
  <2>6. QED BY <2>1, <2>2, <2>5, MadeOf
<1>3. QED BY <1>1, <1>2

\* The row of a commit is what its own snapshot, and every other of that revision, is worth.
LEMMA CommitDated ==
    ASSUME CInv, DInv, NEW w \in Workers, Commit(w) PROVE DInv'
<1>0. PICK s \in Snapshot : s = worker[w].snap
  BY DEF CInv, TypeOK, Worker
<1>1. /\ Reads(w) /\ s.of.sub # NoSub /\ Write(s) /\ applied' = s.rev
      /\ UNCHANGED <<truth, rev, command>>
  BY <1>0 DEF Commit, Reads
<1>2. /\ row'.sub = s.of.sub /\ row'.fingerprint = Made(s.of, s.at) /\ s.at \in Time
      /\ Carried'
      /\ writes' = writes + 1 \/ UNCHANGED <<row, writes>>
  BY <1>1, WrittenReflects DEF Snapshot
<1>3. \A v \in Workers : Reads(v)' => v # w /\ Reads(v) /\ worker'[v].snap = worker[v].snap
  <2>1. worker'[w].at \in {"idle", "failing"} /\ \A v \in Workers \ {w} : worker'[v] = worker[v]
    BY DEF Commit, Answer, Idle, CInv, TypeOK, Worker
  <2>2. QED BY <2>1 DEF Reads
<1>4. PICK t, u : t = Reported /\ u = Reported' /\ Twins(t, u)
  BY <1>1, ReportStays DEF CInv, TypeOK
<1>5. SnapshotsCurrent'
  <2>1. \A x : Twins(x, t) => Twins(x, u)
    BY <1>4 DEF Twins
  <2>2. \A v \in Workers : Reads(v) =>
            /\ worker[v].snap.rev <= rev
            /\ worker[v].snap.rev = rev => Twins(worker[v].snap.of, t)
            /\ \A x \in Workers : Reads(x) /\ worker[x].snap.rev = worker[v].snap.rev =>
                   Twins(worker[x].snap.of, worker[v].snap.of)
    BY <1>4 DEF DInv, SnapshotsCurrent
  <2>3. \A v \in Workers : Reads(v)' =>
            /\ worker'[v].snap.rev <= rev'
            /\ worker'[v].snap.rev = rev' => Twins(worker'[v].snap.of, u)
            /\ \A x \in Workers : Reads(x)' /\ worker'[x].snap.rev = worker'[v].snap.rev =>
                   Twins(worker'[x].snap.of, worker'[v].snap.of)
    BY <1>1, <1>3, <2>1, <2>2
  <2>4. QED BY <1>4, <2>3 DEF SnapshotsCurrent, Twins
<1>6. RowReflects'
  <2>1. s.rev <= rev /\ (s.rev = rev => Twins(s.of, u))
    BY <1>0, <1>1, <1>4 DEF DInv, SnapshotsCurrent, Twins
  <2>2. \A v \in Workers : Reads(v)' /\ worker'[v].snap.rev = s.rev => Twins(s.of, worker'[v].snap.of)
    BY <1>0, <1>1, <1>3 DEF DInv, SnapshotsCurrent, Twins
  <2>3. \A x : Twins(s.of, x) => Reflects(x)'
    <3>1. s.of \in Truth
      BY DEF Snapshot
    <3>2. QED BY <1>2, <3>1 DEF Reflects, Twins
  <2>4. QED BY <1>1, <1>4, <2>1, <2>2, <2>3 DEF RowReflects, Reflects
<1>7. BasesCurrent'
  <2>1. \A c \in Commands : command[c].read \in Nat
    BY DEF CInv, TypeOK, Command
  <2>2. writes \in Nat
    BY DEF CInv, TypeOK
  <2>3. QED BY <1>1, <1>2, <2>1, <2>2 DEF DInv, BasesCurrent
<1>8. QED BY <1>2, <1>5, <1>6, <1>7 DEF DInv

\* What a command makes of a row keeps the subscription, its fingerprint and the end of its grace.
LEMMA AfterKeeps ==
    ASSUME NEW r \in Row, NEW kind, NEW at
    PROVE  LET new == After(kind, r, at) IN
           new.sub = r.sub /\ new.fingerprint = r.fingerprint /\ new.ends = r.ends
<1> DEFINE v == r.ver + 1
<1>1. \/ After(kind, r, at) = r
      \/ After(kind, r, at) = [r EXCEPT !.plan = "free", !.status = "payment-pending",
                                        !.premium = FALSE, !.ver = v]
      \/ \E b \in BOOLEAN : After(kind, r, at) = [r EXCEPT !.cancel = b, !.ver = v]
  BY DEF After
<1> HIDE DEF v
<1>2. QED BY <1>1 DEF Row

\* A command that is saved replaces the row it has read by one with the same fingerprint.
LEMMA ReplaceDated ==
    ASSUME CInv, DInv, NEW c \in Commands, NEW new, Replace(c, new),
           command[c].at \in {"calling", "saving"}, NEW r \in Row, r = command[c].base,
           new.sub = r.sub, new.fingerprint = r.fingerprint, new.ends = r.ends
    PROVE  DInv'
<1>1. /\ row' = new /\ writes' = IF new = row THEN writes ELSE writes + 1
      /\ UNCHANGED <<truth, rev, worker, entitlement, applied>>
  BY DEF Replace
<1>2. row = r /\ writes \in Nat
  BY DEF DInv, BasesCurrent, Replace, CInv, TypeOK
<1>3. Carried'
  BY <1>1, <1>2 DEF DInv, Carried
<1>4. PICK t, u : t = Reported /\ u = Reported' /\ Twins(t, u)
  BY <1>1, ReportStays DEF CInv, TypeOK
<1>r. \A x, y : Reflects(x) /\ Twins(x, y) => Reflects(y)'
  BY <1>1, <1>2 DEF Reflects, Twins
<1>5. SnapshotsCurrent' /\ RowReflects'
  <2>1. SnapshotsCurrent'
    BY <1>1, <1>4 DEF DInv, SnapshotsCurrent, Reads, Twins
  <2>2. applied = rev => Reflects(u)'
    BY <1>4, <1>r DEF DInv, RowReflects
  <2>3. \A x : Reflects(x) => Reflects(x)'
    BY <1>r DEF Twins
  <2>4. RowReflects'
    BY <1>1, <1>4, <2>2, <2>3 DEF DInv, RowReflects, Reflects, Reads
  <2>5. QED BY <2>1, <2>4
<1>6. BasesCurrent'
  <2>1. ASSUME NEW d \in Commands, command'[d].at \in {"calling", "saving"}
        PROVE  command'[d] = command[d] /\ d # c
    BY <2>1 DEF Replace, Done, Unused, CInv, TypeOK, Command
  <2>2. \A d \in Commands : command[d].read \in Nat
    BY DEF CInv, TypeOK, Command
  <2>3. QED BY <1>1, <1>2, <2>1, <2>2 DEF DInv, BasesCurrent
<1>7. QED BY <1>3, <1>5, <1>6 DEF DInv

\* Neither the state a command saves nor a review is about another fingerprint.
LEMMA SaveDated ==
    ASSUME CInv, DInv, NEW c \in Commands, Save(c) \/ Review(c) PROVE DInv'
<1>1. PICK r \in Row : r = command[c].base
  BY DEF CInv, TypeOK, Command
<1>2. CASE Save(c)
  <2> DEFINE new == After(command[c].kind, r, command[c].since)
  <2>1. Replace(c, new) /\ command[c].at = "saving"
    BY <1>1, <1>2 DEF Save
  <2>2. new.sub = r.sub /\ new.fingerprint = r.fingerprint /\ new.ends = r.ends
    BY AfterKeeps
  <2> HIDE DEF new
  <2>3. QED BY <1>1, <2>1, <2>2, ReplaceDated
<1>3. CASE Review(c)
  <2> DEFINE n == r.ver + 1
             new == [r EXCEPT !.status = "refund-review", !.ver = n]
  <2>1. Replace(c, new) /\ command[c].at = "calling"
    BY <1>1, <1>3 DEF Review
  <2> HIDE DEF n
  <2>2. new.sub = r.sub /\ new.fingerprint = r.fingerprint /\ new.ends = r.ends
    BY DEF Row
  <2> HIDE DEF new
  <2>3. QED BY <1>1, <2>1, <2>2, ReplaceDated
<1>4. QED BY <1>2, <1>3

\* What the provider announces is a new revision.
LEMMA ProviderDated ==
    ASSUME CInv, DInv, Subscribe \/ ProviderChanges \/ \E c \in Commands : Call(c)
    PROVE  DInv'
<1>1. UNCHANGED <<worker, row, entitlement, writes, applied>>
  BY DEF Subscribe, ProviderChanges, Call
<1>2. SnapshotsCurrent' /\ RowReflects'
  <2>1. CASE \E new : Publish(new)
    BY <1>1, <2>1, NewRevision DEF CInv, DInv
  <2>2. CASE UNCHANGED <<truth, rev>>
    BY <1>1, <2>2, NothingRead DEF CInv, TypeOK, DInv, Reads
  <2>3. QED BY <2>1, <2>2 DEF Subscribe, ProviderChanges, Call
<1>3. \A c \in Commands : command'[c].at \in {"calling", "saving"} =>
          /\ command[c].at \in {"calling", "saving"}
          /\ command'[c].base = command[c].base /\ command'[c].read = command[c].read
  <2>1. CASE UNCHANGED command
    BY <2>1
  <2>2. CASE \E c \in Commands : Call(c)
    BY <2>2 DEF Call, CInv, TypeOK, Command
  <2>3. QED BY <2>1, <2>2 DEF Subscribe, ProviderChanges
<1>4. Carried' /\ BasesCurrent'
  BY <1>1, <1>3, NothingWritten DEF CInv, DInv, TypeOK
<1>5. QED BY <1>2, <1>4 DEF DInv

\* Every other step of a request leaves the row alone and reads nothing.
LEMMA RequestDated ==
    ASSUME CInv, DInv, NEW w \in Workers,
           \/ \E e \in Event : Deliver(w, e)
           \/ ReconcileFails(w) \/ MarkRetryable(w) \/ Lose(w)
    PROVE  DInv'
<1>1. UNCHANGED <<truth, rev, row, entitlement, command, writes, applied>>
  BY DEF Deliver, ReconcileFails, MarkRetryable, Lose
<1>2. \A v \in Workers : Reads(v)' => Reads(v) /\ worker'[v].snap = worker[v].snap
  BY DEF Deliver, ReconcileFails, MarkRetryable, Lose, Answer, Idle, Reads, CInv, TypeOK, Worker
<1>3. SnapshotsCurrent' /\ RowReflects'
  BY <1>1, <1>2, NothingRead DEF CInv, TypeOK, DInv
<1>4. Carried' /\ BasesCurrent'
  BY <1>1, NothingWritten DEF CInv, DInv, TypeOK
<1>5. QED BY <1>3, <1>4 DEF DInv

\* A command that is sent, loaded or given up changes nothing but itself.
LEMMA CommandDated ==
    ASSUME CInv, DInv, NEW c \in Commands,
           (\E kind \in Kinds : Send(c, kind)) \/ Load(c) \/ Abort(c)
    PROVE  DInv'
<1>1. UNCHANGED <<truth, rev, worker, row, entitlement, writes, applied>>
  BY DEF Send, Load, Abort
<1>2. \A d \in Commands : command'[d].at \in {"calling", "saving"} =>
          \/ command'[d].base = row /\ command'[d].read = writes
          \/ /\ command[d].at \in {"calling", "saving"}
             /\ command'[d].base = command[d].base /\ command'[d].read = command[d].read
  <2>1. CASE \E kind \in Kinds : Send(c, kind)
    BY <2>1 DEF Send, CInv, TypeOK, Command
  <2>2. CASE Load(c)
    BY <2>2 DEF Load, Done, Unused, CInv, TypeOK, Command
  <2>3. CASE Abort(c)
    BY <2>3 DEF Abort, Done, Unused, CInv, TypeOK, Command
  <2>4. QED BY <2>1, <2>2, <2>3
<1>3. SnapshotsCurrent' /\ RowReflects'
  BY <1>1, NothingRead DEF CInv, TypeOK, DInv, Reads
<1>4. Carried' /\ BasesCurrent'
  BY <1>1, <1>2, NothingWritten DEF CInv, DInv, TypeOK
<1>5. QED BY <1>3, <1>4 DEF DInv

\* An account nobody subscribed for reflects the state nobody announced.
LEMMA InitDated == ASSUME Init PROVE DInv
<1>1. SnapshotsCurrent /\ BasesCurrent
  BY DEF Init, SnapshotsCurrent, BasesCurrent, Reads, Idle, Unused
<1>2. RowReflects
  <2>1. Reported.sub = NoSub
    BY DEF Init, Reported, NoTruth
  <2>2. QED BY <2>1 DEF Init, RowReflects, Reflects, Reads, Idle
<1>3. Carried
  BY DEF Init, Carried, NoRow, NoFingerprint
<1>4. QED BY <1>1, <1>2, <1>3 DEF DInv

\* Every step keeps the row what the last applied revision is worth.
LEMMA StepDated == ASSUME CInv, DInv, [Next]_vars PROVE DInv'
<1>1. CASE UNCHANGED vars \/ Tick
  <2>1. UNCHANGED <<truth, rev, worker, row, entitlement, command, writes, applied>>
    BY <1>1 DEF vars, Tick
  <2>2. SnapshotsCurrent' /\ RowReflects'
    BY <2>1, NothingRead DEF CInv, TypeOK, DInv, Reads
  <2>3. Carried' /\ BasesCurrent'
    BY <2>1, NothingWritten DEF CInv, DInv, TypeOK
  <2>4. QED BY <2>2, <2>3 DEF DInv
<1>2. CASE Subscribe \/ ProviderChanges
  BY <1>2, ProviderDated
<1>3. CASE \E w \in Workers : Reconcile(w)
  BY <1>3, RetrieveDated, CommitDated, RequestDated DEF Reconcile
<1>4. CASE \E c \in Commands : Manage(c)
  BY <1>4, CommandDated, ProviderDated, SaveDated DEF Manage
<1>5. QED BY <1>1, <1>2, <1>3, <1>4 DEF Next
-----------------------------------------------------------------------------
(***************************************************************************)
(* The time of a failed payment                                            *)
(*                                                                         *)
(* A snapshot is read before now and dates the failure no earlier than it  *)
(* was, so that the grace the row grants does not end before its time      *)
(* (HInv).                                                                 *)
(***************************************************************************)
\* A snapshot was read before now, and the Stripe adapter dates a failed payment then.
Fresh(s) == s.at <= now /\ (StripeAdapter /\ s.of.state = "past-due" => s.of.failedAt = s.at)
Failed == truth.state = "past-due"
SnapshotsFresh ==
    \A w \in Workers : Reads(w) =>
        /\ Fresh(worker[w].snap)
        /\ worker[w].snap.rev = rev /\ Failed => truth.failedAt <= worker[w].snap.of.failedAt

\* The row grants a failed payment no less than its grace.
GraceHeld ==
    applied = rev /\ Failed /\ Reported.invoice = "paid" =>
        /\ row.fingerprint.ends >= truth.failedAt + GracePeriod
        /\ row.fingerprint.status = "grace" \/ now >= truth.failedAt + GracePeriod

HInv == (Failed => truth.failedAt <= now) /\ SnapshotsFresh /\ GraceHeld

\* An entitlement gets a new version only for another revision, when time has changed its status,
\* or in the grace of a payment that failed.
LEMMA VersionStep ==
    ASSUME CInv, DInv, SnapshotsFresh, [Next]_vars, NEW s \in Subscriptions,
           entitlement'[s].ver # entitlement[s].ver, applied' = applied
    PROVE  entitlement'[s].status # entitlement[s].status \/ entitlement'[s].status = "grace"
<1>1. PICK w \in Workers : Commit(w)
  BY DEF Next, vars, Tick, Subscribe, ProviderChanges, Reconcile, Deliver, Retrieve, ReconcileFails,
         MarkRetryable, Lose, Manage, Send, Load, Call, Save, Review, Replace, Abort
<1>2. PICK p \in Snapshot : p = worker[w].snap
  BY DEF CInv, TypeOK, Worker
<1>3. Reads(w) /\ p.of.sub # NoSub /\ Write(p) /\ p.rev = applied /\ p.of \in Truth /\ p.at \in Time
  BY <1>1, <1>2 DEF Commit, Reads, Snapshot
<1>4. row.sub = p.of.sub /\ \E u \in Truth, at \in Time : Twins(u, p.of) /\ row.fingerprint = Made(u, at)
  BY <1>2, <1>3 DEF DInv, RowReflects, Reflects
<1>5. ~SameFingerprint(p)
  BY <1>3 DEF Write
<1>6. row.fingerprint # Made(p.of, p.at)
  BY <1>4, <1>5, MadeOf DEF SameFingerprint, Base
<1>7. PICK u \in Truth, at \in Time : Twins(u, p.of) /\ row.fingerprint = Made(u, at)
  BY <1>4
<1> DEFINE version == Base(p).ver + 1
<1>8. entitlement' = [entitlement EXCEPT ![p.of.sub] = EntitlementOf(p, version)]
  BY <1>3, <1>5 DEF Write
<1> HIDE DEF version
<1>9. s = p.of.sub /\ entitlement'[s].status = EntitlementOf(p, version).status
  BY <1>8 DEF CInv, TypeOK
<1>10. entitlement[s].status = Worth(row.fingerprint.status)
  BY <1>3, <1>4, <1>9 DEF DInv, Carried
<1>11. EntitlementOf(p, version).status = Worth(Made(p.of, p.at).status)
  <2>1. FingerprintOf(p).status = StatusOf(p)
    BY DEF FingerprintOf
  <2>2. FingerprintOf(p) = Made(p.of, p.at)
    BY MadeOf
  <2>3. QED BY <2>1, <2>2 DEF EntitlementOf, Worth
<1>12. StripeAdapter /\ p.of.state = "past-due" => p.of.failedAt = p.at
  BY <1>2, <1>3 DEF SnapshotsFresh, Fresh
<1>13. \/ Made(p.of, p.at).status = "grace"
       \/ Worth(Made(p.of, p.at).status) # Worth(Made(u, at).status)
  BY <1>3, <1>6, <1>7, <1>12, OneState
<1>14. QED BY <1>7, <1>9, <1>10, <1>11, <1>13 DEF Worth, Grants

\* Time only goes on, and what is under way was read before.
LEMMA Clock ==
    ASSUME CInv, [Next]_vars
    PROVE  /\ now \in Nat /\ now' \in Nat /\ now <= now' /\ truth.failedAt \in Nat
           /\ \A w \in Workers : worker[w].snap.at \in Nat /\ worker[w].snap.of.failedAt \in Nat
<1>1. now' = now \/ now' = now + 1
  BY DEF Next, vars, Tick, Subscribe, ProviderChanges, Reconcile, Deliver, Retrieve, ReconcileFails,
         Commit, MarkRetryable, Lose, Manage, Send, Load, Call, Save, Review, Replace, Abort
<1>2. \A w \in Workers : worker[w].snap \in Snapshot
  BY DEF CInv, TypeOK, Worker
<1>3. \A w \in Workers : worker[w].snap.at \in Time /\ worker[w].snap.of \in Truth
  BY <1>2 DEF Snapshot
<1>4. QED BY <1>1, <1>3, CommerceAssumption DEF CInv, TypeOK, Truth, Time, Later, Never

\* The provider's payments have failed in the past.
LEMMA FailureStep ==
    ASSUME CInv, [Next]_vars, Failed => truth.failedAt <= now
    PROVE  Failed' => truth'.failedAt <= now'
<1>0. /\ now \in Nat /\ now' \in Nat /\ now <= now' /\ truth.failedAt \in Nat
      /\ truth \in Truth
  BY Clock DEF CInv, TypeOK
<1>1. CASE UNCHANGED truth
  BY <1>0, <1>1 DEF Failed
<1>2. CASE Subscribe
  <2>1. truth'.state = "active"
    BY <1>2 DEF Subscribe, Publish
  <2>2. QED BY <2>1 DEF Failed
<1>3. CASE ProviderChanges
  <2> DEFINE until == now + Period
  <2>1. \/ truth' = [truth EXCEPT !.state = "active", !.failedAt = Never, !.until = until]
        \/ truth' = [truth EXCEPT !.state = "past-due", !.failedAt = now]
        \/ truth' = [truth EXCEPT !.state = "unpaid"]
        \/ truth' = [truth EXCEPT !.state = "canceled"]
        \/ \E invoice : truth' = [truth EXCEPT !.invoice = invoice]
    BY <1>3 DEF ProviderChanges, Publish, Renew, Fail, Settle
  <2> HIDE DEF until
  <2>2. \/ truth'.state # "past-due"
        \/ truth'.failedAt = now
        \/ truth'.state = truth.state /\ truth'.failedAt = truth.failedAt
    BY <1>0, <2>1 DEF Truth
  <2>3. QED BY <1>0, <2>2 DEF Failed
<1>4. CASE \E c \in Commands : Call(c)
  <2>1. \/ UNCHANGED truth
        \/ \E invoice : truth' = [truth EXCEPT !.invoice = invoice]
        \/ \E b : truth' = [truth EXCEPT !.cancel = b]
    BY <1>4 DEF Call, Publish, Mutated, Settle
  <2>2. truth'.state = truth.state /\ truth'.failedAt = truth.failedAt
    BY <1>0, <2>1 DEF Truth
  <2>3. QED BY <1>0, <2>2 DEF Failed
<1>5. QED BY <1>1, <1>2, <1>3, <1>4
          DEF Next, vars, Tick, Reconcile, Deliver, Retrieve, ReconcileFails, Commit,
              MarkRetryable, Lose, Manage, Send, Load, Save, Review, Replace, Abort

\* A request that reads dates the failure by what is reported; every other has read it before.
LEMMA FreshStep ==
    ASSUME CInv, DInv, HInv, [Next]_vars PROVE SnapshotsFresh'
<1>0. /\ now \in Nat /\ now' \in Nat /\ now <= now' /\ truth.failedAt \in Nat /\ truth \in Truth
      /\ rev \in Nat
      /\ \A w \in Workers :
            worker[w].snap.at \in Nat /\ worker[w].snap.of.failedAt \in Nat /\ worker[w].snap.rev \in Nat
  BY Clock, CommerceAssumption DEF CInv, TypeOK, Worker, Snapshot
<1>1. UNCHANGED <<truth, rev>> \/ rev' = rev + 1
  BY DEF Next, vars, Tick, Subscribe, ProviderChanges, Publish, Reconcile, Deliver, Retrieve,
         ReconcileFails, Commit, MarkRetryable, Lose, Manage, Send, Load, Call, Save, Review,
         Replace, Abort
<1>2. ASSUME NEW v \in Workers, Reads(v), worker'[v].snap = worker[v].snap
      PROVE  /\ worker'[v].snap.at <= now'
             /\ StripeAdapter /\ worker'[v].snap.of.state = "past-due" =>
                    worker'[v].snap.of.failedAt = worker'[v].snap.at
             /\ worker'[v].snap.rev = rev' /\ Failed' => truth'.failedAt <= worker'[v].snap.of.failedAt
  <2>1. Fresh(worker[v].snap) /\ worker[v].snap.rev <= rev
    BY <1>2 DEF HInv, SnapshotsFresh, DInv, SnapshotsCurrent
  <2>2. CASE UNCHANGED <<truth, rev>>
    BY <1>0, <1>2, <2>1, <2>2 DEF Fresh, HInv, SnapshotsFresh, Failed
  <2>3. CASE rev' = rev + 1
    BY <1>0, <1>2, <2>1, <2>3 DEF Fresh
  <2>4. QED BY <1>1, <2>2, <2>3
<1>3. CASE \A v \in Workers : Reads(v)' => Reads(v) /\ worker'[v].snap = worker[v].snap
  BY <1>2, <1>3 DEF SnapshotsFresh, Fresh
<1>4. ASSUME NEW w \in Workers, Retrieve(w) PROVE SnapshotsFresh'
  <2>1. /\ UNCHANGED <<now, truth, rev>>
        /\ worker' = [worker EXCEPT ![w].at = "commit",
                                    ![w].snap = [of |-> Reported, rev |-> rev, at |-> now]]
    BY <1>4 DEF Retrieve
  <2>2. worker[w] \in Worker /\ worker \in [Workers -> Worker]
    BY DEF CInv, TypeOK
  <2>3. worker'[w].snap = [of |-> Reported, rev |-> rev, at |-> now]
    BY <2>1, <2>2 DEF Worker
  <2>4. \A v \in Workers \ {w} : worker'[v] = worker[v]
    BY <2>1, <2>2
  <2>5. /\ StripeAdapter /\ Reported.state = "past-due" => Reported.failedAt = now
        /\ Failed => truth.failedAt <= Reported.failedAt
    <3>1. CASE StripeAdapter
      BY <1>0, <3>1 DEF Reported, HInv, Failed, Truth
    <3>2. CASE ~StripeAdapter
      BY <1>0, <3>2 DEF Reported, Failed, Truth
    <3>3. QED BY <3>1, <3>2
  <2>6. ASSUME NEW v \in Workers, Reads(v)'
        PROVE  /\ worker'[v].snap.at <= now'
               /\ StripeAdapter /\ worker'[v].snap.of.state = "past-due" =>
                      worker'[v].snap.of.failedAt = worker'[v].snap.at
               /\ worker'[v].snap.rev = rev' /\ Failed' => truth'.failedAt <= worker'[v].snap.of.failedAt
    <3>1. CASE v = w
      BY <1>0, <2>1, <2>3, <2>5, <3>1 DEF Fresh, Failed
    <3>2. CASE v # w
      BY <1>2, <2>4, <2>6, <3>2 DEF Reads
    <3>3. QED BY <3>1, <3>2
  <2>7. QED BY <2>6 DEF SnapshotsFresh, Fresh
<1>5. CASE \A w \in Workers : ~Retrieve(w)
  <2>1. \A w \in Workers : worker[w] \in Worker /\ worker \in [Workers -> Worker]
    BY DEF CInv, TypeOK
  <2>2. CASE UNCHANGED worker
    BY <1>3, <2>2 DEF Reads
  <2>3. ASSUME NEW w \in Workers,
               \/ \E e \in Event : Deliver(w, e)
               \/ ReconcileFails(w) \/ Commit(w) \/ MarkRetryable(w) \/ Lose(w)
        PROVE  SnapshotsFresh'
    <3>1. worker'[w] = worker[w] \/ worker'[w].at # "commit"
      BY <2>1, <2>3 DEF Deliver, ReconcileFails, Commit, MarkRetryable, Lose, Answer, Idle, Worker
    <3>2. \A v \in Workers \ {w} : worker'[v] = worker[v]
      BY <2>1, <2>3 DEF Deliver, ReconcileFails, Commit, MarkRetryable, Lose, Answer
    <3>3. QED BY <1>3, <3>1, <3>2 DEF Reads
  <2>4. QED BY <1>5, <2>2, <2>3
            DEF Next, vars, Tick, Subscribe, ProviderChanges, Reconcile, Manage, Send, Load, Call,
                Save, Review, Replace, Abort
<1>6. QED BY <1>4, <1>5

\* A command that is saved keeps the fingerprint of the row.
LEMMA FingerprintStays ==
    ASSUME CInv, DInv, NEW c \in Commands, Save(c) \/ Review(c)
    PROVE  row'.fingerprint = row.fingerprint
<1>1. PICK r \in Row : r = command[c].base
  BY DEF CInv, TypeOK, Command
<1>2. row = r
  BY <1>1 DEF Save, Review, Replace, DInv, BasesCurrent
<1>3. CASE Save(c)
  <2>1. row' = After(command[c].kind, r, command[c].since)
    BY <1>1, <1>3 DEF Save, Replace
  <2>2. QED BY <1>2, <2>1, AfterKeeps
<1>4. CASE Review(c)
  <2> DEFINE n == r.ver + 1
  <2>1. row' = [r EXCEPT !.status = "refund-review", !.ver = n]
    BY <1>1, <1>4 DEF Review, Replace
  <2> HIDE DEF n
  <2>2. QED BY <1>2, <2>1 DEF Row
<1>5. QED BY <1>3, <1>4

\* A commit of the present revision grants what its snapshot dates, and that is no earlier.
LEMMA CommitGrants ==
    ASSUME CInv, DInv, HInv, NEW w \in Workers, Commit(w) PROVE GraceHeld'
<1>1. PICK s \in Snapshot : s = worker[w].snap
  BY DEF CInv, TypeOK, Worker
<1>2. /\ Reads(w) /\ s.of.sub # NoSub /\ Write(s) /\ applied' = s.rev
      /\ UNCHANGED <<now, truth, rev>>
  BY <1>1 DEF Commit, Reads
<1>3. row'.fingerprint = Made(s.of, s.at)
  BY <1>2, WrittenReflects
<1>4. Reported'.invoice = Reported.invoice /\ Reported.state = truth.state
  BY <1>2 DEF Reported, CInv, TypeOK, Truth
<1>5. ASSUME s.rev = rev, Failed, Reported.invoice = "paid"
      PROVE  /\ row'.fingerprint.ends >= truth.failedAt + GracePeriod
             /\ row'.fingerprint.status = "grace" \/ now >= truth.failedAt + GracePeriod
  <2>1. s.of.state = "past-due" /\ s.of.invoice = "paid"
    BY <1>1, <1>2, <1>4, <1>5 DEF DInv, SnapshotsCurrent, Twins, Failed
  <2>2. truth.failedAt <= s.of.failedAt /\ s.at <= now
    BY <1>1, <1>2, <1>5 DEF HInv, SnapshotsFresh, Fresh
  <2>3. /\ now \in Nat /\ truth.failedAt \in Nat /\ s.at \in Nat /\ s.of.failedAt \in Nat
        /\ GracePeriod \in Nat
    <3>1. Next
      BY DEF Next, Reconcile
    <3>2. QED BY <1>1, <3>1, Clock, CommerceAssumption
  <2>4. PICK r : /\ r.of = s.of /\ r.at = s.at /\ Made(s.of, s.at).status = StatusOf(r)
                 /\ s.of.invoice = "paid" => Made(s.of, s.at).ends = GraceEnds(r)
    BY Parts
  <2>5. GraceEnds(r) = s.of.failedAt + GracePeriod
    BY <2>1, <2>4 DEF GraceEnds
  <2>6. row'.fingerprint.status = "grace" \/ s.at >= s.of.failedAt + GracePeriod
    BY <1>3, <2>1, <2>3, <2>4, <2>5 DEF StatusOf
  <2>7. row'.fingerprint.ends = s.of.failedAt + GracePeriod
    BY <1>3, <2>1, <2>4, <2>5
  <2>8. QED BY <2>2, <2>3, <2>6, <2>7
<1>6. QED BY <1>2, <1>4, <1>5 DEF GraceHeld, Failed

\* Nothing shortens the grace the row grants.
LEMMA GraceStep ==
    ASSUME CInv, DInv, HInv, [Next]_vars PROVE GraceHeld'
<1>0. /\ now \in Nat /\ now' \in Nat /\ now <= now' /\ truth.failedAt \in Nat
      /\ GracePeriod \in Nat /\ rev \in Nat /\ applied \in Nat /\ applied <= rev
  BY Clock, CommerceAssumption DEF CInv, TypeOK, DInv, RowReflects
<1>1. CASE UNCHANGED <<truth, rev, applied>> /\ row'.fingerprint = row.fingerprint
  <2>1. Reported'.invoice = Reported.invoice
    BY <1>1 DEF Reported, CInv, TypeOK, Truth
  <2>2. QED BY <1>0, <1>1, <2>1 DEF HInv, GraceHeld, Failed
<1>2. CASE rev' = rev + 1 /\ UNCHANGED applied
  BY <1>0, <1>2 DEF GraceHeld
<1>3. CASE Subscribe \/ ProviderChanges \/ \E c \in Commands : Call(c)
  BY <1>1, <1>2, <1>3 DEF Subscribe, ProviderChanges, Call, Publish
<1>4. CASE \E c \in Commands : Save(c) \/ Review(c)
  <2>1. UNCHANGED <<truth, rev, applied>>
    BY <1>4 DEF Save, Review, Replace
  <2>2. QED BY <1>1, <1>4, <2>1, FingerprintStays
<1>5. CASE \E w \in Workers : Commit(w)
  BY <1>5, CommitGrants
<1>6. CASE UNCHANGED <<truth, rev, applied, row>>
  BY <1>1, <1>6
<1>7. QED BY <1>3, <1>4, <1>5, <1>6
          DEF Next, vars, Tick, Reconcile, Deliver, Retrieve, ReconcileFails, MarkRetryable, Lose,
              Manage, Send, Load, Abort

\* The three invariants together.
LEMMA Lasting == Spec => [](CInv /\ DInv /\ HInv)
<1>1. ASSUME Init PROVE HInv
  BY <1>1 DEF Init, NoTruth, Idle, HInv, Failed, SnapshotsFresh, Reads, GraceHeld
<1>2. Init => CInv /\ DInv /\ HInv
  BY <1>1, InitInv, InitDated
<1>3. CInv /\ DInv /\ HInv /\ [Next]_vars => CInv' /\ DInv' /\ HInv'
  BY StepInv, StepDated, FailureStep, FreshStep, GraceStep DEF HInv
<1>4. QED BY <1>2, <1>3, PTL DEF Spec

\* Whatever requests overlap, repeat or are lost, and whichever adapter reports: applying the same
\* revision again gives an entitlement a new version only when time has changed its worth, or in
\* the grace of a payment that failed (the fingerprint in reconcileCommerce).
THEOREM VersionsAreEarned == Spec => AppliedOnce
<1>1. CInv /\ DInv /\ HInv /\ [Next]_vars =>
        [\A s \in Subscriptions :
             entitlement'[s].ver # entitlement[s].ver =>
                 \/ applied' # applied
                 \/ entitlement'[s].status # entitlement[s].status
                 \/ entitlement'[s].status = "grace"]_vars
  BY VersionStep DEF HInv
<1>2. QED BY <1>1, Lasting, PTL DEF Spec, AppliedOnce

-----------------------------------------------------------------------------
(***************************************************************************)
(* The order of revisions                                                  *)
(*                                                                         *)
(* A request reads no less than the event it works on announced, so that   *)
(* an event that is processed has been applied, though an older retrieval  *)
(* may have been applied after it (OInv).                                  *)
(***************************************************************************)
\* The provider has a subscription once it has announced anything, and a command that needs a
\* subscription was admitted for one.
Announced ==
    /\ rev > 0 => truth.sub # NoSub
    /\ \A c \in Commands :
          command[c].at = "calling" /\ command[c].kind \in NeedsSubscription =>
              command[c].base.sub # NoSub

\* Events are those of past revisions; what is processed was applied.
InOrder ==
    /\ owed \subseteq 1 .. rev
    /\ \A w \in Workers : worker[w].at # "idle" => worker[w].event <= rev
    /\ \A w \in Workers : Reads(w) => worker[w].event <= worker[w].snap.rev
    /\ newest <= rev /\ applied <= newest
    /\ \A e \in Event : inbox[e] = "processed" => e <= newest

OInv == Announced /\ InOrder /\ NewsIsKept

\* Whatever is announced is about a subscription.
LEMMA AnnouncedStep == ASSUME CInv, Announced, [Next]_vars PROVE Announced'
<1>1. rev' > 0 => truth'.sub # NoSub
  <2>1. CASE UNCHANGED <<truth, rev>>
    BY <2>1 DEF Announced
  <2>2. CASE Subscribe
    <3>1. PICK s \in Subscriptions : truth'.sub = s
      BY <2>2 DEF Subscribe, Publish
    <3>2. QED BY <3>1, CommerceAssumption DEF NoSub
  <2>3. CASE ProviderChanges
    BY <2>3 DEF ProviderChanges, Publish, Renew, Fail, Settle, CInv, TypeOK, Truth
  <2>4. ASSUME NEW c \in Commands, Call(c) PROVE rev' > 0 => truth'.sub # NoSub
    <3>1. \/ UNCHANGED <<truth, rev>>
          \/ /\ truth' = Mutated(command[c].kind) /\ truth' # truth
             /\ command[c].base.sub = truth.sub
      BY <2>4 DEF Call, Publish
    <3>2. CASE truth' = Mutated(command[c].kind) /\ truth' # truth /\ command[c].base.sub = truth.sub
      <4>1. truth'.sub = truth.sub
        BY <3>2, Mutates
      <4>2. command[c].kind \in NeedsSubscription
        BY <3>2 DEF Mutated, NeedsSubscription
      <4>3. QED BY <2>4, <3>2, <4>1, <4>2 DEF Announced, Call
    <3>3. QED BY <2>1, <3>1, <3>2
  <2>5. QED BY <2>1, <2>2, <2>3, <2>4
            DEF Next, vars, Tick, Reconcile, Deliver, Retrieve, ReconcileFails, Commit,
                MarkRetryable, Lose, Manage, Send, Load, Save, Review, Replace, Abort
<1>2. \A c \in Commands :
          command'[c].at = "calling" /\ command'[c].kind \in NeedsSubscription =>
              command'[c].base.sub # NoSub
  <2> SUFFICES ASSUME NEW c \in Commands, command'[c].at = "calling",
                      command'[c].kind \in NeedsSubscription
               PROVE  command'[c].base.sub # NoSub
    OBVIOUS
  <2>0. command[c] \in Command /\ command \in [Commands -> Command]
    BY DEF CInv, TypeOK
  <2>1. CASE command'[c] = command[c]
    BY <2>1 DEF Announced
  <2>2. ASSUME NEW d \in Commands, Load(d) PROVE command'[c].base.sub # NoSub
    <3>1. CASE d = c
      BY <2>0, <2>2, <3>1 DEF Load, Done, Unused, Command
    <3>2. CASE d # c
      BY <2>0, <2>1, <2>2, <3>2 DEF Load
    <3>3. QED BY <3>1, <3>2
  <2>3. ASSUME NEW d \in Commands,
               (\E kind \in Kinds : Send(d, kind)) \/ Call(d) \/ Save(d) \/ Review(d) \/ Abort(d)
        PROVE  command'[c] = command[c]
    BY <2>0, <2>3 DEF Send, Call, Save, Review, Replace, Abort, Done, Unused, Command
  <2>4. QED BY <2>1, <2>2, <2>3
            DEF Next, vars, Tick, Subscribe, ProviderChanges, Reconcile, Deliver, Retrieve,
                ReconcileFails, Commit, MarkRetryable, Lose, Manage, Answer
<1>3. QED BY <1>1, <1>2 DEF Announced

\* A request reads the revision of its event or a later one, and the newest that was read is kept.
LEMMA OrderStep == ASSUME CInv, DInv, InOrder, NewsIsKept, [Next]_vars PROVE InOrder' /\ NewsIsKept'
<1>0. /\ rev \in Nat /\ applied \in Nat /\ newest \in Nat /\ owed \subseteq Event
      /\ \A e \in Event : e \in Nat
      /\ inbox \in [Event -> InboxStates] /\ worker \in [Workers -> Worker]
      /\ \A w \in Workers : worker[w].snap.rev \in Nat /\ worker[w].event \in Nat
      /\ \A w \in Workers : Reads(w) => worker[w].snap.rev <= rev
  BY CommerceAssumption DEF CInv, TypeOK, DInv, SnapshotsCurrent, Worker, Snapshot, Event
<1>1. CASE UNCHANGED <<owed, rev, worker, inbox, applied, newest, dismissed>>
  BY <1>1 DEF InOrder, NewsIsKept, Reads
<1>2. CASE \E new : Publish(new) /\ UNCHANGED <<worker, inbox, applied, newest, dismissed>>
  <2>1. rev' = rev + 1 /\ owed' = owed \cup {rev + 1}
    BY <1>2 DEF Publish
  <2>2. owed' \subseteq 1 .. rev'
    BY <1>0, <2>1 DEF InOrder
  <2>3. \A w \in Workers : worker[w].at # "idle" => worker[w].event <= rev'
    BY <1>0, <2>1 DEF InOrder
  <2>4. InOrder'
    BY <1>0, <1>2, <2>1, <2>2, <2>3 DEF InOrder, Reads
  <2>5. NewsIsKept'
    BY <1>0, <1>2, <2>1 DEF NewsIsKept
  <2>6. QED BY <2>4, <2>5
<1>3. ASSUME NEW w \in Workers, Reconcile(w) PROVE InOrder' /\ NewsIsKept'
  <2>0. UNCHANGED rev
    BY <1>3 DEF Reconcile, Deliver, Retrieve, ReconcileFails, Commit, MarkRetryable, Lose
  <2>v. \A v \in Workers \ {w} : worker'[v] = worker[v]
    BY <1>0, <1>3 DEF Reconcile, Deliver, Retrieve, ReconcileFails, Commit, MarkRetryable, Lose, Answer
  <2>1. ASSUME NEW e \in Event, Deliver(w, e) PROVE InOrder' /\ NewsIsKept'
    <3>1. /\ e \in 1 .. rev /\ owed' \subseteq owed /\ UNCHANGED <<applied, newest>>
          /\ \A d \in owed \ owed' : d = e /\ inbox[e] \notin {"absent", "retryable"}
          /\ dismissed \subseteq dismissed' /\ (inbox[e] = "processing" /\ e \notin owed' => e \in dismissed')
      BY <2>1 DEF Deliver, InOrder, Claimable
    <3>2. \/ UNCHANGED <<worker, inbox>>
          \/ worker'[w].at = "retrieve" /\ worker'[w].event = e
      BY <1>0, <2>1 DEF Deliver
    <3>3. \A d \in Event : inbox'[d] = "processed" => inbox[d] = "processed"
      BY <1>0, <2>1 DEF Deliver
    <3>4. InOrder'
      BY <1>0, <2>0, <2>v, <3>1, <3>2, <3>3 DEF InOrder, Reads
    <3>5. e \notin owed' => e <= newest \/ e \in dismissed'
      <4>1. inbox[e] \in InboxStates
        BY <1>0
      <4>2. QED BY <1>0, <2>1, <3>1, <4>1 DEF InOrder, InboxStates, Deliver, Claimable
    <3>6. NewsIsKept'
      BY <2>0, <3>1, <3>5 DEF NewsIsKept
    <3>7. QED BY <3>4, <3>6
  <2>2. CASE Retrieve(w) \/ ReconcileFails(w)
    <3>1. /\ worker[w].at # "idle" /\ UNCHANGED <<owed, inbox, applied, newest, dismissed>>
          /\ worker'[w].event = worker[w].event
          /\ worker'[w].at = "failing" \/ worker'[w].snap.rev = rev
      BY <1>0, <2>2 DEF Retrieve, ReconcileFails, Worker
    <3>2. InOrder'
      BY <1>0, <2>0, <2>v, <3>1 DEF InOrder, Reads
    <3>3. QED BY <2>0, <3>1, <3>2 DEF NewsIsKept
  <2>3. CASE Commit(w)
    <3>1. /\ Reads(w) /\ applied' = worker[w].snap.rev
          /\ newest' = IF worker[w].snap.rev > newest THEN worker[w].snap.rev ELSE newest
          /\ owed' \subseteq owed /\ owed \ owed' \subseteq {worker[w].event} /\ UNCHANGED dismissed
          /\ inbox' = [inbox EXCEPT ![worker[w].event] = "processed"]
      BY <2>3 DEF Commit, Reads, Answer
    <3>2. worker'[w].at # "commit" /\ (worker'[w].at # "idle" => worker'[w].event = worker[w].event)
      BY <1>0, <2>3 DEF Commit, Answer, Idle, Worker
    <3>3. \A e \in Event : inbox'[e] = "processed" => e = worker[w].event \/ inbox[e] = "processed"
      BY <1>0, <3>1
    <3>4. /\ newest \in Nat /\ newest' \in Nat /\ newest <= newest' /\ applied' <= newest'
          /\ newest' <= rev /\ worker[w].event <= newest'
      BY <1>0, <3>1 DEF InOrder
    <3>5. \A e \in Event : inbox'[e] = "processed" => e <= newest'
      BY <1>0, <3>3, <3>4 DEF InOrder
    <3>6. InOrder'
      BY <1>0, <2>0, <2>v, <3>1, <3>2, <3>4, <3>5 DEF InOrder, Reads
    <3>7. NewsIsKept'
      BY <1>0, <2>0, <3>1, <3>4 DEF NewsIsKept
    <3>8. QED BY <3>6, <3>7
  <2>4. CASE MarkRetryable(w) \/ Lose(w)
    <3>1. worker'[w].at = "idle" /\ UNCHANGED <<owed, applied, newest, dismissed>>
      BY <1>0, <2>4 DEF MarkRetryable, Lose, Answer, Idle
    <3>2. \A e \in Event : inbox'[e] = "processed" => inbox[e] = "processed"
      BY <1>0, <2>4 DEF MarkRetryable, Lose
    <3>3. InOrder'
      BY <2>0, <2>v, <3>1, <3>2 DEF InOrder, Reads
    <3>4. QED BY <2>0, <3>1, <3>3 DEF NewsIsKept
  <2>5. QED BY <1>3, <2>1, <2>2, <2>3, <2>4 DEF Reconcile
<1>4. QED BY <1>1, <1>2, <1>3
          DEF Next, vars, Tick, Subscribe, ProviderChanges, Manage, Send, Load, Call, Save, Review,
              Replace, Abort

\* The order holds from the start.
LEMMA Ordered == Spec => []OInv
<1>1. ASSUME Init PROVE OInv
  <2>1. Announced
    BY <1>1 DEF Init, Announced, Unused
  <2>2. InOrder
    BY <1>1 DEF Init, InOrder, Reads, Idle
  <2>3. NewsIsKept
    BY <1>1 DEF Init, NewsIsKept
  <2>4. QED BY <2>1, <2>2, <2>3 DEF OInv
<1>2. CInv /\ DInv /\ OInv /\ [Next]_vars => OInv'
  BY AnnouncedStep, OrderStep DEF OInv
<1>3. QED BY <1>1, <1>2, Lasting, PTL DEF Spec

\* No event is accepted in vain: a state no older than the one it announced has been applied, or a
\* delivery of it was accepted while another was at work (D-17, the claim in reconcileCommerce).
THEOREM NoNewsIsLost == Spec => []NewsIsKept
<1>1. OInv => NewsIsKept
  BY DEF OInv
<1>2. QED BY <1>1, Ordered, PTL

\* When every event is processed and nothing was overtaken, the row is what a report of the present
\* state is worth.
LEMMA SettledReflects ==
    ASSUME CInv, DInv, OInv, Settled, ~Overtaken
    PROVE  truth.sub # NoSub /\ applied = rev /\ Reflects(Reported)
<1>1. rev \in Event /\ rev \in Nat /\ rev > 0 /\ newest \in Nat /\ applied \in Nat
  BY CommerceAssumption DEF Settled, CInv, TypeOK, Event
<1>2. rev <= newest /\ applied <= newest /\ newest <= rev
  BY <1>1 DEF Settled, OInv, InOrder
<1>3. applied = rev
  BY <1>1, <1>2 DEF Overtaken
<1>4. QED BY <1>1, <1>3 DEF DInv, RowReflects, OInv, Announced

\* The worth of the state that is settled.
LEMMA SettledRow ==
    ASSUME CInv, DInv, OInv, Settled, ~Overtaken
    PROVE  \E s : /\ row.sub = truth.sub /\ truth.sub # NoSub
                  /\ s.of.state = Reported.state /\ s.of.invoice = Reported.invoice
                  /\ s.of.cancel = Reported.cancel
                  /\ row.fingerprint.status = StatusOf(s)
                  /\ entitlement[truth.sub].allow = Grants(StatusOf(s))
<1>1. Reported.sub = truth.sub
  BY DEF Reported, CInv, TypeOK, Truth
<1>2. PICK t : t = Reported
  OBVIOUS
<1>3. t.sub = truth.sub /\ t.sub # NoSub /\ Reflects(t)
  BY <1>1, <1>2, SettledReflects
<1>4. PICK u \in Truth, at \in Time :
          row.sub = t.sub /\ Twins(u, t) /\ row.fingerprint = Made(u, at)
  BY <1>3 DEF Reflects
<1>5. PICK s : s.of = u /\ Made(u, at).status = StatusOf(s)
  BY Parts
<1>6. entitlement[truth.sub].allow = Grants(StatusOf(s))
  BY <1>3, <1>4, <1>5 DEF DInv, Carried
<1>7. QED BY <1>2, <1>3, <1>4, <1>5, <1>6 DEF Twins

\* When every event is processed the customer has what the provider reports of the subscription
\* deserves, whatever was late, repeated, lost, failed or overlapped, unless an older retrieval was
\* committed after a newer one (D-17, reconcileCommerce).
THEOREM EntitlementIsRight == Spec => []SettledUnlessOvertaken
<1>1. ASSUME CInv, DInv, OInv PROVE SettledUnlessOvertaken
  <2> SUFFICES ASSUME Settled, ~Overtaken PROVE EntitlementFollowsProvider
    BY DEF SettledUnlessOvertaken
  <2>1. PICK t : t = Reported
    OBVIOUS
  <2>2. PICK s : /\ s.of.state = t.state /\ s.of.invoice = t.invoice /\ s.of.cancel = t.cancel
                 /\ entitlement[truth.sub].allow = Grants(StatusOf(s))
    BY <1>1, <2>1, SettledRow
  <2>3. t.invoice \in InvoiceStates
    BY <1>1, <2>1 DEF Reported, CInv, TypeOK, Truth, InvoiceStates
  <2>4. Owing(t) => ~Grants(StatusOf(s))
    BY <2>2, <2>3 DEF Owing, StatusOf, Grants, InvoiceStates
  <2>5. Paying(t) => Grants(StatusOf(s))
    BY <2>2 DEF Paying, StatusOf, Grants
  <2>6. QED BY <2>1, <2>2, <2>4, <2>5 DEF EntitlementFollowsProvider, Owing, Paying
<1>2. QED BY <1>1, Lasting, Ordered, PTL

\* The grace of a failed payment does not end before its time, whichever adapter dates the failure
\* (D-12, stateFromProvider).
THEOREM GraceIsWhole == Spec => []GraceIsNotCutShort
<1>1. ASSUME CInv, DInv, HInv, OInv PROVE GraceIsNotCutShort
  <2> SUFFICES ASSUME Settled, ~Overtaken, Failed, Reported.invoice = "paid"
               PROVE  /\ row.ends >= truth.failedAt + GracePeriod
                      /\ entitlement[truth.sub].allow \/ now >= truth.failedAt + GracePeriod
    BY DEF GraceIsNotCutShort, Failed
  <2>1. /\ row.fingerprint.ends >= truth.failedAt + GracePeriod
        /\ row.fingerprint.status = "grace" \/ now >= truth.failedAt + GracePeriod
    BY <1>1, SettledReflects DEF HInv, GraceHeld
  <2>2. row.fingerprint.status = "grace" => entitlement[truth.sub].allow
    BY <1>1, SettledRow DEF Grants
  <2>3. QED BY <1>1, <2>1, <2>2 DEF DInv, Carried
<1>2. QED BY <1>1, Lasting, Ordered, PTL

=============================================================================
