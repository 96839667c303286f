-------------------------- MODULE PlanExecutionProofs --------------------------
(***************************************************************************)
(* Proofs about PlanExecution for any transactions, schemes, prior and     *)
(* requested states and operations, and journals of any length.            *)
(*                                                                         *)
(* The safety properties are about the journal that crashes leave behind;  *)
(* what makes them inductive is what a running call remembers of it.  The  *)
(* strengthening IInv has three parts: JournalInv says how the events of   *)
(* one transaction follow each other, CallInv relates the running call to  *)
(* the last event of its transaction, and GateInv says that whatever       *)
(* load_recovery would report belongs to the call that runs.               *)
(***************************************************************************)
EXTENDS PlanExecution, SequenceTheorems, TLAPS

-----------------------------------------------------------------------------
(***************************************************************************)
(* The inductive invariant                                                 *)
(***************************************************************************)
IsLast(i, t) == i \in EventsOf(t) /\ \A j \in EventsOf(t) : journal[j].sequence <= journal[i].sequence

\* An event follows its transaction's row, the events before it and the prepared one.
Stored == \A i \in DOMAIN journal : journal[i].txn \in transactions
Increasing ==
    \A i, j \in DOMAIN journal :
        i < j /\ journal[i].txn = journal[j].txn => journal[i].sequence < journal[j].sequence
PreparedFirst == \A i \in DOMAIN journal : Has(journal[i].txn, {"prepared"})

\* Nothing follows a terminal event.
TerminalIsLast == \A i \in DOMAIN journal : journal[i].state \in Terminal => IsLast(i, journal[i].txn)

\* load_recovery finds an event in a journal that has one.
SomeLatest == journal # <<>> => \E i \in DOMAIN journal : IsLatest(i)

JournalInv ==
    /\ Stored /\ Increasing /\ PreparedFirst /\ TerminalIsLast /\ SomeLatest
    /\ VerdictFollowsObservation

SentOnce == \A t \in Transactions : dispatches[t] = 0 \/ (dispatches[t] = 1 /\ Has(t, {"prepared"}))

\* What the call's position says of the journal.
Unwritten == {"transaction", "prepare"}
Sending == {"dispatch", "await", "returned"}
Unsettled == Sending \cup {"observe", "observed", "verdict"}

NothingWritten ==
    /\ call.at \in Unwritten => call.chain = "native" /\ call.sequence = -1
    /\ call.at = "prepare" => call.txn \in transactions /\ EventsOf(call.txn) = {}

NotObserved ==
    /\ call.at \in Sending => call.chain = "native" /\ ~Has(call.txn, {"observed"})
    /\ call.at = "dispatch" => dispatches[call.txn] = 0

AtLastEvent ==
    call.at \in Unsettled =>
        /\ ~Settled(call.txn)
        /\ \E i \in DOMAIN journal : IsLast(i, call.txn) /\ journal[i].sequence = call.sequence

AtObservation ==
    call.at = "verdict" =>
        \E i \in EventsOf(call.txn) :
            /\ journal[i].state = "observed"
            /\ journal[i].sequence = call.sequence
            /\ journal[i].chain = call.chain
            /\ journal[i].observed = call.observed

AtSuccess ==
    call.at = "receipt" =>
        \E i \in DOMAIN journal :
            /\ IsLast(i, call.txn)
            /\ journal[i].state = Reconcile(call.txn, call.observed)
            /\ ReceiptEligible(journal[i].state)
            /\ journal[i].observed = call.observed

CallInv == NothingWritten /\ NotObserved /\ AtLastEvent /\ AtObservation /\ AtSuccess

\* What is pending belongs to the running call, and nothing is pending behind an open gate.
GateInv ==
    /\ call.at # "idle" => \A i \in DOMAIN journal : Pending(i) => journal[i].txn = call.txn
    /\ GateAgreesWithRecovery

IInv ==
    /\ TypeOK /\ JournalInv /\ SentOnce /\ CallInv /\ GateInv
    /\ ReceiptCertifiesRequested /\ SuccessShownIsDurable

-----------------------------------------------------------------------------
(***************************************************************************)
(* Reading and extending the journal                                       *)
(***************************************************************************)
States == Verdict \cup {"prepared", "dispatch-returned", "observed"}

\* What reconcile concludes, and from what a success follows.
LEMMA ReconcileFacts ==
    ASSUME NEW t, NEW observed
    PROVE  /\ Reconcile(t, observed) \in Verdict
           /\ Reconcile(t, observed) \in Terminal \/ Reconcile(t, observed) = "unknown"
           /\ ReceiptEligible(Reconcile(t, observed)) =>
                 observed = Requested[t] /\ Reconcile(t, observed) \in Terminal
<1>1. CASE observed = Unknown
  BY <1>1 DEF Reconcile, Verdict, ReceiptEligible, Terminal
<1>2. CASE observed # Unknown
  BY <1>2 DEF Reconcile, Verdict, ReceiptEligible, Terminal
<1>3. QED BY <1>1, <1>2

LEMMA JournalTyped ==
    ASSUME journal \in Seq(Event)
    PROVE  /\ Len(journal) \in Nat
           /\ DOMAIN journal = 1 .. Len(journal)
           /\ \A i \in DOMAIN journal : /\ journal[i] \in Event /\ journal[i].sequence \in Nat
                                       /\ journal[i].txn \in Transactions
<1>1. Len(journal) \in Nat /\ DOMAIN journal = 1 .. Len(journal)
  BY LenProperties
<1>2. \A i \in DOMAIN journal : journal[i] \in Event
  BY <1>1, ElementOfSeq
<1>3. QED BY <1>1, <1>2 DEF Event

\* The journal after an append: one event more, behind all others.
LEMMA Growth ==
    ASSUME journal \in Seq(Event), NEW e \in Event, journal' = Append(journal, e)
    PROVE  /\ journal' \in Seq(Event)
           /\ Len(journal) \in Nat
           /\ DOMAIN journal = 1 .. Len(journal)
           /\ DOMAIN journal' = 1 .. Len(journal) + 1
           /\ \A i \in DOMAIN journal : journal[i] \in Event /\ journal'[i] = journal[i]
           /\ journal'[Len(journal) + 1] = e
<1>1. /\ Len(journal) \in Nat /\ DOMAIN journal = 1 .. Len(journal)
      /\ \A i \in DOMAIN journal : journal[i] \in Event
  BY JournalTyped
<1>2. /\ journal' \in Seq(Event) /\ Len(journal') = Len(journal) + 1
      /\ \A i \in 1 .. Len(journal) : journal'[i] = journal[i]
      /\ journal'[Len(journal) + 1] = e
  BY AppendProperties
<1>3. DOMAIN journal' = 1 .. Len(journal')
  BY <1>2, LenProperties
<1>4. QED BY <1>1, <1>2, <1>3

\* Only the transaction of the new event sees it.
LEMMA GrowthOf ==
    ASSUME journal \in Seq(Event), NEW e \in Event, journal' = Append(journal, e), NEW t
    PROVE  /\ EventsOf(t)' = IF e.txn = t THEN EventsOf(t) \cup {Len(journal) + 1} ELSE EventsOf(t)
           /\ \A i \in EventsOf(t) : i \in DOMAIN journal /\ journal'[i] = journal[i]
           /\ Len(journal) + 1 \notin EventsOf(t)
           /\ journal'[Len(journal) + 1] = e
  BY Growth DEF EventsOf

LEMMA GrowthHas ==
    ASSUME journal \in Seq(Event), NEW e \in Event, journal' = Append(journal, e), NEW t, NEW S
    PROVE  Has(t, S)' <=> Has(t, S) \/ (e.txn = t /\ e.state \in S)
<1>1. Has(t, S)' => Has(t, S) \/ (e.txn = t /\ e.state \in S)
  BY GrowthOf DEF Has
<1>2. Has(t, S) => Has(t, S)'
  BY GrowthOf DEF Has
<1>3. e.txn = t /\ e.state \in S => Has(t, S)'
  BY GrowthOf DEF Has
<1>4. QED BY <1>1, <1>2, <1>3

\* The event that load_recovery finds is one event.
LEMMA OneLatest ==
    ASSUME journal \in Seq(Event), NEW i \in DOMAIN journal, NEW j \in DOMAIN journal,
           IsLatest(i), IsLatest(j)
    PROVE  i = j
<1>1. /\ DOMAIN journal = 1 .. Len(journal) /\ Len(journal) \in Nat
      /\ journal[i].sequence \in Nat /\ journal[j].sequence \in Nat
  BY JournalTyped
<1>2. QED BY <1>1 DEF IsLatest

\* A transaction has one last event.
LEMMA OneLast ==
    ASSUME journal \in Seq(Event), Increasing, NEW t, NEW i, NEW j, IsLast(i, t), IsLast(j, t)
    PROVE  i = j
<1>1. /\ i \in DOMAIN journal /\ j \in DOMAIN journal
      /\ journal[i].txn = t /\ journal[j].txn = t
      /\ journal[i].sequence <= journal[j].sequence /\ journal[j].sequence <= journal[i].sequence
  BY DEF IsLast, EventsOf
<1>2. /\ i \in Nat /\ j \in Nat
      /\ journal[i].sequence \in Nat /\ journal[j].sequence \in Nat
  BY <1>1, JournalTyped
<1>3. ~(i < j) /\ ~(j < i)
  BY <1>1, <1>2 DEF Increasing
<1>4. QED BY <1>2, <1>3

\* The latest event of the journal is the last of its transaction.
LEMMA LatestIsLast ==
    ASSUME journal \in Seq(Event), NEW i \in DOMAIN journal, IsLatest(i)
    PROVE  IsLast(i, journal[i].txn)
<1>1. /\ DOMAIN journal = 1 .. Len(journal) /\ Len(journal) \in Nat
      /\ \A j \in DOMAIN journal : journal[j].sequence \in Nat
  BY JournalTyped
<1>2. QED BY <1>1 DEF IsLatest, IsLast, EventsOf

\* The latest event after an append is the new one or was the latest before.
LEMMA LatestGrows ==
    ASSUME journal \in Seq(Event), NEW e \in Event, journal' = Append(journal, e),
           NEW i \in DOMAIN journal, IsLatest(i)'
    PROVE  IsLatest(i)
  BY Growth DEF IsLatest

-----------------------------------------------------------------------------
(***************************************************************************)
(* What a running call writes                                              *)
(***************************************************************************)
MayWrite(state) ==
    \/ call.at = "prepare" /\ state = "prepared"
    \/ call.at = "returned" /\ state = "dispatch-returned"
    \/ call.at = "observed" /\ state = "observed"
    \/ call.at = "verdict" /\ state = Reconcile(call.txn, call.observed)

Grows(state) ==
    /\ Acceptable(EventOf(state))
    /\ journal' = Append(journal, EventOf(state))
    /\ transactions' = transactions

\* Beyond its prepared event a call belongs to a prepared transaction that is not settled.
LEMMA RunningCall ==
    ASSUME IInv, call.at # "idle"
    PROVE  /\ up /\ call.txn \in Transactions
           /\ call.sequence \in Int /\ call.chain \in Chains
           /\ call.observed \in Schemes \cup {Unknown}
           /\ call.at \in Unsettled => /\ call.sequence \in Nat /\ ~Settled(call.txn)
                                       /\ Has(call.txn, {"prepared"})
<1>1. /\ up /\ call.txn \in Transactions
      /\ call.sequence \in Int /\ call.chain \in Chains
      /\ call.observed \in Schemes \cup {Unknown}
  BY DEF IInv, TypeOK, Call
<1>2. ASSUME call.at \in Unsettled
      PROVE  call.sequence \in Nat /\ ~Settled(call.txn) /\ Has(call.txn, {"prepared"})
  <2>1. PICK i \in DOMAIN journal : IsLast(i, call.txn) /\ journal[i].sequence = call.sequence
    BY <1>2 DEF IInv, CallInv, AtLastEvent
  <2>2. journal[i].txn = call.txn /\ journal[i].sequence \in Nat
    BY <2>1, JournalTyped DEF IsLast, EventsOf, IInv, TypeOK
  <2>3. QED BY <1>2, <2>1, <2>2 DEF IInv, CallInv, AtLastEvent, JournalInv, PreparedFirst
<1>3. QED BY <1>1, <1>2

LEMMA WriteFacts ==
    ASSUME IInv, NEW state, MayWrite(state)
    PROVE  /\ EventOf(state) \in Event
           /\ EventOf(state).txn = call.txn /\ EventOf(state).chain = call.chain
           /\ EventOf(state).sequence = call.sequence + 1
           /\ EventOf(state).state = state /\ EventOf(state).observed = call.observed
           /\ call.txn \in Transactions /\ call.at # "idle"
           /\ call.sequence \in Int /\ call.sequence + 1 \in Nat
           /\ ~Settled(call.txn)
           /\ state = "prepared" \/ Has(call.txn, {"prepared"})
<1>1. call.at = "prepare" \/ call.at \in Unsettled
  BY DEF MayWrite, Unsettled, Sending
<1>2. call.at # "idle"
  BY <1>1 DEF Unsettled, Sending
<1>3. /\ call.txn \in Transactions /\ call.sequence \in Int /\ call.chain \in Chains
      /\ call.observed \in Schemes \cup {Unknown}
  BY <1>2, RunningCall
<1>4. call.sequence + 1 \in Nat
  BY <1>1, <1>2, <1>3, RunningCall DEF IInv, CallInv, NothingWritten, Unwritten
<1>5. ~Settled(call.txn) /\ (state = "prepared" \/ Has(call.txn, {"prepared"}))
  <2>1. CASE call.at = "prepare"
    <3>1. state = "prepared" /\ EventsOf(call.txn) = {}
      BY <2>1 DEF MayWrite, IInv, CallInv, NothingWritten
    <3>2. QED BY <3>1 DEF Settled, Has
  <2>2. CASE call.at \in Unsettled
    BY <1>2, <2>2, RunningCall
  <2>3. QED BY <1>1, <2>1, <2>2
<1>6. state \in Verdict \cup {"prepared", "dispatch-returned", "observed"}
  BY ReconcileFacts DEF MayWrite
<1>7. EventOf(state) \in Event
  BY <1>3, <1>4, <1>6 DEF EventOf, Event
<1>8. QED BY <1>2, <1>3, <1>4, <1>5, <1>7 DEF EventOf

\* An append keeps how events follow each other.
LEMMA GrowsKeepsJournal ==
    ASSUME IInv, NEW state, MayWrite(state), Grows(state)
    PROVE  JournalInv'
<1> DEFINE e == EventOf(state)
           new == Len(journal) + 1
<1>1. /\ e \in Event /\ e.txn = call.txn /\ e.chain = call.chain /\ e.state = state
      /\ e.sequence = call.sequence + 1 /\ e.observed = call.observed
      /\ call.sequence \in Int /\ ~Settled(call.txn)
      /\ state = "prepared" \/ Has(call.txn, {"prepared"})
  BY WriteFacts
<1>2. /\ journal' = Append(journal, e) /\ journal \in Seq(Event)
      /\ e.txn \in transactions /\ transactions' = transactions
      /\ \A i \in EventsOf(call.txn) : journal[i].sequence < e.sequence
  BY <1>1 DEF Grows, Acceptable, IInv, TypeOK
<1> HIDE DEF e
<1>3. /\ journal' \in Seq(Event) /\ Len(journal) \in Nat
      /\ DOMAIN journal = 1 .. Len(journal) /\ DOMAIN journal' = 1 .. new
      /\ journal'[new] = e /\ e.sequence \in Nat
      /\ \A i \in DOMAIN journal : journal'[i] = journal[i] /\ journal[i].sequence \in Nat
  BY <1>1, <1>2, Growth, JournalTyped DEF Event
<1>4. \A i \in DOMAIN journal' : i \in DOMAIN journal \/ i = new
  BY <1>3
<1>5. Stored'
  BY <1>2, <1>3, <1>4 DEF IInv, JournalInv, Stored
<1>6. Increasing'
  <2> SUFFICES ASSUME NEW i \in DOMAIN journal', NEW j \in DOMAIN journal', i < j,
                      journal'[i].txn = journal'[j].txn
               PROVE  journal'[i].sequence < journal'[j].sequence
    BY DEF Increasing
  <2>1. i \in DOMAIN journal
    BY <1>3
  <2>2. CASE j \in DOMAIN journal
    BY <1>3, <2>1, <2>2 DEF IInv, JournalInv, Increasing
  <2>3. CASE j = new
    BY <1>1, <1>2, <1>3, <2>1, <2>3 DEF EventsOf
  <2>4. QED BY <1>4, <2>2, <2>3
<1>7. PreparedFirst'
  <2> SUFFICES ASSUME NEW t, NEW i \in DOMAIN journal', journal'[i].txn = t
               PROVE  Has(t, {"prepared"})'
    BY DEF PreparedFirst, Has, EventsOf
  <2>1. Has(t, {"prepared"})' <=> Has(t, {"prepared"}) \/ (e.txn = t /\ e.state = "prepared")
    BY <1>1, <1>2, GrowthHas
  <2>2. CASE i \in DOMAIN journal
    BY <1>3, <2>1, <2>2 DEF IInv, JournalInv, PreparedFirst
  <2>3. CASE i = new
    BY <1>1, <1>3, <2>1, <2>3
  <2>4. QED BY <1>4, <2>2, <2>3
<1>8. TerminalIsLast'
  <2> SUFFICES ASSUME NEW t, NEW i \in DOMAIN journal', journal'[i].txn = t,
                      journal'[i].state \in Terminal
               PROVE  IsLast(i, t)'
    BY DEF TerminalIsLast, IsLast, EventsOf
  <2>1. /\ EventsOf(t)' = IF e.txn = t THEN EventsOf(t) \cup {new} ELSE EventsOf(t)
        /\ \A j \in EventsOf(t) : j \in DOMAIN journal /\ journal'[j] = journal[j]
    BY <1>1, <1>2, GrowthOf
  <2>2. CASE i \in DOMAIN journal
    <3>1. IsLast(i, t) /\ journal'[i] = journal[i]
      BY <1>3, <2>2 DEF IInv, JournalInv, TerminalIsLast
    <3>2. t # call.txn
      BY <1>1, <2>2, <3>1 DEF Settled, Has, EventsOf
    <3>3. EventsOf(t)' = EventsOf(t)
      BY <1>1, <2>1, <3>2
    <3>4. QED BY <2>1, <3>1, <3>3 DEF IsLast
  <2>3. CASE i = new
    <3>1. t = call.txn
      BY <1>1, <1>3, <2>3
    <3>2. \A j \in EventsOf(t) : journal'[j].sequence <= e.sequence
      BY <1>2, <1>3, <2>1, <3>1
    <3>3. QED BY <1>1, <1>3, <2>1, <2>3, <3>1, <3>2 DEF IsLast
  <2>4. QED BY <1>4, <2>2, <2>3
<1>9. SomeLatest'
  <2>1. PICK n : n = new
    OBVIOUS
  <2>2. n \in DOMAIN journal'
    BY <1>3, <2>1
  <2>3. CASE journal = <<>>
    <3>1. n \in Nat /\ \A j \in DOMAIN journal' : j = n
      BY <1>3, <2>1, <2>3
    <3>2. IsLatest(n)'
      BY <3>1 DEF IsLatest
    <3>3. QED BY <2>2, <3>2 DEF SomeLatest
  <2>4. CASE journal # <<>>
    <3>1. PICK k \in DOMAIN journal : IsLatest(k)
      BY <2>4 DEF IInv, JournalInv, SomeLatest
    <3>2. CASE journal[k].sequence <= e.sequence
      <4>1. IsLatest(n)'
        BY <1>3, <1>4, <2>1, <3>1, <3>2 DEF IsLatest
      <4>2. QED BY <2>2, <4>1 DEF SomeLatest
    <3>3. CASE journal[k].sequence > e.sequence
      <4>1. IsLatest(k)'
        BY <1>3, <1>4, <3>1, <3>3 DEF IsLatest
      <4>2. QED BY <1>3, <3>1, <4>1 DEF SomeLatest
    <3>4. QED BY <1>3, <3>1, <3>2, <3>3
  <2>5. QED BY <2>3, <2>4
<1>10. VerdictFollowsObservation'
  <2> SUFFICES ASSUME NEW i \in DOMAIN journal', journal'[i].state \in Verdict
               PROVE  \E j \in DOMAIN journal' :
                         /\ journal'[j].txn = journal'[i].txn
                         /\ journal'[j].state = "observed"
                         /\ journal'[j].chain = journal'[i].chain
                         /\ journal'[j].sequence = journal'[i].sequence - 1
                         /\ journal'[j].observed = journal'[i].observed
                         /\ journal'[i].state = Reconcile(journal'[i].txn, journal'[j].observed)
    BY DEF VerdictFollowsObservation, EventsOf, Reconcile
  <2>1. \A t : \A j \in EventsOf(t) :
           j \in DOMAIN journal' /\ journal'[j] = journal[j] /\ journal[j].txn = t
    BY <1>3 DEF EventsOf
  <2>2. CASE i \in DOMAIN journal
    <3>1. PICK j \in EventsOf(journal[i].txn) :
             /\ journal[j].state = "observed"
             /\ journal[j].chain = journal[i].chain
             /\ journal[j].sequence = journal[i].sequence - 1
             /\ journal[j].observed = journal[i].observed
             /\ journal[i].state = Reconcile(journal[i].txn, journal[j].observed)
      BY <1>3, <2>2 DEF IInv, JournalInv, VerdictFollowsObservation
    <3>2. QED BY <1>3, <2>1, <2>2, <3>1
  <2>3. CASE i = new
    <3>1. call.at = "verdict" /\ state = Reconcile(call.txn, call.observed)
      BY <1>1, <1>3, <2>3 DEF MayWrite, Verdict, Terminal
    <3>2. PICK j \in EventsOf(call.txn) :
             /\ journal[j].state = "observed" /\ journal[j].sequence = call.sequence
             /\ journal[j].chain = call.chain /\ journal[j].observed = call.observed
      BY <3>1 DEF IInv, CallInv, AtObservation
    <3>3. QED BY <1>1, <1>3, <2>1, <2>3, <3>1, <3>2
  <2>4. QED BY <1>4, <2>2, <2>3
<1>11. QED BY <1>5, <1>6, <1>7, <1>8, <1>9, <1>10 DEF JournalInv

\* An append of the call's event keeps what the other rows and the history say, and what
\* is pending still belongs to the call.
LEMMA GrowsKeepsRest ==
    ASSUME IInv, NEW state, MayWrite(state), Grows(state), UNCHANGED <<receipts, dispatches>>
    PROVE  /\ SentOnce' /\ ReceiptCertifiesRequested'
           /\ \A i \in DOMAIN journal' : Pending(i)' => journal'[i].txn = call.txn
<1> DEFINE e == EventOf(state)
<1>1. /\ e \in Event /\ e.txn = call.txn /\ ~Settled(call.txn)
      /\ journal' = Append(journal, e) /\ journal \in Seq(Event) /\ call.at # "idle"
  BY WriteFacts DEF Grows, IInv, TypeOK
<1> HIDE DEF e
<1>2. SentOnce'
  <2> SUFFICES ASSUME NEW t \in Transactions
               PROVE  dispatches[t] = 0 \/ (dispatches[t] = 1 /\ Has(t, {"prepared"})')
    BY DEF SentOnce
  <2>1. QED BY <1>1, GrowthHas DEF IInv, SentOnce
<1>3. ReceiptCertifiesRequested'
  <2> SUFFICES ASSUME NEW t \in receipts
               PROVE  \E i \in EventsOf(t)' :
                         /\ ReceiptEligible(journal'[i].state)
                         /\ journal'[i].observed = Requested[t]
                         /\ \A j \in EventsOf(t)' : journal'[j].sequence <= journal'[i].sequence
    BY DEF ReceiptCertifiesRequested, ReceiptEligible
  <2>1. PICK i \in EventsOf(t) :
           /\ ReceiptEligible(journal[i].state)
           /\ journal[i].observed = Requested[t]
           /\ \A j \in EventsOf(t) : journal[j].sequence <= journal[i].sequence
    BY DEF IInv, ReceiptCertifiesRequested
  <2>2. t # call.txn
    BY <1>1, <2>1 DEF Settled, Has, ReceiptEligible, Terminal
  <2>3. EventsOf(t)' = EventsOf(t) /\ \A j \in EventsOf(t) : journal'[j] = journal[j]
    BY <1>1, <2>2, GrowthOf
  <2>4. QED BY <2>1, <2>3
<1>4. ASSUME NEW i \in DOMAIN journal', Pending(i)'
      PROVE  journal'[i].txn = call.txn
  <2>1. CASE i \in DOMAIN journal
    <3>1. IsLatest(i)' /\ journal'[i].state \notin Terminal
      BY <1>4 DEF Pending
    <3>2. IsLatest(i) /\ journal'[i] = journal[i]
      BY <1>1, <2>1, <3>1, LatestGrows, Growth
    <3>3. Pending(i)
      BY <3>1, <3>2 DEF Pending
    <3>4. QED BY <1>1, <2>1, <3>2, <3>3 DEF IInv, GateInv
  <2>2. CASE i \notin DOMAIN journal
    BY <1>1, <2>2, Growth
  <2>3. QED BY <2>1, <2>2
<1>5. QED BY <1>2, <1>3, <1>4

\* A step that leaves the rows and the history alone keeps what they say.
LEMMA RowsKept ==
    ASSUME IInv, journal' = journal, transactions \subseteq transactions',
           UNCHANGED <<receipts, dispatches>>
    PROVE  JournalInv' /\ SentOnce' /\ ReceiptCertifiesRequested'
<1>1. Stored' /\ Increasing' /\ PreparedFirst' /\ TerminalIsLast' /\ SomeLatest'
  BY DEF IInv, JournalInv, Stored, Increasing, PreparedFirst, Has, TerminalIsLast, IsLast,
         SomeLatest, IsLatest, EventsOf
<1>2. VerdictFollowsObservation'
  BY DEF IInv, JournalInv, VerdictFollowsObservation, EventsOf, Reconcile
<1>3. SentOnce' /\ ReceiptCertifiesRequested'
  BY DEF IInv, SentOnce, Has, EventsOf, ReceiptCertifiesRequested, ReceiptEligible
<1>4. QED BY <1>1, <1>2, <1>3 DEF JournalInv

\* A call that stays where it is, or is over, has nothing new to say.
LEMMA CallKept ==
    ASSUME IInv, UNCHANGED <<call, durable, dispatches>>
    PROVE  CallInv'
<1>1. journal' = journal /\ transactions' = transactions
  BY DEF durable
<1>2. \A t : EventsOf(t)' = EventsOf(t)
  BY <1>1 DEF EventsOf
<1>3. NothingWritten' /\ NotObserved' /\ AtLastEvent'
  BY <1>1, <1>2 DEF IInv, CallInv, NothingWritten, NotObserved, AtLastEvent, Settled, Has, IsLast,
                    EventsOf
<1>4. AtObservation' /\ AtSuccess'
  BY <1>1, <1>2 DEF IInv, CallInv, AtObservation, AtSuccess, IsLast, EventsOf, Reconcile,
                    ReceiptEligible
<1>5. QED BY <1>3, <1>4 DEF CallInv

LEMMA CallOver ==
    ASSUME call'.at = "idle"
    PROVE  CallInv'
  BY DEF CallInv, NothingWritten, NotObserved, AtLastEvent, AtObservation, AtSuccess, Unwritten,
         Sending, Unsettled

\* A closed gate overlooks nothing.
LEMMA GateClosed ==
    ASSUME call'.at = "idle", ~(acceptingNewWork' /\ snapshot'.accepts)
    PROVE  GateInv'
  BY DEF GateInv, GateAgreesWithRecovery, Accepts

\* The end of a call with its outcome.
LEMMA Returned ==
    ASSUME IInv, call.at # "idle", NEW open \in BOOLEAN,
           NEW state \in {"RecoveryRequired", "Verified", "Restored", "Unknown", "Conflict",
                          "JournalUnavailable"},
           Return(state, open)
    PROVE  /\ snapshot' \in Snapshot /\ acceptingNewWork' = open /\ call' = NoCall
           /\ snapshot'.accepts = open /\ snapshot'.state = state /\ snapshot'.txn = call.txn
           /\ call' \in Call /\ call'.at = "idle" /\ call'.txn = NoTxn
           /\ CallInv'
<1>1. call.txn \in Transactions
  BY RunningCall
<1>2. /\ snapshot' \in Snapshot /\ acceptingNewWork' = open /\ call' = NoCall
      /\ snapshot'.accepts = open /\ snapshot'.state = state /\ snapshot'.txn = call.txn
  BY <1>1 DEF Return, Snapshot
<1>3. call' \in Call /\ call'.at = "idle" /\ call'.txn = NoTxn
  BY <1>2 DEF NoCall, Call, Chains
<1>4. QED BY <1>2, <1>3, CallOver

-----------------------------------------------------------------------------
(***************************************************************************)
(* The steps of a running call                                             *)
(***************************************************************************)
\* The call goes on behind the event it has written.
LEMMA WentOn ==
    ASSUME IInv, call.at # "idle", NEW at \in {"dispatch", "observe", "verdict", "receipt"},
           ProceedAfterEvent(at)
    PROVE  /\ call' \in Call /\ call'.at = at /\ call'.sequence = call.sequence + 1
           /\ call'.txn = call.txn /\ call'.chain = call.chain
           /\ call'.observed = call.observed
           /\ snapshot' = snapshot /\ acceptingNewWork' = acceptingNewWork
<1>1. call \in Call /\ call.sequence \in Int
  BY DEF IInv, TypeOK, Call
<1>2. PICK n \in Int : n = call.sequence + 1
  BY <1>1
<1>3. call' = [call EXCEPT !.at = at, !.sequence = n]
  BY <1>2 DEF ProceedAfterEvent
<1>4. QED BY <1>1, <1>2, <1>3 DEF Call, ProceedAfterEvent

\* The event a call has written is the last of its transaction.
LEMMA WrittenIsLast ==
    ASSUME IInv, NEW state, MayWrite(state), Grows(state), call'.txn = call.txn
    PROVE  \E n \in DOMAIN journal' : journal'[n] = EventOf(state) /\ IsLast(n, call.txn)'
<1> DEFINE e == EventOf(state)
<1>1. /\ e \in Event /\ e.txn = call.txn /\ e.sequence \in Nat
      /\ \A i \in EventsOf(call.txn) : journal[i].sequence < e.sequence
      /\ journal' = Append(journal, e) /\ journal \in Seq(Event)
  BY WriteFacts DEF Grows, Acceptable, IInv, TypeOK, Event
<1> HIDE DEF e
<1>2. PICK n : n = Len(journal) + 1
  OBVIOUS
<1>3. n \in DOMAIN journal' /\ journal'[n] = e
  BY <1>1, <1>2, Growth
<1>4. \A j \in DOMAIN journal' : journal'[j].txn = call.txn => journal'[j].sequence <= e.sequence
  <2> SUFFICES ASSUME NEW j \in DOMAIN journal', journal'[j].txn = call.txn
               PROVE  journal'[j].sequence <= e.sequence
    OBVIOUS
  <2>1. CASE j \in DOMAIN journal
    BY <1>1, <2>1, Growth, JournalTyped DEF EventsOf
  <2>2. CASE j \notin DOMAIN journal
    BY <1>1, <2>2, Growth
  <2>3. QED BY <2>1, <2>2
<1>5. IsLast(n, call.txn)'
  BY <1>1, <1>3, <1>4 DEF IsLast, EventsOf
<1>6. QED BY <1>3, <1>5 DEF e

\* A call that has written its event and goes on.
LEMMA EventAppended ==
    ASSUME IInv, NEW state, MayWrite(state), Grows(state),
           NEW at \in {"dispatch", "observe", "verdict", "receipt"}, ProceedAfterEvent(at),
           UNCHANGED <<receipts, store, windows, broker, up, dispatches>>, CallInv'
    PROVE  IInv'
<1>1. /\ call' \in Call /\ call'.at = at /\ call'.txn = call.txn
      /\ snapshot' = snapshot /\ acceptingNewWork' = acceptingNewWork
  BY WriteFacts, WentOn
<1>2. journal' \in Seq(Event) /\ transactions' = transactions
  BY WriteFacts, Growth DEF Grows, IInv, TypeOK
<1>3. call.at # "idle" /\ call.txn \in Transactions /\ up
  BY WriteFacts, RunningCall
<1>4. TypeOK'
  BY <1>1, <1>2, <1>3 DEF IInv, TypeOK, Chains
<1>5. JournalInv' /\ SentOnce' /\ ReceiptCertifiesRequested'
  BY GrowsKeepsJournal, GrowsKeepsRest
<1>6. GateInv'
  BY <1>1, GrowsKeepsRest DEF GateInv, GateAgreesWithRecovery, Accepts
<1>7. SuccessShownIsDurable'
  BY <1>1 DEF IInv, SuccessShownIsDurable
<1>8. QED BY <1>4, <1>5, <1>6, <1>7 DEF IInv

\* A call that ends on an append, with its row or without.
LEMMA AppendEnds ==
    ASSUME IInv, NEW state, MayWrite(state),
           Grows(state) \/ UNCHANGED <<journal, transactions>>,
           store' \in {"Writable", "ReadOnly"},
           UNCHANGED <<receipts, windows, broker, up, dispatches>>,
           NEW shown \in {"RecoveryRequired", "Unknown", "Conflict", "JournalUnavailable"},
           Return(shown, FALSE)
    PROVE  IInv'
<1>1. call.at # "idle"
  BY WriteFacts
<1>2. /\ snapshot' \in Snapshot /\ acceptingNewWork' = FALSE
      /\ snapshot'.accepts = FALSE /\ snapshot'.state = shown
      /\ call' \in Call /\ call'.at = "idle" /\ call'.txn = NoTxn /\ CallInv'
  BY <1>1, Returned
<1>3. journal' \in Seq(Event) /\ transactions' = transactions
  BY WriteFacts, Growth DEF Grows, IInv, TypeOK
<1>4. TypeOK'
  BY <1>2, <1>3 DEF IInv, TypeOK
<1>5. JournalInv' /\ SentOnce' /\ ReceiptCertifiesRequested'
  BY GrowsKeepsJournal, GrowsKeepsRest, RowsKept
<1>6. GateInv'
  BY <1>2, GateClosed
<1>7. SuccessShownIsDurable'
  BY <1>2 DEF SuccessShownIsDurable
<1>8. QED BY <1>2, <1>4, <1>5, <1>6, <1>7 DEF IInv

\* What the transaction of a call has, with the event the call has written.
LEMMA HasWritten ==
    ASSUME IInv, NEW state, MayWrite(state), Grows(state), call'.txn = call.txn, NEW S
    PROVE  Has(call.txn, S)' <=> Has(call.txn, S) \/ state \in S
<1>1. PICK t : t = call.txn
  OBVIOUS
<1>2. /\ EventOf(state) \in Event /\ EventOf(state).txn = t /\ EventOf(state).state = state
      /\ journal' = Append(journal, EventOf(state)) /\ journal \in Seq(Event)
  BY <1>1, WriteFacts DEF Grows, IInv, TypeOK
<1>3. Has(t, S)' <=> Has(t, S) \/ state \in S
  BY <1>2, GrowthHas
<1>4. QED BY <1>1, <1>3 DEF Has, EventsOf

LEMMA LastWritten ==
    ASSUME IInv, NEW state, MayWrite(state), Grows(state), state \notin Terminal,
           NEW at \in {"dispatch", "observe", "verdict", "receipt"}, ProceedAfterEvent(at)
    PROVE  AtLastEvent'
<1>1. call'.txn = call.txn /\ call'.sequence = call.sequence + 1
  BY WriteFacts, WentOn
<1>2. ~Settled(call.txn)'
  BY <1>1, WriteFacts, HasWritten DEF Settled
<1>3. PICK n \in DOMAIN journal' : journal'[n] = EventOf(state) /\ IsLast(n, call.txn)'
  BY <1>1, WrittenIsLast
<1>4. journal'[n].sequence = call'.sequence
  BY <1>1, <1>3, WriteFacts
<1>5. QED BY <1>2, <1>3, <1>4 DEF AtLastEvent

\* The three outcomes of an append, in the terms of the lemmas.
LEMMA AppendOutcomes ==
    ASSUME IInv, NEW state, MayWrite(state), NEW ACTION next, AppendEvent(state, next)
    PROVE  /\ UNCHANGED <<receipts, windows, broker, up, dispatches>>
           /\ \/ Grows(state) /\ next /\ UNCHANGED store
              \/ /\ Grows(state) \/ UNCHANGED <<journal, transactions>>
                 /\ store' \in {"Writable", "ReadOnly"}
                 /\ Return("JournalUnavailable", FALSE)
<1>1. store \in {"Writable", "ReadOnly"}
  BY DEF IInv, TypeOK
<1>2. QED
  BY <1>1 DEF AppendEvent, Grows, Appended, ReportedLost, NotAppended, JournalFailure

LEMMA AppendPreparedKeeps ==
    ASSUME IInv, AppendPrepared
    PROVE  IInv'
<1>1. MayWrite("prepared") /\ call.at = "prepare"
  BY DEF AppendPrepared, MayWrite
<1>2. /\ UNCHANGED <<receipts, windows, broker, up, dispatches>>
      /\ \/ Grows("prepared") /\ ProceedAfterEvent("dispatch") /\ UNCHANGED store
         \/ /\ Grows("prepared") \/ UNCHANGED <<journal, transactions>>
            /\ store' \in {"Writable", "ReadOnly"}
            /\ Return("JournalUnavailable", FALSE)
  BY <1>1, AppendOutcomes DEF AppendPrepared
<1>3. CASE Grows("prepared") /\ ProceedAfterEvent("dispatch") /\ UNCHANGED store
  <2>1. /\ call'.at = "dispatch" /\ call'.txn = call.txn /\ call'.chain = call.chain
        /\ call'.sequence = call.sequence + 1
    BY <1>1, <1>3, WentOn
  <2>2. /\ call.chain = "native" /\ EventsOf(call.txn) = {}
        /\ dispatches[call.txn] = 0 /\ call.txn \in Transactions
    BY <1>1, WriteFacts DEF IInv, CallInv, NothingWritten, Unwritten, SentOnce, Has
  <2>3. ~Has(call.txn, {"observed"})'
    <3>1. ~Has(call.txn, {"observed"})
      BY <2>2 DEF Has
    <3>2. QED BY <1>1, <1>3, <2>1, <3>1, HasWritten
  <2>4. AtLastEvent'
    BY <1>1, <1>3, LastWritten DEF Terminal
  <2>5. CallInv'
    BY <1>2, <2>1, <2>2, <2>3, <2>4
       DEF CallInv, NothingWritten, NotObserved, AtObservation, AtSuccess, Unwritten
  <2>6. QED BY <1>1, <1>2, <1>3, <2>5, EventAppended
<1>4. CASE /\ Grows("prepared") \/ UNCHANGED <<journal, transactions>>
           /\ store' \in {"Writable", "ReadOnly"}
           /\ Return("JournalUnavailable", FALSE)
  BY <1>1, <1>2, <1>4, AppendEnds
<1>5. QED BY <1>2, <1>3, <1>4

LEMMA AppendReturnedKeeps ==
    ASSUME IInv, AppendReturned
    PROVE  IInv'
<1>1. MayWrite("dispatch-returned") /\ call.at = "returned"
  BY DEF AppendReturned, MayWrite
<1>2. /\ UNCHANGED <<receipts, windows, broker, up, dispatches>>
      /\ \/ Grows("dispatch-returned") /\ ProceedAfterEvent("observe") /\ UNCHANGED store
         \/ /\ Grows("dispatch-returned") \/ UNCHANGED <<journal, transactions>>
            /\ store' \in {"Writable", "ReadOnly"}
            /\ Return("JournalUnavailable", FALSE)
  BY <1>1, AppendOutcomes DEF AppendReturned
<1>3. CASE Grows("dispatch-returned") /\ ProceedAfterEvent("observe") /\ UNCHANGED store
  <2>1. call'.at = "observe"
    BY <1>1, <1>3, WentOn
  <2>2. AtLastEvent'
    BY <1>1, <1>3, LastWritten DEF Terminal
  <2>3. CallInv'
    BY <2>1, <2>2 DEF CallInv, NothingWritten, NotObserved, AtObservation, AtSuccess, Unwritten,
                      Sending
  <2>4. QED BY <1>1, <1>2, <1>3, <2>3, EventAppended
<1>4. CASE /\ Grows("dispatch-returned") \/ UNCHANGED <<journal, transactions>>
           /\ store' \in {"Writable", "ReadOnly"}
           /\ Return("JournalUnavailable", FALSE)
  BY <1>1, <1>2, <1>4, AppendEnds
<1>5. QED BY <1>2, <1>3, <1>4

LEMMA AppendObservedKeeps ==
    ASSUME IInv, AppendObserved
    PROVE  IInv'
<1>1. MayWrite("observed") /\ call.at = "observed"
  BY DEF AppendObserved, MayWrite
<1>2. /\ UNCHANGED <<receipts, windows, broker, up, dispatches>>
      /\ \/ Grows("observed") /\ ProceedAfterEvent("verdict") /\ UNCHANGED store
         \/ /\ Grows("observed") \/ UNCHANGED <<journal, transactions>>
            /\ store' \in {"Writable", "ReadOnly"}
            /\ Return("JournalUnavailable", FALSE)
  BY <1>1, AppendOutcomes DEF AppendObserved
<1>3. CASE Grows("observed") /\ ProceedAfterEvent("verdict") /\ UNCHANGED store
  <2>1. /\ call'.at = "verdict" /\ call'.txn = call.txn /\ call'.chain = call.chain
        /\ call'.sequence = call.sequence + 1 /\ call'.observed = call.observed
    BY <1>1, <1>3, WentOn
  <2>2. AtLastEvent'
    BY <1>1, <1>3, LastWritten DEF Terminal
  <2>3. PICK n \in DOMAIN journal' : journal'[n] = EventOf("observed") /\ IsLast(n, call.txn)'
    BY <1>1, <1>3, <2>1, WrittenIsLast
  <2>4. AtObservation'
    BY <1>1, <2>1, <2>3, WriteFacts DEF AtObservation, IsLast
  <2>5. CallInv'
    BY <2>1, <2>2, <2>4 DEF CallInv, NothingWritten, NotObserved, AtSuccess, Unwritten, Sending
  <2>6. QED BY <1>1, <1>2, <1>3, <2>5, EventAppended
<1>4. CASE /\ Grows("observed") \/ UNCHANGED <<journal, transactions>>
           /\ store' \in {"Writable", "ReadOnly"}
           /\ Return("JournalUnavailable", FALSE)
  BY <1>1, <1>2, <1>4, AppendEnds
<1>5. QED BY <1>2, <1>3, <1>4

LEMMA AppendVerdictKeeps ==
    ASSUME IInv, AppendVerdict
    PROVE  IInv'
<1>1. PICK verdict : verdict = Reconcile(call.txn, call.observed)
  OBVIOUS
<1>2. MayWrite(verdict) /\ call.at = "verdict"
  BY <1>1 DEF AppendVerdict, MayWrite
<1>3. /\ UNCHANGED <<receipts, windows, broker, up, dispatches>>
      /\ \/ /\ Grows(verdict) /\ UNCHANGED store
            /\ IF ReceiptEligible(verdict) THEN ProceedAfterEvent("receipt")
               ELSE Return(StateOf(verdict), FALSE)
         \/ /\ Grows(verdict) \/ UNCHANGED <<journal, transactions>>
            /\ store' \in {"Writable", "ReadOnly"}
            /\ Return("JournalUnavailable", FALSE)
  <2> DEFINE next == IF ReceiptEligible(verdict) THEN ProceedAfterEvent("receipt")
                     ELSE Return(StateOf(verdict), FALSE)
  <2>1. AppendEvent(verdict, next)
    BY <1>1 DEF AppendVerdict
  <2> HIDE DEF next
  <2>2. /\ UNCHANGED <<receipts, windows, broker, up, dispatches>>
        /\ \/ Grows(verdict) /\ next /\ UNCHANGED store
           \/ /\ Grows(verdict) \/ UNCHANGED <<journal, transactions>>
              /\ store' \in {"Writable", "ReadOnly"}
              /\ Return("JournalUnavailable", FALSE)
    BY <1>2, <2>1, AppendOutcomes
  <2>3. QED BY <2>2 DEF next
<1>4. CASE /\ Grows(verdict) /\ UNCHANGED store
           /\ ReceiptEligible(verdict) /\ ProceedAfterEvent("receipt")
  <2>1. /\ call'.at = "receipt" /\ call'.txn = call.txn /\ call'.observed = call.observed
    BY <1>2, <1>4, WriteFacts, WentOn
  <2>2. PICK n \in DOMAIN journal' : journal'[n] = EventOf(verdict) /\ IsLast(n, call.txn)'
    BY <1>2, <1>4, <2>1, WrittenIsLast
  <2>3. AtSuccess'
    <3>1. /\ journal'[n].state = verdict /\ ReceiptEligible(journal'[n].state)
          /\ journal'[n].observed = call'.observed
      BY <1>2, <1>4, <2>1, <2>2, WriteFacts
    <3>2. verdict = Reconcile(call'.txn, call'.observed)
      BY <1>1, <2>1
    <3>3. QED BY <2>2, <3>1, <3>2 DEF AtSuccess, ReceiptEligible, Reconcile
  <2>4. CallInv'
    BY <2>1, <2>3 DEF CallInv, NothingWritten, NotObserved, AtLastEvent, AtObservation, Unwritten,
                      Sending, Unsettled
  <2>5. QED BY <1>2, <1>3, <1>4, <2>4, EventAppended
<1>5. CASE Grows(verdict) /\ UNCHANGED store /\ ~ReceiptEligible(verdict) /\ Return(StateOf(verdict), FALSE)
  <2>1. PICK shown \in {"RecoveryRequired", "Unknown", "Conflict"} : shown = StateOf(verdict)
    BY <1>1, <1>5, ReconcileFacts DEF StateOf, ReceiptEligible, Verdict, Terminal
  <2>2. store' \in {"Writable", "ReadOnly"}
    BY <1>5 DEF IInv, TypeOK
  <2>3. Return(shown, FALSE)
    BY <1>5, <2>1
  <2>4. QED BY <1>2, <1>3, <1>5, <2>2, <2>3, AppendEnds
<1>6. CASE /\ Grows(verdict) \/ UNCHANGED <<journal, transactions>>
           /\ store' \in {"Writable", "ReadOnly"}
           /\ Return("JournalUnavailable", FALSE)
  BY <1>2, <1>3, <1>6, AppendEnds
<1>7. QED BY <1>3, <1>4, <1>5, <1>6

\* A success verdict is the last event of its transaction, and settles what was pending.
LEMMA ReceiptFacts ==
    ASSUME IInv, call.at = "receipt"
    PROVE  /\ Clear
           /\ ReceiptEligible(Reconcile(call.txn, call.observed))
           /\ \E i \in DOMAIN journal : /\ IsLast(i, call.txn)
                                      /\ ReceiptEligible(journal[i].state)
                                      /\ journal[i].observed = Requested[call.txn]
<1>1. PICK i \in DOMAIN journal :
         /\ IsLast(i, call.txn)
         /\ journal[i].state = Reconcile(call.txn, call.observed)
         /\ ReceiptEligible(journal[i].state) /\ journal[i].observed = call.observed
  BY DEF IInv, CallInv, AtSuccess
<1>2. journal[i].observed = Requested[call.txn] /\ journal[i].state \in Terminal
  BY <1>1, ReconcileFacts
<1>3. ASSUME NEW j \in DOMAIN journal, Pending(j)
      PROVE  FALSE
  <2>1. journal[j].txn = call.txn /\ IsLatest(j) /\ journal[j].state \notin Terminal
    BY <1>3 DEF IInv, GateInv, Pending
  <2>2. IsLast(j, call.txn)
    BY <2>1, LatestIsLast DEF IInv, TypeOK
  <2>3. i = j
    BY <1>1, <2>2, OneLast DEF IInv, TypeOK, JournalInv
  <2>4. QED BY <1>2, <2>1, <2>3
<1>4. QED BY <1>1, <1>2, <1>3 DEF Clear

\* A step that leaves the journal alone leaves recovery what it was.
LEMMA ClearKept ==
    ASSUME journal' = journal
    PROVE  Clear' = Clear /\ \A i : Pending(i)' = Pending(i)
  BY DEF Clear, Pending, IsLatest

LEMMA StoreReceiptKeeps ==
    ASSUME IInv, StoreReceipt
    PROVE  IInv'
<1>1. /\ call.at = "receipt" /\ call.at # "idle" /\ call.txn \in Transactions
      /\ UNCHANGED <<transactions, journal, windows, broker, up, dispatches>>
  BY RunningCall DEF StoreReceipt
<1>2. Clear /\ ReceiptEligible(Reconcile(call.txn, call.observed))
  BY <1>1, ReceiptFacts
<1>3. JournalInv' /\ SentOnce'
  BY <1>1 DEF IInv, JournalInv, Stored, Increasing, PreparedFirst, Has, TerminalIsLast, IsLast,
              SomeLatest, IsLatest, EventsOf, VerdictFollowsObservation, Reconcile, SentOnce
<1>4. ASSUME receipts' \subseteq receipts \cup {call.txn}
      PROVE  ReceiptCertifiesRequested'
  <2> SUFFICES ASSUME NEW t \in receipts'
               PROVE  \E i \in EventsOf(t) :
                         /\ ReceiptEligible(journal[i].state)
                         /\ journal[i].observed = Requested[t]
                         /\ \A j \in EventsOf(t) : journal[j].sequence <= journal[i].sequence
    BY <1>1 DEF ReceiptCertifiesRequested, ReceiptEligible, EventsOf
  <2>1. CASE t \in receipts
    BY <2>1 DEF IInv, ReceiptCertifiesRequested
  <2>2. CASE t = call.txn
    BY <1>1, <2>2, ReceiptFacts DEF IsLast
  <2>3. QED BY <1>4, <2>1, <2>2
<1>5. CASE call.chain = "uncertain" /\ InvalidRequest /\ UNCHANGED <<receipts, store>>
  <2>1. call' = NoCall /\ snapshot' = snapshot /\ acceptingNewWork' = acceptingNewWork
    BY <1>5 DEF InvalidRequest
  <2>2. call' \in Call /\ call'.at = "idle" /\ call'.txn = NoTxn
    BY <2>1 DEF NoCall, Call, Chains
  <2>3. TypeOK'
    BY <1>1, <1>5, <2>1, <2>2 DEF IInv, TypeOK
  <2>4. CallInv'
    BY <2>2, CallOver
  <2>5. GateInv'
    BY <1>1, <1>2, <2>2, ClearKept DEF GateInv, GateAgreesWithRecovery
  <2>6. SuccessShownIsDurable'
    BY <1>5, <2>1 DEF IInv, SuccessShownIsDurable
  <2>7. ReceiptCertifiesRequested'
    BY <1>4, <1>5
  <2>8. QED BY <1>3, <2>3, <2>4, <2>5, <2>6, <2>7 DEF IInv
<1>6. CASE /\ Appended /\ receipts' = receipts \cup {call.txn}
           /\ Return(StateOf(Reconcile(call.txn, call.observed)), TRUE)
  <2>1. PICK shown \in {"Verified", "Restored"} : shown = StateOf(Reconcile(call.txn, call.observed))
    BY <1>2 DEF StateOf, ReceiptEligible
  <2>2. /\ snapshot' \in Snapshot /\ acceptingNewWork' = TRUE /\ snapshot'.txn = call.txn
        /\ call' \in Call /\ call'.at = "idle" /\ call'.txn = NoTxn /\ CallInv'
    BY <1>1, <1>6, <2>1, Returned
  <2>3. TypeOK'
    BY <1>1, <1>6, <2>2 DEF IInv, TypeOK, Appended
  <2>4. GateInv'
    BY <1>1, <1>2, <2>2, ClearKept DEF GateInv, GateAgreesWithRecovery
  <2>5. SuccessShownIsDurable'
    BY <1>6, <2>2 DEF SuccessShownIsDurable
  <2>6. ReceiptCertifiesRequested'
    BY <1>4, <1>6
  <2>7. QED BY <1>3, <2>2, <2>3, <2>4, <2>5, <2>6 DEF IInv
<1>7. CASE /\ receipts' \in {receipts, receipts \cup {call.txn}}
           /\ store' \in {store, "ReadOnly"} /\ JournalFailure
  <2>1. /\ snapshot' \in Snapshot /\ acceptingNewWork' = FALSE
        /\ snapshot'.state = "JournalUnavailable"
        /\ call' \in Call /\ call'.at = "idle" /\ call'.txn = NoTxn /\ CallInv'
    BY <1>1, <1>7, Returned DEF JournalFailure
  <2>2. TypeOK'
    BY <1>1, <1>7, <2>1 DEF IInv, TypeOK
  <2>3. GateInv'
    BY <2>1, GateClosed
  <2>4. SuccessShownIsDurable'
    BY <2>1 DEF SuccessShownIsDurable
  <2>5. ReceiptCertifiesRequested'
    BY <1>4, <1>7
  <2>6. QED BY <1>3, <2>1, <2>2, <2>3, <2>4, <2>5 DEF IInv
<1>8. QED BY <1>1, <1>5, <1>6, <1>7 DEF StoreReceipt, ReportedLost, NotAppended

LEMMA AppendTransactionKeeps ==
    ASSUME IInv, AppendTransaction
    PROVE  IInv'
<1>1. /\ call.at = "transaction" /\ call.at # "idle" /\ call.txn \in Transactions
      /\ UNCHANGED <<journal, receipts, windows, broker, up, dispatches>>
      /\ transactions' \in {transactions, transactions \cup {call.txn}}
      /\ store' \in {"Writable", "ReadOnly"}
  BY RunningCall DEF AppendTransaction, Appended, ReportedLost, NotAppended, IInv, TypeOK
<1>2. JournalInv' /\ SentOnce' /\ ReceiptCertifiesRequested'
  BY <1>1, RowsKept
<1>3. CASE /\ call.txn \notin transactions /\ transactions' = transactions \cup {call.txn}
           /\ Proceed("prepare")
  <2>1. /\ call' \in Call /\ call'.at = "prepare" /\ call'.txn = call.txn
        /\ call'.chain = call.chain /\ call'.sequence = call.sequence
        /\ snapshot' = snapshot /\ acceptingNewWork' = acceptingNewWork
    BY <1>3 DEF Proceed, IInv, TypeOK, Call
  <2>2. TypeOK'
    BY <1>1, <2>1 DEF IInv, TypeOK
  <2>3. EventsOf(call.txn) = {}
    BY <1>3 DEF IInv, JournalInv, Stored, EventsOf
  <2>4. CallInv'
    BY <1>1, <1>3, <2>1, <2>3
       DEF IInv, CallInv, NothingWritten, NotObserved, AtLastEvent, AtObservation, AtSuccess,
           Unwritten, Sending, Unsettled, EventsOf
  <2>5. GateInv'
    BY <1>1, <2>1, ClearKept DEF IInv, GateInv, GateAgreesWithRecovery, Accepts
  <2>6. SuccessShownIsDurable'
    BY <1>1, <2>1 DEF IInv, SuccessShownIsDurable
  <2>7. QED BY <1>2, <2>2, <2>4, <2>5, <2>6 DEF IInv
<1>4. CASE JournalFailure
  <2>1. /\ snapshot' \in Snapshot /\ acceptingNewWork' = FALSE
        /\ snapshot'.state = "JournalUnavailable"
        /\ call' \in Call /\ call'.at = "idle" /\ call'.txn = NoTxn /\ CallInv'
    BY <1>1, <1>4, Returned DEF JournalFailure
  <2>2. TypeOK'
    BY <1>1, <2>1 DEF IInv, TypeOK
  <2>3. GateInv'
    BY <2>1, GateClosed
  <2>4. SuccessShownIsDurable'
    BY <2>1 DEF SuccessShownIsDurable
  <2>5. QED BY <1>2, <2>1, <2>2, <2>3, <2>4 DEF IInv
<1>5. QED BY <1>3, <1>4 DEF AppendTransaction

\* A call that moves on without writing keeps everything but its own position.
LEMMA CallMoves ==
    ASSUME IInv, call.at # "idle", call' \in Call, call'.at # "idle", call'.txn = call.txn,
           UNCHANGED <<durable, dispatches, store, windows, up, snapshot, acceptingNewWork>>,
           broker' \in [Transactions -> {"none", "inTransit", "accepted", "rejected"}], CallInv'
    PROVE  IInv'
<1>1. journal' = journal /\ transactions' = transactions /\ receipts' = receipts
  BY DEF durable
<1>2. call.txn \in Transactions /\ up
  BY RunningCall
<1>3. TypeOK'
  BY <1>1, <1>2, ConstantsAssumption DEF IInv, TypeOK
<1>4. JournalInv' /\ SentOnce' /\ ReceiptCertifiesRequested'
  BY <1>1, RowsKept
<1>5. GateInv'
  BY <1>1, ClearKept DEF IInv, GateInv, GateAgreesWithRecovery, Accepts
<1>6. SuccessShownIsDurable'
  BY <1>1 DEF IInv, SuccessShownIsDurable
<1>7. QED BY <1>3, <1>4, <1>5, <1>6 DEF IInv

LEMMA DispatchReturnsKeeps ==
    ASSUME IInv, DispatchReturns
    PROVE  IInv'
<1>1. /\ call.at = "await" /\ call' = [call EXCEPT !.at = "returned"]
      /\ broker' = [broker EXCEPT ![call.txn] = "none"]
      /\ UNCHANGED <<durable, dispatches, store, windows, up, snapshot, acceptingNewWork>>
  BY DEF DispatchReturns, Proceed
<1>2. /\ call' \in Call /\ call'.at = "returned" /\ call'.txn = call.txn
      /\ call'.chain = call.chain /\ call'.sequence = call.sequence
  BY <1>1 DEF IInv, TypeOK, Call
<1>3. broker' \in [Transactions -> {"none", "inTransit", "accepted", "rejected"}]
  BY <1>1 DEF IInv, TypeOK
<1>4. journal' = journal
  BY <1>1 DEF durable
<1>5. NotObserved' /\ AtLastEvent'
  BY <1>1, <1>2, <1>4 DEF IInv, CallInv, NotObserved, AtLastEvent, Sending, Unsettled, Settled, Has,
                          EventsOf, IsLast
<1>6. CallInv'
  BY <1>2, <1>5 DEF CallInv, NothingWritten, AtObservation, AtSuccess, Unwritten
<1>7. QED BY <1>1, <1>2, <1>3, <1>6, CallMoves

LEMMA DispatchTimesOutKeeps ==
    ASSUME IInv, DispatchTimesOut
    PROVE  IInv'
<1>1. /\ call.at = "await" /\ call' = [call EXCEPT !.at = "observe", !.chain = "uncertain"]
      /\ broker' = InTransit
      /\ UNCHANGED <<durable, dispatches, store, windows, up, snapshot, acceptingNewWork>>
  BY DEF DispatchTimesOut
<1>2. /\ call' \in Call /\ call'.at = "observe" /\ call'.txn = call.txn
      /\ call'.sequence = call.sequence
  BY <1>1 DEF IInv, TypeOK, Call, Chains
<1>3. broker' \in [Transactions -> {"none", "inTransit", "accepted", "rejected"}]
  BY <1>1 DEF InTransit
<1>4. journal' = journal
  BY <1>1 DEF durable
<1>5. AtLastEvent'
  BY <1>1, <1>2, <1>4 DEF IInv, CallInv, AtLastEvent, Sending, Unsettled, Settled, Has, EventsOf,
                          IsLast
<1>6. CallInv'
  BY <1>2, <1>5 DEF CallInv, NothingWritten, NotObserved, AtObservation, AtSuccess, Unwritten,
                    Sending
<1>7. QED BY <1>1, <1>2, <1>3, <1>6, CallMoves

LEMMA ObserveKeeps ==
    ASSUME IInv, Observe
    PROVE  IInv'
<1>1. /\ call.at = "observe" /\ broker' = broker
      /\ UNCHANGED <<durable, dispatches, store, windows, up, snapshot, acceptingNewWork>>
  BY DEF Observe
<1>2. PICK seen \in {windows, Unknown, Prebound} :
         call' = [call EXCEPT !.at = "observed", !.observed = seen]
  BY DEF Observe
<1>3. seen \in Schemes \cup {Unknown}
  BY <1>1, RunningCall, ConstantsAssumption DEF Prebound, IInv, TypeOK
<1>4. /\ call' \in Call /\ call'.at = "observed" /\ call'.txn = call.txn
      /\ call'.sequence = call.sequence
  BY <1>2, <1>3 DEF IInv, TypeOK, Call
<1>5. journal' = journal
  BY <1>1 DEF durable
<1>6. AtLastEvent'
  BY <1>1, <1>4, <1>5 DEF IInv, CallInv, AtLastEvent, Sending, Unsettled, Settled, Has, EventsOf,
                          IsLast
<1>7. CallInv'
  BY <1>4, <1>6 DEF CallInv, NothingWritten, NotObserved, AtObservation, AtSuccess, Unwritten,
                    Sending
<1>8. broker' \in [Transactions -> {"none", "inTransit", "accepted", "rejected"}]
  BY <1>1 DEF IInv, TypeOK
<1>9. QED BY <1>1, <1>4, <1>7, <1>8, CallMoves

\* The mutation of a prepared transaction leaves for the first time.
LEMMA DispatchKeeps ==
    ASSUME IInv, Dispatch
    PROVE  IInv' /\ dispatches' = [dispatches EXCEPT ![call.txn] = 1]
<1>1. /\ call.at = "dispatch" /\ call' = [call EXCEPT !.at = "await"]
      /\ broker' = [broker EXCEPT ![call.txn] = "inTransit"]
      /\ UNCHANGED <<durable, store, windows, up, snapshot, acceptingNewWork>>
  BY DEF Dispatch, Proceed
<1>2. /\ call' \in Call /\ call'.at = "await" /\ call'.txn = call.txn
      /\ call'.chain = call.chain /\ call'.sequence = call.sequence
  BY <1>1 DEF IInv, TypeOK, Call
<1>3. journal' = journal /\ transactions' = transactions /\ receipts' = receipts
  BY <1>1 DEF durable
<1>4. /\ call.txn \in Transactions /\ up /\ Has(call.txn, {"prepared"})
      /\ dispatches[call.txn] = 0
  BY <1>1, RunningCall DEF IInv, CallInv, NotObserved, Unsettled, Sending
<1>5. dispatches' = [dispatches EXCEPT ![call.txn] = 1]
  BY <1>4 DEF Dispatch
<1>6. TypeOK'
  BY <1>1, <1>2, <1>3, <1>4, <1>5, ConstantsAssumption DEF IInv, TypeOK
<1>7. JournalInv' /\ ReceiptCertifiesRequested'
  BY <1>3 DEF IInv, JournalInv, Stored, Increasing, PreparedFirst, Has, TerminalIsLast, IsLast,
              SomeLatest, IsLatest, EventsOf, VerdictFollowsObservation, Reconcile,
              ReceiptCertifiesRequested, ReceiptEligible
<1>8. SentOnce'
  BY <1>3, <1>4, <1>5 DEF IInv, TypeOK, SentOnce, Has, EventsOf
<1>9. NotObserved' /\ AtLastEvent'
  BY <1>1, <1>2, <1>3 DEF IInv, CallInv, NotObserved, AtLastEvent, Sending, Unsettled, Settled, Has,
                          EventsOf, IsLast
<1>10. CallInv'
  BY <1>2, <1>9 DEF CallInv, NothingWritten, AtObservation, AtSuccess, Unwritten
<1>11. GateInv'
  BY <1>1, <1>2, <1>3, ClearKept DEF IInv, GateInv, GateAgreesWithRecovery, Accepts
<1>12. SuccessShownIsDurable'
  BY <1>1, <1>3 DEF IInv, SuccessShownIsDurable
<1>13. QED BY <1>5, <1>6, <1>7, <1>8, <1>10, <1>11, <1>12 DEF IInv

-----------------------------------------------------------------------------
(***************************************************************************)
(* The steps outside a call                                                *)
(***************************************************************************)
\* The one pending event is the last of a transaction that is not settled.
LEMMA PendingFacts ==
    ASSUME IInv, NEW i \in DOMAIN journal, Pending(i)
    PROVE  /\ IsLast(i, journal[i].txn) /\ ~Settled(journal[i].txn)
           /\ \A j \in DOMAIN journal : Pending(j) => j = i
<1>1. IsLast(i, journal[i].txn) /\ IsLatest(i) /\ journal[i].state \notin Terminal
  BY LatestIsLast DEF Pending, IInv, TypeOK
<1>2. ASSUME Settled(journal[i].txn) PROVE FALSE
  <2>1. PICK k \in EventsOf(journal[i].txn) : journal[k].state \in Terminal
    BY <1>2 DEF Settled, Has
  <2>2. IsLast(k, journal[i].txn)
    BY <2>1 DEF IInv, JournalInv, TerminalIsLast, EventsOf
  <2>3. k = i
    BY <1>1, <2>2, OneLast DEF IInv, TypeOK, JournalInv
  <2>4. QED BY <1>1, <2>1, <2>3
<1>3. \A j \in DOMAIN journal : Pending(j) => j = i
  BY <1>1, OneLatest DEF Pending, IInv, TypeOK
<1>4. QED BY <1>1, <1>2, <1>3

\* Startup and resume find nothing, and open the gate, or start a recovery.
LEMMA ReconcileStartupKeeps ==
    ASSUME IInv, call.at = "idle", ReconcileStartup, up' = TRUE,
           UNCHANGED <<durable, store, windows, broker, acceptingNewWork, dispatches>>
    PROVE  IInv'
<1>1. journal' = journal /\ transactions' = transactions /\ receipts' = receipts
  BY DEF durable
<1>2. JournalInv' /\ SentOnce' /\ ReceiptCertifiesRequested'
  BY <1>1, RowsKept
<1>3. CASE Clear /\ snapshot' = DefaultSnapshot /\ UNCHANGED call
  <2>1. TypeOK'
    BY <1>1, <1>3 DEF IInv, TypeOK, DefaultSnapshot, Snapshot
  <2>2. CallInv'
    BY <1>3, CallOver
  <2>3. GateInv'
    BY <1>1, <1>3, ClearKept DEF GateInv, GateAgreesWithRecovery
  <2>4. SuccessShownIsDurable'
    BY <1>3 DEF SuccessShownIsDurable, DefaultSnapshot
  <2>5. QED BY <1>2, <2>1, <2>2, <2>3, <2>4 DEF IInv
<1>4. ASSUME NEW i \in DOMAIN journal, Pending(i), call' = Recovery(i), UNCHANGED snapshot
      PROVE  IInv'
  <2>1. /\ journal[i].txn \in Transactions /\ journal[i].sequence \in Nat
        /\ IsLast(i, journal[i].txn) /\ ~Settled(journal[i].txn)
        /\ \A j \in DOMAIN journal : Pending(j) => j = i
    BY <1>4, PendingFacts, JournalTyped DEF IInv, TypeOK
  <2>2. /\ call' \in Call /\ call'.at = "observe" /\ call'.txn = journal[i].txn
        /\ call'.sequence = journal[i].sequence
    BY <1>4, <2>1 DEF Recovery, Call, Chains
  <2>3. TypeOK'
    BY <1>1, <1>4, <2>1, <2>2, ConstantsAssumption DEF IInv, TypeOK
  <2>4. AtLastEvent'
    BY <1>1, <2>1, <2>2 DEF AtLastEvent, IsLast, EventsOf, Settled, Has
  <2>5. CallInv'
    BY <2>2, <2>4 DEF CallInv, NothingWritten, NotObserved, AtObservation, AtSuccess, Unwritten,
                      Sending
  <2>6. GateInv'
    BY <1>1, <2>1, <2>2, ClearKept DEF GateInv, GateAgreesWithRecovery, Accepts
  <2>7. SuccessShownIsDurable'
    BY <1>1, <1>4 DEF IInv, SuccessShownIsDurable
  <2>8. QED BY <1>2, <2>3, <2>5, <2>6, <2>7 DEF IInv
<1>5. QED BY <1>3, <1>4 DEF ReconcileStartup

LEMMA RefuseKeeps ==
    ASSUME IInv, NEW t \in Transactions, Refuse(t)
    PROVE  IInv'
<1>1. /\ call.at = "idle" /\ acceptingNewWork' = FALSE
      /\ UNCHANGED <<durable, store, windows, broker, up, call, dispatches>>
  BY DEF Refuse, Accepts
<1>2. PICK state \in {"RecoveryRequired", "Unknown", "Conflict"} :
         snapshot' = [txn |-> t, state |-> state, accepts |-> FALSE]
  BY DEF Refuse, Refusals
<1>3. snapshot' \in Snapshot /\ snapshot'.accepts = FALSE /\ snapshot'.state = state
  BY <1>2 DEF Snapshot
<1>4. journal' = journal /\ transactions' = transactions /\ receipts' = receipts
  BY <1>1 DEF durable
<1>5. TypeOK'
  BY <1>1, <1>3, <1>4 DEF IInv, TypeOK
<1>6. JournalInv' /\ SentOnce' /\ ReceiptCertifiesRequested'
  BY <1>1, <1>4, RowsKept
<1>7. CallInv' /\ GateInv'
  BY <1>1, CallOver, GateClosed
<1>8. SuccessShownIsDurable'
  BY <1>3 DEF SuccessShownIsDurable
<1>9. QED BY <1>5, <1>6, <1>7, <1>8 DEF IInv

LEMMA BeginKeeps ==
    ASSUME IInv, NEW t \in Transactions, Begin(t)
    PROVE  IInv'
<1>1. /\ Accepts /\ call' = [NoCall EXCEPT !.at = "transaction", !.txn = t]
      /\ snapshot' = [txn |-> t, state |-> "Applying", accepts |-> FALSE]
      /\ UNCHANGED <<durable, store, windows, broker, up, acceptingNewWork, dispatches>>
  BY DEF Begin
<1>2. /\ call' \in Call /\ call'.at = "transaction" /\ call'.txn = t
      /\ call'.chain = "native" /\ call'.sequence = -1
  <2>1. NoCall \in Call /\ NoCall.chain = "native" /\ NoCall.sequence = -1
    BY DEF NoCall, Call, Chains
  <2>2. QED BY <1>1, <2>1 DEF Call
<1>3. snapshot' \in Snapshot /\ snapshot'.state = "Applying"
  BY <1>1 DEF Snapshot
<1>4. journal' = journal /\ transactions' = transactions /\ receipts' = receipts
  BY <1>1 DEF durable
<1>5. TypeOK'
  BY <1>1, <1>2, <1>3, <1>4, ConstantsAssumption DEF IInv, TypeOK, Accepts
<1>6. JournalInv' /\ SentOnce' /\ ReceiptCertifiesRequested'
  BY <1>1, <1>4, RowsKept
<1>7. CallInv'
  BY <1>2 DEF CallInv, NothingWritten, NotObserved, AtLastEvent, AtObservation, AtSuccess, Sending,
              Unsettled
<1>8. GateInv'
  BY <1>1, <1>2, <1>4, ClearKept DEF IInv, GateInv, GateAgreesWithRecovery, Accepts, Clear
<1>9. SuccessShownIsDurable'
  BY <1>3 DEF SuccessShownIsDurable
<1>10. QED BY <1>5, <1>6, <1>7, <1>8, <1>9 DEF IInv

LEMMA ShutdownKeeps ==
    ASSUME IInv, Shutdown
    PROVE  IInv'
<1>1. /\ call.at = "idle" /\ acceptingNewWork' = FALSE
      /\ snapshot' = [snapshot EXCEPT !.accepts = FALSE]
      /\ UNCHANGED <<durable, store, windows, broker, up, call, dispatches>>
  BY DEF Shutdown
<1>2. snapshot' \in Snapshot /\ snapshot'.state = snapshot.state /\ snapshot'.txn = snapshot.txn
  BY <1>1 DEF IInv, TypeOK, Snapshot
<1>3. journal' = journal /\ transactions' = transactions /\ receipts' = receipts
  BY <1>1 DEF durable
<1>4. TypeOK'
  BY <1>1, <1>2, <1>3 DEF IInv, TypeOK
<1>5. JournalInv' /\ SentOnce' /\ ReceiptCertifiesRequested'
  BY <1>1, <1>3, RowsKept
<1>6. CallInv' /\ GateInv'
  BY <1>1, CallOver, GateClosed
<1>7. SuccessShownIsDurable'
  BY <1>2, <1>3 DEF IInv, SuccessShownIsDurable
<1>8. QED BY <1>4, <1>5, <1>6, <1>7 DEF IInv

LEMMA CrashKeeps ==
    ASSUME IInv, Crash
    PROVE  IInv'
<1>1. /\ up' = FALSE /\ snapshot' = DefaultSnapshot /\ acceptingNewWork' = TRUE
      /\ call' = NoCall /\ broker' = InTransit /\ store' = "Writable"
      /\ UNCHANGED <<durable, windows, dispatches>>
  BY DEF Crash
<1>2. call' \in Call /\ call'.at = "idle" /\ call'.txn = NoTxn
  BY <1>1 DEF NoCall, Call, Chains
<1>3. journal' = journal /\ transactions' = transactions /\ receipts' = receipts
  BY <1>1 DEF durable
<1>4. broker' \in [Transactions -> {"none", "inTransit", "accepted", "rejected"}]
  BY <1>1 DEF InTransit
<1>5. TypeOK'
  BY <1>1, <1>2, <1>3, <1>4 DEF IInv, TypeOK, DefaultSnapshot, Snapshot
<1>6. JournalInv' /\ SentOnce' /\ ReceiptCertifiesRequested'
  BY <1>1, <1>3, RowsKept
<1>7. CallInv'
  BY <1>2, CallOver
<1>8. GateInv'
  BY <1>1, <1>2 DEF GateInv, GateAgreesWithRecovery, Accepts
<1>9. SuccessShownIsDurable'
  BY <1>1 DEF SuccessShownIsDurable, DefaultSnapshot
<1>10. QED BY <1>5, <1>6, <1>7, <1>8, <1>9 DEF IInv

\* Whatever the broker and Windows do, the process and its rows do not notice.
LEMMA EnvironmentKeeps ==
    ASSUME IInv, Drift \/ \E t \in Transactions : BrokerHandles(t)
    PROVE  IInv'
<1>1. UNCHANGED <<durable, store, up, snapshot, acceptingNewWork, call, dispatches>>
  BY DEF Drift, BrokerHandles
<1>2. windows' \in Schemes
  BY ConstantsAssumption DEF Drift, BrokerHandles, IInv, TypeOK
<1>3. broker' \in [Transactions -> {"none", "inTransit", "accepted", "rejected"}]
  <2> DEFINE handed == {"none", "inTransit", "accepted", "rejected"}
  <2>1. broker \in [Transactions -> handed]
    BY DEF IInv, TypeOK
  <2>2. ASSUME NEW t \in Transactions, BrokerHandles(t)
        PROVE  broker' \in [Transactions -> handed]
    <3>1. \E answers \in {{"accepted", "none"}, {"rejected", "none"}} : Answer(t, answers)
      BY <2>2 DEF BrokerHandles
    <3>2. PICK reply \in handed : broker' = [broker EXCEPT ![t] = reply]
      BY <3>1 DEF Answer
    <3>3. QED BY <2>1, <3>2
  <2>3. QED BY <2>1, <2>2 DEF Drift
<1>4. journal' = journal /\ transactions' = transactions /\ receipts' = receipts
  BY <1>1 DEF durable
<1>5. TypeOK'
  BY <1>1, <1>2, <1>3, <1>4 DEF IInv, TypeOK
<1>6. JournalInv' /\ SentOnce' /\ ReceiptCertifiesRequested'
  BY <1>1, <1>4, RowsKept
<1>7. CallInv'
  BY <1>1, CallKept
<1>8. GateInv'
  BY <1>1, <1>4, ClearKept DEF IInv, GateInv, GateAgreesWithRecovery, Accepts
<1>9. SuccessShownIsDurable'
  BY <1>1, <1>4 DEF IInv, SuccessShownIsDurable
<1>10. QED BY <1>5, <1>6, <1>7, <1>8, <1>9 DEF IInv

-----------------------------------------------------------------------------
(***************************************************************************)
(* The theorems                                                            *)
(***************************************************************************)
LEMMA Initial == Init => IInv
<1> SUFFICES ASSUME Init PROVE IInv
  OBVIOUS
<1>1. /\ journal = <<>> /\ transactions = {} /\ receipts = {} /\ ~up
      /\ snapshot = DefaultSnapshot /\ call = NoCall
      /\ dispatches = [t \in Transactions |-> 0]
  BY DEF Init
<1>2. journal \in Seq(Event) /\ DOMAIN journal = {}
  BY <1>1, EmptySeq, LenProperties
<1>3. call \in Call /\ call.at = "idle" /\ call.txn = NoTxn
  BY <1>1 DEF NoCall, Call, Chains
<1>4. TypeOK
  <2>1. snapshot \in Snapshot
    BY <1>1 DEF DefaultSnapshot, Snapshot
  <2>2. /\ broker \in [Transactions -> {"none", "inTransit", "accepted", "rejected"}]
        /\ dispatches \in [Transactions -> Nat]
    BY DEF Init
  <2>3. up \in BOOLEAN /\ acceptingNewWork \in BOOLEAN
    BY DEF Init
  <2>4. QED BY <1>1, <1>2, <1>3, <2>1, <2>2, <2>3 DEF Init, TypeOK
<1>5. JournalInv /\ SentOnce /\ ReceiptCertifiesRequested
  BY <1>1, <1>2 DEF JournalInv, Stored, Increasing, PreparedFirst, TerminalIsLast, SomeLatest,
                    VerdictFollowsObservation, SentOnce, ReceiptCertifiesRequested
<1>6. CallInv
  BY <1>3 DEF CallInv, NothingWritten, NotObserved, AtLastEvent, AtObservation, AtSuccess,
              Unwritten, Sending, Unsettled
<1>7. GateInv /\ SuccessShownIsDurable
  BY <1>1, <1>3 DEF GateInv, GateAgreesWithRecovery, Accepts, SuccessShownIsDurable, DefaultSnapshot
<1>8. QED BY <1>4, <1>5, <1>6, <1>7 DEF IInv

LEMMA StutterKeeps == IInv /\ UNCHANGED vars => IInv'
<1> SUFFICES ASSUME IInv, UNCHANGED vars PROVE IInv'
  OBVIOUS
<1>1. /\ UNCHANGED <<durable, store, windows, broker, up, snapshot, acceptingNewWork, call,
                     dispatches>>
      /\ journal' = journal /\ transactions' = transactions /\ receipts' = receipts
  BY DEF vars, durable
<1>2. TypeOK'
  BY <1>1 DEF IInv, TypeOK
<1>3. JournalInv' /\ SentOnce' /\ ReceiptCertifiesRequested'
  BY <1>1, RowsKept
<1>4. CallInv'
  BY <1>1, CallKept
<1>5. GateInv' /\ SuccessShownIsDurable'
  BY <1>1, ClearKept DEF IInv, GateInv, GateAgreesWithRecovery, Accepts, SuccessShownIsDurable
<1>6. QED BY <1>2, <1>3, <1>4, <1>5 DEF IInv

LEMMA Inductive == IInv /\ [Next]_vars => IInv'
<1> SUFFICES ASSUME IInv, [Next]_vars PROVE IInv'
  OBVIOUS
<1>1. CASE Start
  <2>1. call.at = "idle"
    BY <1>1 DEF Start, IInv, TypeOK
  <2>2. QED BY <1>1, <2>1, ReconcileStartupKeeps DEF Start
<1>2. CASE Resume
  BY <1>2, ReconcileStartupKeeps DEF Resume
<1>3. CASE Shutdown
  BY <1>3, ShutdownKeeps
<1>4. CASE Crash
  BY <1>4, CrashKeeps
<1>5. ASSUME NEW t \in Transactions, Refuse(t) \/ Begin(t)
      PROVE  IInv'
  BY <1>5, RefuseKeeps, BeginKeeps
<1>6. CASE Drift \/ \E t \in Transactions : BrokerHandles(t)
  BY <1>6, EnvironmentKeeps
<1>7. CASE CallStep
  BY <1>7, AppendTransactionKeeps, AppendPreparedKeeps, DispatchKeeps, DispatchReturnsKeeps,
     AppendReturnedKeeps, DispatchTimesOutKeeps, ObserveKeeps, AppendObservedKeeps,
     AppendVerdictKeeps, StoreReceiptKeeps DEF CallStep
<1>8. CASE UNCHANGED vars
  BY <1>8, StutterKeeps
<1>9. QED BY <1>1, <1>2, <1>3, <1>4, <1>5, <1>6, <1>7, <1>8 DEF Next

LEMMA Invariance == Spec => []IInv
  BY Initial, Inductive, PTL DEF Spec

\* Every variable stays in its type, and a call is running exactly at its steps.
THEOREM TypeCorrect == Spec => []TypeOK
<1>1. IInv => TypeOK
  BY DEF IInv
<1>2. QED BY <1>1, Invariance, PTL

\* A verdict stands right behind the observation it rests on and says of it what reconcile
\* says, on whichever chain, across crashes and any number of recoveries.
THEOREM VerdictsFollowObservations == Spec => []VerdictFollowsObservation
<1>1. IInv => VerdictFollowsObservation
  BY DEF IInv, JournalInv
<1>2. QED BY <1>1, Invariance, PTL

\* A receipt is stored only for a transaction whose last event is a success verdict on
\* exactly the state it requested (validate_receipt).
THEOREM ReceiptsCertify == Spec => []ReceiptCertifiesRequested
<1>1. IInv => ReceiptCertifiesRequested
  BY DEF IInv
<1>2. QED BY <1>1, Invariance, PTL

\* Success is shown only of a transaction whose receipt is durable (finalize_observation).
THEOREM SuccessIsDurable == Spec => []SuccessShownIsDurable
<1>1. IInv => SuccessShownIsDurable
  BY DEF IInv
<1>2. QED BY <1>1, Invariance, PTL

\* Behind an open gate load_recovery has nothing to report: the recovery check of an
\* execution never stops a transaction that accepts_new_mutation let through.
THEOREM GateAgrees == Spec => []GateAgreesWithRecovery
<1>1. IInv => GateAgreesWithRecovery
  BY DEF IInv, GateInv
<1>2. QED BY <1>1, Invariance, PTL

\* An unsettled transaction is behind an open gate only when the terminal event of another
\* one has a sequence number at least as high (load_recovery keeps one event).
THEOREM OverlookedIfOutrun == Spec => []OverlookedOnlyIfOutrun
<1>1. ASSUME IInv, Accepts, NEW t \in Transactions, Has(t, {"prepared"}), ~Settled(t)
      PROVE  \E i \in DOMAIN journal :
                /\ journal[i].txn # t /\ journal[i].state \in Terminal
                /\ \A j \in EventsOf(t) : journal[j].sequence <= journal[i].sequence
  <2>1. Clear /\ journal \in Seq(Event)
    BY <1>1 DEF IInv, TypeOK, GateInv, GateAgreesWithRecovery
  <2>2. journal # <<>>
    BY <1>1, <2>1, JournalTyped, EmptySeq DEF Has, EventsOf
  <2>3. PICK i \in DOMAIN journal : IsLatest(i)
    BY <1>1, <2>2 DEF IInv, JournalInv, SomeLatest
  <2>4. journal[i].state \in Terminal
    BY <2>1, <2>3 DEF Clear, Pending
  <2>5. journal[i].txn # t
    BY <1>1, <2>4 DEF Settled, Has, EventsOf
  <2>6. \A j \in EventsOf(t) : journal[j].sequence <= journal[i].sequence
    BY <2>1, <2>3, JournalTyped DEF IsLatest, EventsOf
  <2>7. QED BY <2>4, <2>5, <2>6
<1>2. IInv => OverlookedOnlyIfOutrun
  BY <1>1 DEF OverlookedOnlyIfOutrun
<1>3. QED BY <1>2, Invariance, PTL

-----------------------------------------------------------------------------
(***************************************************************************)
(* The executor implements the lifecycle of every transaction              *)
(***************************************************************************)
\* Every step leaves the journal and the history alone, writes one event of the running
\* call, or dispatches.
LEMMA StepKinds ==
    ASSUME IInv, [Next]_vars
    PROVE  \/ journal' = journal /\ dispatches' = dispatches
           \/ \E state \in States : MayWrite(state) /\ Grows(state) /\ dispatches' = dispatches
           \/ Dispatch
<1>1. CASE Start \/ Resume \/ Shutdown \/ Crash \/ Drift \/ UNCHANGED vars
  BY <1>1 DEF Start, Resume, Shutdown, Crash, Drift, vars, durable
<1>2. ASSUME NEW t \in Transactions, Refuse(t) \/ Begin(t) \/ BrokerHandles(t)
      PROVE  journal' = journal /\ dispatches' = dispatches
  BY <1>2 DEF Refuse, Begin, BrokerHandles, durable
<1>3. CASE AppendTransaction \/ StoreReceipt
  BY <1>3 DEF AppendTransaction, StoreReceipt
<1>4. CASE DispatchReturns \/ DispatchTimesOut \/ Observe
  BY <1>4 DEF DispatchReturns, DispatchTimesOut, Observe, durable
<1>5. ASSUME NEW state \in States, MayWrite(state), NEW ACTION next, AppendEvent(state, next)
      PROVE  \/ journal' = journal /\ dispatches' = dispatches
             \/ MayWrite(state) /\ Grows(state) /\ dispatches' = dispatches
  BY <1>5, AppendOutcomes
<1>6. ASSUME AppendPrepared
      PROVE  \/ journal' = journal /\ dispatches' = dispatches
             \/ \E state \in States : MayWrite(state) /\ Grows(state) /\ dispatches' = dispatches
  <2>1. "prepared" \in States /\ MayWrite("prepared")
    BY <1>6 DEF AppendPrepared, States, MayWrite
  <2>2. QED BY <1>5, <1>6, <2>1 DEF AppendPrepared
<1>7. ASSUME AppendReturned
      PROVE  \/ journal' = journal /\ dispatches' = dispatches
             \/ \E state \in States : MayWrite(state) /\ Grows(state) /\ dispatches' = dispatches
  <2>1. "dispatch-returned" \in States /\ MayWrite("dispatch-returned")
    BY <1>7 DEF AppendReturned, States, MayWrite
  <2>2. QED BY <1>5, <1>7, <2>1 DEF AppendReturned
<1>8. ASSUME AppendObserved
      PROVE  \/ journal' = journal /\ dispatches' = dispatches
             \/ \E state \in States : MayWrite(state) /\ Grows(state) /\ dispatches' = dispatches
  <2>1. "observed" \in States /\ MayWrite("observed")
    BY <1>8 DEF AppendObserved, States, MayWrite
  <2>2. QED BY <1>5, <1>8, <2>1 DEF AppendObserved
<1>9. ASSUME AppendVerdict
      PROVE  \/ journal' = journal /\ dispatches' = dispatches
             \/ \E state \in States : MayWrite(state) /\ Grows(state) /\ dispatches' = dispatches
  <2>1. PICK verdict \in States : verdict = Reconcile(call.txn, call.observed)
    BY ReconcileFacts DEF States
  <2>2. MayWrite(verdict)
    BY <1>9, <2>1 DEF AppendVerdict, MayWrite
  <2> DEFINE next == IF ReceiptEligible(verdict) THEN ProceedAfterEvent("receipt")
                     ELSE Return(StateOf(verdict), FALSE)
  <2>3. AppendEvent(verdict, next)
    BY <1>9, <2>1 DEF AppendVerdict
  <2> HIDE DEF next
  <2>4. QED BY <1>5, <2>2, <2>3
<1>10. QED
  BY <1>1, <1>2, <1>3, <1>4, <1>6, <1>7, <1>8, <1>9 DEF Next, CallStep

\* A transaction whose events stay as they are keeps its phase and its verdict.
LEMMA PhaseKept ==
    ASSUME NEW t, EventsOf(t)' = EventsOf(t), \A i \in EventsOf(t) : journal'[i] = journal[i]
    PROVE  PhaseOf(t)' = PhaseOf(t) /\ VerdictOf(t)' = VerdictOf(t)
<1>1. \A S : Has(t, S)' <=> Has(t, S)
  BY DEF Has
<1>2. Settled(t)' <=> Settled(t)
  BY <1>1 DEF Settled
<1>3. {journal'[i] : i \in EventsOf(t)'} = {journal[i] : i \in EventsOf(t)}
  OBVIOUS
<1>4. PhaseOf(t)' = PhaseOf(t)
  BY <1>1, <1>2 DEF PhaseOf
<1>5. VerdictOf(t)' = VerdictOf(t)
  BY <1>2, <1>3 DEF VerdictOf
<1>6. QED BY <1>4, <1>5

LEMMA LifecycleStarts ==
    ASSUME Init, NEW t \in Transactions
    PROVE  Lifecycle(t)!Init
<1>1. journal = <<>> /\ dispatches[t] = 0
  BY DEF Init
<1>2. DOMAIN journal = {}
  BY <1>1, EmptySeq, LenProperties
<1>3. \A S : ~Has(t, S)
  BY <1>2 DEF Has, EventsOf
<1>4. PhaseOf(t) = "none" /\ VerdictOf(t) = "none"
  BY <1>3 DEF PhaseOf, VerdictOf, Settled
<1>5. QED BY <1>1, <1>4 DEF Lifecycle!Init

\* Writing an event of a transaction is a step of its lifecycle, or none of it.
LEMMA WritingFollows ==
    ASSUME IInv, NEW state, MayWrite(state), Grows(state), dispatches' = dispatches,
           NEW t \in Transactions
    PROVE  UNCHANGED Lifecycle(t)!vars \/ Lifecycle(t)!Next
<1>1. /\ EventOf(state) \in Event /\ EventOf(state).txn = call.txn /\ EventOf(state).state = state
      /\ ~Settled(call.txn) /\ (state = "prepared" \/ Has(call.txn, {"prepared"}))
      /\ journal' = Append(journal, EventOf(state)) /\ journal \in Seq(Event)
  BY WriteFacts DEF Grows, IInv, TypeOK
<1>2. CASE t # call.txn
  <2>1. EventsOf(t)' = EventsOf(t) /\ \A i \in EventsOf(t) : journal'[i] = journal[i]
    BY <1>1, <1>2, GrowthOf
  <2>2. QED BY <2>1, PhaseKept DEF Lifecycle!vars
<1>3. CASE t = call.txn
  <2>1. \A S : Has(t, S)' <=> Has(t, S) \/ state \in S
    BY <1>1, <1>3, GrowthHas
  <2>2. ~Settled(t) /\ VerdictOf(t) = "none"
    BY <1>1, <1>3 DEF VerdictOf
  <2>3. CASE state \notin Terminal
    <3>1. ~Settled(t)'
      BY <2>1, <2>2, <2>3 DEF Settled
    <3>2. VerdictOf(t)' = "none"
      BY <3>1 DEF VerdictOf
    <3>3. CASE state = "prepared"
      <4>1. EventsOf(t) = {} /\ dispatches[t] = 0
        BY <1>3, <3>3, ReconcileFacts
           DEF MayWrite, Verdict, Terminal, IInv, CallInv, NothingWritten, SentOnce, Has
      <4>2. ~Has(t, {"observed"}) /\ ~Has(t, {"prepared"})
        BY <4>1 DEF Has
      <4>3. PhaseOf(t) = "none"
        BY <2>2, <4>2 DEF PhaseOf
      <4>4. PhaseOf(t)' = "prepared"
        BY <2>1, <3>1, <3>3, <4>2 DEF PhaseOf
      <4>5. QED BY <2>2, <3>2, <4>1, <4>3, <4>4 DEF Lifecycle!Next, Lifecycle!Prepare
    <3>4. CASE state = "observed"
      <4>1. PhaseOf(t) \in {"prepared", "observed"}
        BY <1>1, <1>3, <2>2, <3>4 DEF PhaseOf
      <4>2. PhaseOf(t)' = "observed"
        BY <2>1, <3>1, <3>4 DEF PhaseOf
      <4>3. CASE PhaseOf(t) = "prepared"
        BY <2>2, <3>2, <4>2, <4>3 DEF Lifecycle!Next, Lifecycle!Observe
      <4>4. CASE PhaseOf(t) = "observed"
        BY <2>2, <3>2, <4>2, <4>4 DEF Lifecycle!vars
      <4>5. QED BY <4>1, <4>3, <4>4
    <3>5. CASE state \notin {"prepared", "observed"}
      <4>1. PhaseOf(t)' = PhaseOf(t)
        BY <2>1, <2>2, <3>1, <3>5 DEF PhaseOf
      <4>2. QED BY <2>2, <3>2, <4>1 DEF Lifecycle!vars
    <3>6. QED BY <3>3, <3>4, <3>5
  <2>4. CASE state \in Terminal
    <3>1. call.at = "verdict"
      BY <2>4 DEF MayWrite, Terminal
    <3>2. Has(t, {"observed"})
      BY <1>3, <3>1 DEF IInv, CallInv, AtObservation, Has
    <3>3. PhaseOf(t) = "observed"
      BY <2>2, <3>2 DEF PhaseOf
    <3>4. Settled(t)'
      BY <2>1, <2>4 DEF Settled
    <3>5. PhaseOf(t)' = "settled"
      BY <3>4 DEF PhaseOf
    <3>6. VerdictOf(t)' = VerdictIn({journal'[i] : i \in EventsOf(t)'})
      BY <3>4 DEF VerdictOf, VerdictIn
    <3>7. PICK i \in EventsOf(t)' : journal'[i].state \in Terminal
      BY <3>4 DEF Settled, Has
    <3>8. VerdictOf(t)' \in Terminal
      BY <3>6, <3>7, Zenon DEF VerdictIn
    <3>9. QED BY <2>2, <3>3, <3>5, <3>8 DEF Lifecycle!Next, Lifecycle!Settle
  <2>5. QED BY <2>3, <2>4
<1>4. QED BY <1>2, <1>3

LEMMA DispatchFollows ==
    ASSUME IInv, Dispatch, NEW t \in Transactions
    PROVE  UNCHANGED Lifecycle(t)!vars \/ Lifecycle(t)!Next
<1>1. /\ call.at = "dispatch" /\ journal' = journal
      /\ dispatches' = [dispatches EXCEPT ![call.txn] = 1]
  BY DispatchKeeps DEF Dispatch, durable
<1>2. EventsOf(t)' = EventsOf(t)
  BY <1>1 DEF EventsOf
<1>3. PhaseOf(t)' = PhaseOf(t) /\ VerdictOf(t)' = VerdictOf(t)
  BY <1>1, <1>2, PhaseKept
<1>4. CASE t # call.txn
  BY <1>1, <1>3, <1>4 DEF Lifecycle!vars, IInv, TypeOK
<1>5. CASE t = call.txn
  <2>1. /\ Has(t, {"prepared"}) /\ ~Settled(t) /\ ~Has(t, {"observed"}) /\ dispatches[t] = 0
    BY <1>1, <1>5, RunningCall DEF IInv, CallInv, NotObserved, Unsettled, Sending
  <2>2. PhaseOf(t) = "prepared"
    BY <2>1 DEF PhaseOf
  <2>3. dispatches'[t] = 1
    BY <1>1, <1>5 DEF IInv, TypeOK
  <2>4. QED BY <1>3, <2>1, <2>2, <2>3 DEF Lifecycle!Next, Lifecycle!Send
<1>6. QED BY <1>4, <1>5

\* Across crashes, lost answers, appends that lie and any number of recoveries, a mutation
\* leaves at most once, only behind its durable prepared event and never after an
\* observation, and the first terminal verdict is the last.
THEOREM ImplementsLifecycle == Spec => FollowsLifecycle
<1>1. Init => \A t \in Transactions : Lifecycle(t)!Init
  BY LifecycleStarts
<1>2. IInv /\ [Next]_vars
        => [\A t \in Transactions : UNCHANGED Lifecycle(t)!vars \/ Lifecycle(t)!Next]_vars
  <2> SUFFICES ASSUME IInv, [Next]_vars, NEW t \in Transactions
               PROVE  UNCHANGED Lifecycle(t)!vars \/ Lifecycle(t)!Next
    OBVIOUS
  <2>1. CASE journal' = journal /\ dispatches' = dispatches
    <3>1. EventsOf(t)' = EventsOf(t)
      BY <2>1 DEF EventsOf
    <3>2. QED BY <2>1, <3>1, PhaseKept DEF Lifecycle!vars
  <2>2. CASE \E state \in States : MayWrite(state) /\ Grows(state) /\ dispatches' = dispatches
    BY <2>2, WritingFollows
  <2>3. CASE Dispatch
    BY <2>3, DispatchFollows
  <2>4. QED BY <2>1, <2>2, <2>3, StepKinds
<1>3. QED BY <1>1, <1>2, Invariance, PTL DEF Spec, FollowsLifecycle
=============================================================================
