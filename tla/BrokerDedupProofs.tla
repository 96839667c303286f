--------------------------- MODULE BrokerDedupProofs ---------------------------
(***************************************************************************)
(* Proofs about BrokerDedup for every set of identities, principals and    *)
(* issue times, any counter limit and any number of sessions.              *)
(*                                                                         *)
(* The strengthening DInv says what the tables, the one thread of the      *)
(* service, the pipe and the client know of each other between any two     *)
(* steps: a row carries what its operation did (RowsFit), the service sits *)
(* on the row of the request it serves (ServiceFits), the request and the  *)
(* reply under way are those of the client that waits (WireFits), a client *)
(* in step is ahead of the counter in the table (InStep), and counters and *)
(* nonces cover everything that was reserved (NoncesFit) or ever called,   *)
(* also what was pruned since (CalledFits).                                *)
(***************************************************************************)
EXTENDS BrokerDedup, SequenceTheorems, TLAPS

Busy == {"reserved", "marked", "dispatched"}
Act == [frame : Frame, answer : Answers \cup {"error"}]
States == {"absent", "reserved", "unknown-after-crash", "terminal"}

PrincipalOf(f) == sessions[f.session]

\* A row and the calls made for it (reserve to record_terminal).
RowFits(id) ==
    LET row == dedup[id]
    IN  /\ row.state # "absent" => /\ row.hash.session <= Len(sessions)
                                   /\ row.hash.counter <= counters[PrincipalOf(row.hash)]
        /\ row.state \in {"absent", "reserved"} => acts[id] = <<>>
        /\ row.state = "unknown-after-crash" =>
              acts[id] = <<>> \/ \E a \in Answers \cup {"error"} :
                                    acts[id] = <<[frame |-> row.hash, answer |-> a]>>
        /\ row.state = "terminal" =>
              /\ row.answer \in Answers
              /\ acts[id] = <<[frame |-> row.hash, answer |-> row.answer]>>
RowsFit == \A id \in Identities : RowFits(id)

\* The service is on the row of its request, and knows how far the row has come.
ServiceFits ==
    service.at \in Busy =>
        LET id == service.frame.id
        IN  /\ service.frame \in Frame
            /\ dedup[id].hash = service.frame
            /\ service.at = "reserved" => dedup[id].state = "reserved"
            /\ service.at = "marked" =>
                  dedup[id].state = "unknown-after-crash" /\ acts[id] = <<>>
            /\ service.at = "dispatched" =>
                  /\ dedup[id].state = "unknown-after-crash"
                  /\ service.answer \in Answers
                  /\ acts[id] = <<[frame |-> service.frame, answer |-> service.answer]>>

Connected == client.session # NoSession /\ client.session = service.session

\* What is on the pipe belongs to the client that waits, if one does.
WireFits ==
    /\ service.session <= Len(sessions) /\ client.session <= Len(sessions)
    /\ service.at = "stopped" => service.session = NoSession
    /\ service.session = NoSession => pipe = NoFrame /\ service.at \notin Busy
    /\ service.at \in Busy => pipe = NoFrame
    /\ pipe # NoFrame => pipe.session = service.session
    /\ client.session # NoSession => client.counter # 0
    /\ client.sent # NoFrame => /\ client.session # NoSession
                                /\ client.sent.session = client.session
                                /\ client.sent.counter = client.counter
    /\ Connected /\ client.sent = NoFrame => pipe = NoFrame /\ service.at \notin Busy
    /\ Connected /\ client.sent # NoFrame =>
          /\ pipe # NoFrame => pipe = client.sent
          /\ service.at \in Busy => service.frame = client.sent
    /\ reply # None => /\ Connected /\ client.sent # NoFrame
                       /\ pipe = NoFrame /\ service.at = "idle"

\* A client whose exchanges all got a response holds a counter that is still good.
InStep ==
    Connected /\ ~client.failed =>
        /\ counters[sessions[client.session]] <= client.counter
        /\ client.sent = NoFrame \/ pipe # NoFrame =>
              counters[sessions[client.session]] < client.counter

NoncesFit ==
    \A n \in nonces : /\ n.session <= Len(sessions)
                      /\ n.principal = sessions[n.session]
                      /\ n.counter <= counters[n.principal]

Tables == RowsFit /\ NoncesFit
\* Every call was made with a counter the table has reached, below that of a request which may
\* still be called.
CalledFits ==
    \A c \in called :
        /\ c.counter <= counters[c.principal]
        /\ service.at \in {"reserved", "marked"} /\ c.principal = PrincipalOf(service.frame) =>
               c.counter < service.frame.counter

DInv == TypeOK /\ Tables /\ ServiceFits /\ WireFits /\ InStep /\ ReplayOnlyAfterFailure
-----------------------------------------------------------------------------
(***************************************************************************)
(* Lemmas about frames and rows.                                           *)
(***************************************************************************)
LEMMA FrameFacts ==
    ASSUME NEW f \in Frame
    PROVE  /\ f.id \in Identities /\ f.session \in Session /\ f.counter \in Counter
           /\ f.issued \in Times
           /\ f # NoFrame
  BY BrokerAssumption DEF Frame, NoFrame, Session, NoSession, Counter

\* What a row of the table is, by its state.
LEMMA RowFacts ==
    ASSUME TypeOK, NEW id \in Identities
    PROVE  /\ dedup[id].state \in States
           /\ dedup[id].state = "absent" => dedup[id] = Absent
           /\ dedup[id].state # "absent" => dedup[id] \in Row /\ dedup[id].hash \in Frame
           /\ dedup[id].answer \in Answers \cup {None}
  BY DEF TypeOK, Row, Absent, States

\* Numbers of sessions and counters are natural numbers, of known clients.
LEMMA SessionFacts ==
    ASSUME TypeOK
    PROVE  /\ Len(sessions) \in Nat
           /\ \A s \in Session : s <= Len(sessions) => /\ sessions[s] \in Principals
                                                       /\ counters[sessions[s]] \in Nat
           /\ service.session \in Nat /\ client.session \in Nat /\ client.counter \in Nat
           /\ client.session # NoSession => client.session \in Session
           /\ service.session # NoSession => service.session \in Session
           /\ client.sent # NoFrame => client.sent \in Frame
           /\ pipe # NoFrame => pipe \in Frame
<1>1. Len(sessions) \in Nat /\ \A s \in 1 .. Len(sessions) : sessions[s] \in Principals
  BY ElementOfSeq, LenProperties DEF TypeOK
<1>2. \A p \in Principals : counters[p] \in Nat
  BY BrokerAssumption DEF TypeOK, Counter
<1>3. \A s \in Session : s \in Nat \ {0}
  BY BrokerAssumption DEF Session
<1>4. /\ service.session \in Session \cup {NoSession}
      /\ client.session \in Session \cup {NoSession}
      /\ client.counter \in Nat
      /\ client.sent \in Frame \cup {NoFrame}
      /\ pipe \in Frame \cup {NoFrame}
  BY BrokerAssumption DEF TypeOK, Service, Client, Counter
<1> QED
  BY <1>1, <1>2, <1>3, <1>4 DEF NoSession

\* Nothing that the tables know changes.
LEMMA TablesKept ==
    ASSUME Tables, UNCHANGED <<tables, sessions, acts>>
    PROVE  Tables'
  BY DEF Tables, RowsFit, RowFits, NoncesFit, PrincipalOf, tables
-----------------------------------------------------------------------------
(***************************************************************************)
(* Every initial state and every step keep DInv, action by action.         *)
(***************************************************************************)
LEMMA InitDInv == Init => DInv
<1> SUFFICES ASSUME Init PROVE DInv
  OBVIOUS
<1>1. TypeOK
  <2>1. sessions \in Seq(Principals) /\ Len(sessions) = 0
    BY EmptySeq DEF Init
  <2>2. \A id \in Identities : acts[id] = <<>> /\ acts[id] \in Seq(Act)
    BY EmptySeq DEF Init
  <2>3. acts \in [Identities -> Seq(Act)]
    BY <2>2 DEF Init
  <2> QED
    BY <2>1, <2>3, BrokerAssumption
    DEF Init, TypeOK, Service, Client, Stopped, Disconnected, Act
<1>2. Tables
  BY DEF Init, Tables, RowsFit, RowFits, NoncesFit, Absent
<1>3. ServiceFits /\ WireFits /\ InStep /\ ReplayOnlyAfterFailure
  BY EmptySeq DEF Init, ServiceFits, WireFits, InStep, ReplayOnlyAfterFailure, Connected, Stopped,
     Disconnected, Busy, NoSession, None
<1> QED
  BY <1>1, <1>2, <1>3 DEF DInv

\* A start of the service empties its memory and keeps the tables.
LEMMA StartStep == DInv /\ Start => DInv'
<1> SUFFICES ASSUME DInv, Start PROVE DInv'
  OBVIOUS
<1>1. TypeOK'
  BY DEF DInv, TypeOK, Start, Service, Stopped, tables
<1>2. Tables'
  BY TablesKept DEF DInv, Start
<1>3. /\ service.session = NoSession /\ pipe = NoFrame /\ reply = None
      /\ service'.session = NoSession /\ service'.at = "idle"
      /\ UNCHANGED <<tables, sessions, client, pipe, reply, acts, called>>
  BY DEF DInv, Start, WireFits, Stopped
<1>4. (ServiceFits /\ WireFits /\ InStep /\ ReplayOnlyAfterFailure)'
  BY <1>3, SessionFacts DEF DInv, ServiceFits, WireFits, InStep, ReplayOnlyAfterFailure,
     Connected, Busy, NoSession, None, tables
<1> QED
  BY <1>1, <1>2, <1>4 DEF DInv

\* The service loses its session and whatever is on the pipe.
LEMMA EndStep == DInv /\ (EndSession \/ StopService) => DInv'
<1> SUFFICES ASSUME DInv, EndSession \/ StopService PROVE DInv'
  OBVIOUS
<1>1. /\ pipe' = NoFrame /\ reply' = None
      /\ service' \in Service /\ service'.session = NoSession /\ service'.at \notin Busy
      /\ UNCHANGED <<tables, sessions, client, acts, called>>
  BY DEF DInv, TypeOK, EndSession, StopService, Service, Stopped, Busy
<1>2. TypeOK'
  BY <1>1 DEF DInv, TypeOK, tables
<1>3. Tables'
  BY <1>1, TablesKept DEF DInv
<1>4. (ServiceFits /\ WireFits /\ InStep /\ ReplayOnlyAfterFailure)'
  BY <1>1, SessionFacts DEF DInv, ServiceFits, WireFits, InStep, ReplayOnlyAfterFailure,
     Connected, NoSession, None, tables
<1> QED
  BY <1>2, <1>3, <1>4 DEF DInv

\* A connection opens a session of its own.
LEMMA ConnectStep == DInv /\ (\E p \in Principals : Connect(p)) => DInv'
<1> SUFFICES ASSUME DInv, NEW p \in Principals, Connect(p) PROVE DInv'
  OBVIOUS
<1> DEFINE s == Len(sessions) + 1
<1> USE DEF DInv
<1>1. /\ s \in Session
      /\ sessions' \in Seq(Principals) /\ Len(sessions') = s
      /\ sessions'[s] = p
      /\ \A i \in 1 .. Len(sessions) : sessions'[i] = sessions[i]
  BY SessionFacts, BrokerAssumption, AppendProperties DEF TypeOK, Connect, Session
<1>2. /\ service' = [service EXCEPT !.session = s]
      /\ service'.session = s /\ service'.at = "idle"
      /\ service.session = NoSession /\ client.session = NoSession
      /\ service' \in Service
  BY <1>1 DEF TypeOK, Connect, Service
<1>3. /\ client'.session \in {s, NoSession}
      /\ client'.sent = NoFrame /\ client' \in Client
      /\ client'.session = s => /\ client'.counter = counters[p] + 1
      /\ UNCHANGED <<tables, pipe, reply, acts, called>>
  <2>1. client.sent = NoFrame
    BY DEF WireFits, Connect
  <2>2. PICK counter \in 1 .. CounterLimit + 1 :
          /\ NextCounter(p, counter)
          /\ \/ client' = [Disconnected EXCEPT !.session = s, !.counter = counter]
             \/ UNCHANGED client
    BY DEF Connect
  <2>3. counter \in Counter /\ counter = counters[p] + 1
    BY <2>2, BrokerAssumption DEF NextCounter, TypeOK, Counter
  <2>4. client.session # s
    BY <1>1, <1>2, BrokerAssumption DEF Session, NoSession
  <2> QED
    BY <1>1, <2>1, <2>2, <2>3, <2>4 DEF TypeOK, Client, Disconnected, Connect, NoFrame
<1>4. TypeOK'
  <2>1. Len(sessions') <= MaxSessions
    BY <1>1 DEF Session
  <2> QED
    BY <1>1, <1>2, <1>3, <2>1 DEF TypeOK, tables
<1>5. Tables'
  <2>1. \A f \in Frame : f.session <= Len(sessions) =>
            /\ f.session <= Len(sessions') /\ sessions'[f.session] = sessions[f.session]
    BY <1>1, FrameFacts, SessionFacts, BrokerAssumption DEF Session
  <2>2. \A n \in nonces : n.session \in Session
    BY DEF TypeOK
  <2>3. \A n \in nonces : n.session <= Len(sessions) =>
            /\ n.session <= Len(sessions') /\ sessions'[n.session] = sessions[n.session]
    BY <1>1, <2>2, SessionFacts, BrokerAssumption DEF Session
  <2>4. RowsFit'
    BY <1>3, <2>1, RowFacts DEF Tables, RowsFit, RowFits, PrincipalOf, tables
  <2>5. NoncesFit'
    BY <1>3, <2>3 DEF Tables, NoncesFit, tables
  <2> QED
    BY <2>4, <2>5 DEF Tables
<1>6. ServiceFits'
  BY <1>2 DEF ServiceFits, Busy
<1>7. reply = None /\ pipe = NoFrame
  BY <1>2 DEF WireFits, Connected
<1>8. WireFits'
  <2>1. s # NoSession /\ counters[p] + 1 # 0
    BY <1>1, BrokerAssumption DEF NoSession, Session, TypeOK, Counter
  <2>2. service'.session <= Len(sessions') /\ client'.session <= Len(sessions')
    BY <1>1, <1>2, <1>3, BrokerAssumption DEF NoSession, Session
  <2> QED
    BY <1>2, <1>3, <1>7, <2>1, <2>2 DEF WireFits, Connected, Busy
<1>9. InStep'
  <2>1. counters[p] \in Nat /\ counters' = counters
    BY <1>3, BrokerAssumption DEF TypeOK, Counter, tables
  <2> QED
    BY <1>1, <1>2, <1>3, <2>1, BrokerAssumption DEF InStep, Connected, NoSession, Session
<1>10. ReplayOnlyAfterFailure'
  BY <1>3, <1>7 DEF ReplayOnlyAfterFailure, None
<1> QED
  BY <1>4, <1>5, <1>6, <1>8, <1>9, <1>10

\* A client sends the counter after the last one it knows of.
LEMMA SendStep == DInv /\ (\E id \in Identities, time \in Times : Send(id, time)) => DInv'
<1> SUFFICES ASSUME DInv, NEW id \in Identities, NEW time \in Times, Send(id, time)
             PROVE  DInv'
  OBVIOUS
<1> USE DEF DInv
<1>1. /\ Connected /\ client.sent = NoFrame /\ pipe = NoFrame /\ reply = None
      /\ service.at \notin Busy
  BY DEF Send, WireFits, Connected
<1>2. client.counter \in Counter
  BY <1>1 DEF WireFits, Connected, TypeOK, Client
<1> DEFINE f == [id |-> id, session |-> client.session, counter |-> client.counter,
                 issued |-> time]
<1>3. f \in Frame /\ f # NoFrame
  BY <1>1, <1>2, SessionFacts, FrameFacts DEF Connected, Frame
<1>4. /\ pipe' = f /\ client' = [client EXCEPT !.sent = f]
      /\ UNCHANGED <<tables, sessions, service, reply, acts, called>>
  BY DEF Send
<1>5. TypeOK'
  BY <1>3, <1>4 DEF TypeOK, Client, tables
<1>6. Tables'
  BY <1>4, TablesKept
<1>7. /\ client'.session = client.session /\ client'.counter = client.counter
      /\ client'.sent = f /\ client'.failed = client.failed
  BY <1>4 DEF TypeOK, Client
<1>8. ServiceFits' /\ WireFits'
  BY <1>1, <1>2, <1>3, <1>4, <1>7 DEF ServiceFits, WireFits, Connected, Busy, tables
<1>9. InStep' /\ ReplayOnlyAfterFailure'
  BY <1>1, <1>4, <1>7 DEF InStep, ReplayOnlyAfterFailure, Connected, tables, None
<1> QED
  BY <1>5, <1>6, <1>8, <1>9

\* The client takes the response, and moves its counter only with a valid one.
LEMMA ReceiveStep == DInv /\ Receive => DInv'
<1> SUFFICES ASSUME DInv, Receive PROVE DInv'
  OBVIOUS
<1> USE DEF DInv
<1>1. /\ Connected /\ client.sent # NoFrame /\ pipe = NoFrame /\ service.at = "idle"
      /\ reply' = None
      /\ UNCHANGED <<tables, sessions, service, pipe, acts, called>>
  BY DEF Receive, WireFits
<1>2. /\ client'.session = client.session /\ client'.sent = NoFrame
      /\ client'.counter \in {client.counter, client.counter + 1}
      /\ ~client'.failed => ~client.failed /\ client'.counter = client.counter + 1
  BY DEF Receive, TypeOK, Client
<1>3. client' \in Client
  <2>1. CASE client.counter < CounterLimit
    <3>1. client.counter + 1 \in Counter
      BY <2>1, BrokerAssumption DEF TypeOK, Client, Counter
    <3> QED
      BY <3>1 DEF Receive, TypeOK, Client
  <2>2. CASE ~(client.counter < CounterLimit)
    <3>1. client' = [client EXCEPT !.sent = NoFrame, !.failed = TRUE]
      BY <2>2 DEF Receive
    <3> QED
      BY <3>1 DEF TypeOK, Client
  <2> QED
    BY <2>1, <2>2
<1>4. TypeOK'
  BY <1>1, <1>3 DEF TypeOK, tables
<1>5. Tables'
  BY <1>1, TablesKept
<1>6. ServiceFits' /\ WireFits'
  BY <1>1, <1>2, SessionFacts DEF ServiceFits, WireFits, Connected, Busy, tables
<1>7. InStep'
  <2>1. counters[sessions[client.session]] \in Nat
    BY <1>1, SessionFacts DEF WireFits, Connected
  <2> QED
    BY <1>1, <1>2, <2>1, SessionFacts DEF InStep, Connected, tables
<1>8. ReplayOnlyAfterFailure'
  BY <1>1 DEF ReplayOnlyAfterFailure, None
<1> QED
  BY <1>4, <1>5, <1>6, <1>7, <1>8

\* A connection that ends leaves the tables alone.
LEMMA DisconnectStep == DInv /\ Disconnect => DInv'
<1> SUFFICES ASSUME DInv, Disconnect PROVE DInv'
  OBVIOUS
<1>1. /\ client' = Disconnected /\ reply' = None
      /\ UNCHANGED <<tables, sessions, service, pipe, acts, called>>
  BY DEF Disconnect
<1>2. TypeOK'
  BY <1>1 DEF DInv, TypeOK, Client, Disconnected, tables
<1>3. Tables'
  BY <1>1, TablesKept DEF DInv
<1>4. (ServiceFits /\ WireFits /\ InStep /\ ReplayOnlyAfterFailure)'
  BY <1>1, SessionFacts DEF DInv, ServiceFits, WireFits, InStep, ReplayOnlyAfterFailure,
     Connected, Disconnected, NoSession, None, tables
<1> QED
  BY <1>2, <1>3, <1>4 DEF DInv
-----------------------------------------------------------------------------
(***************************************************************************)
(* The steps of the service.                                               *)
(***************************************************************************)
Documents == Answers \cup Refusals \cup {"observation-required"}

\* The end of a request, whatever the outcome.
LEMMA FinishStep ==
    ASSUME DInv, NEW document \in Documents, Finish(document),
           pipe' = NoFrame, UNCHANGED <<counters, sessions, client>>,
           document = "replay" /\ Connected /\ client.sent # NoFrame => client.failed
    PROVE  /\ ServiceFits' /\ WireFits' /\ InStep' /\ ReplayOnlyAfterFailure'
           /\ service' \in Service
           /\ reply' \in {document, None}
           /\ reply' = document => Connected /\ client.sent # NoFrame
<1> USE DEF DInv
<1>1. /\ service' \in Service
      /\ service'.at = "idle" /\ service'.session = service.session
  BY DEF Finish, TypeOK, Service
<1>2. document # None
  BY DEF Documents, Answers, Refusals, None
<1>3. /\ reply' \in {document, None}
      /\ reply' # None => Connected /\ client.sent # NoFrame
  BY DEF Finish, Connected, WireFits
<1>4. ServiceFits'
  BY <1>1 DEF ServiceFits, Busy
<1>5. WireFits'
  BY <1>1, <1>3 DEF WireFits, Connected, Busy
<1>6. InStep'
  BY <1>1 DEF InStep, Connected
<1>7. ReplayOnlyAfterFailure'
  BY <1>3 DEF ReplayOnlyAfterFailure, None
<1> QED
  BY <1>1, <1>2, <1>3, <1>4, <1>5, <1>6, <1>7

\* The request of a client in step is no replay.
LEMMA NoReplayInStep ==
    ASSUME DInv, pipe # NoFrame, Replayed(pipe), Connected, client.sent # NoFrame
    PROVE  client.failed
<1> SUFFICES ASSUME ~client.failed PROVE FALSE
  OBVIOUS
<1> USE DEF DInv
<1>1. pipe = client.sent /\ pipe.session = client.session /\ pipe.counter = client.counter
  BY DEF WireFits
<1>2. client.session \in Session /\ client.session <= Len(sessions)
  BY SessionFacts DEF WireFits, Connected
<1>3. counters[sessions[pipe.session]] \in Nat /\ client.counter \in Nat
  BY <1>1, <1>2, SessionFacts
<1>4. counters[sessions[pipe.session]] < pipe.counter
  BY <1>1 DEF InStep
<1>5. CASE Nonce(pipe) \in nonces
  BY <1>1, <1>3, <1>4, <1>5 DEF Tables, NoncesFit, Nonce
<1>6. CASE pipe.counter <= counters[sessions[pipe.session]]
  BY <1>1, <1>3, <1>4, <1>6
<1> QED
  BY <1>5, <1>6 DEF Replayed

\* A refused request changes no table.
LEMMA RefuseStep == DInv /\ Refuse => DInv'
<1> SUFFICES ASSUME DInv, Refuse PROVE DInv'
  OBVIOUS
<1> USE DEF DInv
<1>1. /\ pipe # NoFrame /\ pipe' = NoFrame
      /\ UNCHANGED <<tables, sessions, client, acts, called>>
  BY DEF Refuse
<1>2. PICK document \in Documents :
        /\ Finish(document)
        /\ document = "replay" /\ Connected /\ client.sent # NoFrame => client.failed
  <2>1. pipe.id \in Identities
    BY <1>1, SessionFacts, FrameFacts
  <2>2. CASE Known(pipe) /\ Finish(Recorded(pipe))
    <3>1. Recorded(pipe) \in Answers \cup {"conflict", "observation-required"}
      BY <2>1 DEF Recorded, Tables, RowsFit, RowFits
    <3> QED
      BY <2>2, <3>1 DEF Documents, Refusals, Answers
  <2>3. CASE ~Known(pipe) /\ Replayed(pipe) /\ Finish("replay")
    BY <1>1, <2>3, NoReplayInStep DEF Documents, Refusals
  <2>4. CASE Finish("error")
    BY <2>4 DEF Documents, Refusals
  <2> QED
    BY <2>2, <2>3, <2>4 DEF Refuse
<1>3. /\ ServiceFits' /\ WireFits' /\ InStep' /\ ReplayOnlyAfterFailure'
      /\ service' \in Service /\ reply' \in Documents \cup {None}
  BY <1>1, <1>2, FinishStep DEF tables
<1>4. TypeOK'
  BY <1>1, <1>3 DEF TypeOK, tables, Documents
<1>5. Tables'
  BY <1>1, TablesKept
<1> QED
  BY <1>3, <1>4, <1>5

\* A reservation takes the identity, the counter and the nonce together.
LEMMA ReserveStep == DInv /\ Reserve => DInv'
<1> SUFFICES ASSUME DInv, Reserve PROVE DInv'
  OBVIOUS
<1> USE DEF DInv
<1> DEFINE f == pipe
           p == PrincipalOf(f)
<1>1. /\ f \in Frame /\ f # NoFrame /\ f.id \in Identities /\ f.session \in Session
      /\ f.counter \in Counter /\ f.session = service.session
      /\ f.session <= Len(sessions)
  BY SessionFacts, FrameFacts DEF Reserve, WireFits
<1>2. /\ p \in Principals /\ counters[p] \in Nat /\ f.counter \in Nat
      /\ counters[p] < f.counter
  BY <1>1, SessionFacts, BrokerAssumption DEF Reserve, Replayed, PrincipalOf, Counter
<1>3. /\ dedup[f.id].state = "absent" /\ acts[f.id] = <<>>
      /\ reply = None
  BY <1>1 DEF Reserve, Known, Tables, RowsFit, RowFits, WireFits
<1>4. /\ dedup' = [dedup EXCEPT ![f.id] = [Absent EXCEPT !.hash = f, !.state = "reserved"]]
      /\ counters' = [counters EXCEPT ![p] = f.counter]
      /\ nonces' = nonces \cup {Nonce(f)}
      /\ service'.at = "reserved" /\ service'.frame = f /\ service'.session = service.session
      /\ service' \in Service
      /\ pipe' = NoFrame
      /\ UNCHANGED <<sessions, client, reply, acts, called>>
  <2>1. service' = [service EXCEPT !.at = "reserved", !.frame = f] /\ service \in Service
    BY DEF Reserve, TypeOK
  <2>2. /\ service'.at = "reserved" /\ service'.frame = f
        /\ service'.session = service.session /\ service' \in Service
    BY <1>1, <2>1 DEF Service
  <2> QED
    BY <2>2 DEF Reserve, PrincipalOf
<1>5. /\ dedup'[f.id] \in Row
      /\ dedup'[f.id].hash = f /\ dedup'[f.id].state = "reserved"
      /\ \A id \in Identities \ {f.id} : dedup'[id] = dedup[id]
  <2>1. dedup'[f.id] = [Absent EXCEPT !.hash = f, !.state = "reserved"]
    BY <1>1, <1>4 DEF TypeOK
  <2>2. \A id \in Identities \ {f.id} : dedup'[id] = dedup[id]
    BY <1>4 DEF TypeOK
  <2> QED
    BY <1>1, <2>1, <2>2 DEF Absent, Row
<1>6. /\ counters'[p] = f.counter
      /\ \A q \in Principals : /\ counters[q] \in Nat /\ counters'[q] \in Nat
                               /\ counters[q] <= counters'[q]
  BY <1>2, <1>4, BrokerAssumption DEF TypeOK, Counter
<1>7. TypeOK'
  <2>1. dedup' \in [Identities -> Row \cup {Absent}]
    BY <1>4, <1>5 DEF TypeOK
  <2>2. counters' \in [Principals -> Counter \cup {0}]
    BY <1>1, <1>4 DEF TypeOK
  <2>3. nonces' \subseteq [principal : Principals, session : Session, counter : Counter]
    BY <1>1, <1>2, <1>4 DEF TypeOK, Nonce, PrincipalOf
  <2> QED
    BY <1>4, <2>1, <2>2, <2>3 DEF TypeOK
<1>8. \A id \in Identities : dedup[id].state # "absent" =>
        /\ dedup[id].hash \in Frame
        /\ PrincipalOf(dedup[id].hash) \in Principals
        /\ dedup[id].hash.session <= Len(sessions)
        /\ dedup[id].hash.counter \in Nat
        /\ dedup[id].hash.counter <= counters[PrincipalOf(dedup[id].hash)]
  <2> SUFFICES ASSUME NEW id \in Identities, dedup[id].state # "absent"
               PROVE  /\ dedup[id].hash \in Frame
                      /\ PrincipalOf(dedup[id].hash) \in Principals
                      /\ dedup[id].hash.session <= Len(sessions)
                      /\ dedup[id].hash.counter \in Nat
                      /\ dedup[id].hash.counter <= counters[PrincipalOf(dedup[id].hash)]
    OBVIOUS
  <2>1. /\ dedup[id].hash \in Frame /\ dedup[id].hash.session <= Len(sessions)
        /\ dedup[id].hash.counter <= counters[PrincipalOf(dedup[id].hash)]
    BY RowFacts DEF Tables, RowsFit, RowFits
  <2>2. dedup[id].hash.session \in Session /\ dedup[id].hash.counter \in Nat
    BY <2>1, FrameFacts, BrokerAssumption DEF Counter
  <2> QED
    BY <2>1, <2>2, SessionFacts DEF PrincipalOf
<1>9. \A g : PrincipalOf(g)' = PrincipalOf(g)
  BY <1>4 DEF PrincipalOf
<1>10. RowsFit'
  <2> SUFFICES ASSUME NEW id \in Identities PROVE RowFits(id)'
    BY DEF RowsFit
  <2>1. CASE id = f.id
    BY <1>1, <1>2, <1>3, <1>4, <1>5, <1>6, <1>9, <2>1 DEF RowFits
  <2>2. CASE id # f.id
    <3>1. dedup'[id] = dedup[id] /\ acts'[id] = acts[id] /\ sessions' = sessions
      BY <1>4, <1>5, <2>2
    <3>2. dedup[id].state # "absent" =>
            dedup[id].hash.counter <= counters'[PrincipalOf(dedup[id].hash)]
      BY <1>6, <1>8
    <3>3. RowFits(id)
      BY DEF Tables, RowsFit
    <3> QED
      BY <1>9, <3>1, <3>2, <3>3 DEF RowFits
  <2> QED
    BY <2>1, <2>2
<1>11. NoncesFit'
  <2> SUFFICES ASSUME NEW n \in nonces'
               PROVE  /\ n.session <= Len(sessions) /\ n.principal = sessions[n.session]
                      /\ n.counter <= counters'[n.principal]
    BY <1>4 DEF NoncesFit
  <2>1. CASE n \in nonces
    <3>1. /\ n.principal \in Principals /\ n.counter \in Nat
          /\ n.session <= Len(sessions) /\ n.principal = sessions[n.session]
          /\ n.counter <= counters[n.principal]
      BY <2>1, BrokerAssumption DEF TypeOK, Tables, NoncesFit, Counter
    <3> QED
      BY <1>6, <3>1
  <2>2. CASE n = Nonce(f)
    BY <1>1, <1>2, <1>6, <2>2 DEF Nonce, PrincipalOf
  <2> QED
    BY <1>4, <2>1, <2>2
<1>13. ServiceFits'
  BY <1>1, <1>4, <1>5 DEF ServiceFits
<1>14. WireFits'
  BY <1>1, <1>3, <1>4 DEF WireFits, Connected, Busy, Reserve, NoSession, Session
<1>15. InStep'
  <2> SUFFICES ASSUME Connected, ~client.failed
               PROVE  /\ counters'[sessions[client.session]] <= client.counter
                      /\ client.sent # NoFrame
    BY <1>4 DEF InStep, Connected
  <2>1. client.sent # NoFrame /\ client.sent = f
    BY <1>1 DEF WireFits
  <2> QED
    BY <1>2, <1>6, <2>1 DEF WireFits, PrincipalOf
<1>16. ReplayOnlyAfterFailure'
  BY <1>3, <1>4 DEF ReplayOnlyAfterFailure, None
<1> QED
  BY <1>7, <1>10, <1>11, <1>13, <1>14, <1>15, <1>16 DEF Tables

\* A step of the service on the row of its request: the rest of the tables stays.
LEMMA OtherRowsKept ==
    ASSUME Tables, NEW id \in Identities, dedup[id].state # "absent",
           UNCHANGED <<counters, nonces, sessions>>,
           dedup'[id].hash = dedup[id].hash, dedup'[id].state # "absent",
           \A other \in Identities \ {id} : /\ dedup'[other] = dedup[other]
                                            /\ acts'[other] = acts[other],
           RowFits(id)'
    PROVE  Tables'
<1>1. RowsFit'
  <2> SUFFICES ASSUME NEW other \in Identities PROVE RowFits(other)'
    BY DEF RowsFit
  <2>1. CASE other = id
    BY <2>1
  <2>2. CASE other # id
    <3>1. RowFits(other) /\ dedup'[other] = dedup[other] /\ acts'[other] = acts[other]
      BY <2>2 DEF Tables, RowsFit
    <3> QED
      BY <3>1 DEF RowFits, PrincipalOf
  <2> QED
    BY <2>1, <2>2
<1>2. NoncesFit'
  BY DEF Tables, NoncesFit
<1> QED
  BY <1>1, <1>2 DEF Tables

\* While the service works on a request, its row is there and holds its frame.
LEMMA BusyFacts ==
    ASSUME DInv, service.at \in Busy
    PROVE  /\ service.frame \in Frame /\ service.frame.id \in Identities
           /\ dedup[service.frame.id].hash = service.frame
           /\ dedup[service.frame.id].state # "absent"
           /\ dedup[service.frame.id] \in Row
           /\ pipe = NoFrame /\ reply = None
<1>1. service.frame \in Frame /\ service.frame.id \in Identities
  BY FrameFacts DEF DInv, ServiceFits
<1>2. /\ dedup[service.frame.id].hash = service.frame
      /\ dedup[service.frame.id].state # "absent"
  BY DEF DInv, ServiceFits, Busy
<1> QED
  BY <1>1, <1>2, RowFacts DEF DInv, WireFits, Busy

\* The service goes on with its request, without a word to the client.
LEMMA GoOnStep ==
    ASSUME DInv, service.at \in Busy, service'.at \in Busy,
           service'.session = service.session, service'.frame = service.frame,
           UNCHANGED <<counters, sessions, client, pipe, reply>>
    PROVE  WireFits' /\ InStep' /\ ReplayOnlyAfterFailure'
<1>1. pipe = NoFrame /\ reply = None
  BY BusyFacts
<1>2. Connected' = Connected
  BY DEF Connected
<1> QED
  BY <1>1, <1>2 DEF DInv, WireFits, InStep, ReplayOnlyAfterFailure, Busy, None

\* An outcome that is not known is recorded before the dispatch.
LEMMA MarkUnknownStep == DInv /\ MarkUnknown => DInv'
<1> SUFFICES ASSUME DInv, MarkUnknown PROVE DInv'
  OBVIOUS
<1> USE DEF DInv
<1> PICK id : id = service.frame.id
  OBVIOUS
<1>1. /\ service.at = "reserved" /\ service.at \in Busy
      /\ id \in Identities /\ service.frame \in Frame /\ dedup[id] \in Row
      /\ dedup[id].hash = service.frame
      /\ dedup[id].state = "reserved" /\ acts[id] = <<>>
      /\ pipe = NoFrame /\ reply = None
      /\ UNCHANGED <<counters, nonces, sessions, client, pipe, acts, called>>
  <2>1. service.at = "reserved" /\ service.at \in Busy
    BY DEF MarkUnknown, Busy
  <2>2. id \in Identities /\ dedup[id].state = "reserved"
    BY <2>1, BusyFacts DEF ServiceFits
  <2> QED
    BY <2>1, <2>2, BusyFacts DEF MarkUnknown, Tables, RowsFit, RowFits
<1>2. CASE Finish("error") /\ UNCHANGED dedup
  <2>1. /\ ServiceFits' /\ WireFits' /\ InStep' /\ ReplayOnlyAfterFailure'
        /\ service' \in Service /\ reply' \in {"error", None}
    BY <1>1, <1>2, FinishStep DEF Documents, Refusals
  <2>2. TypeOK' /\ Tables'
    BY <1>1, <1>2, <2>1, TablesKept DEF TypeOK, tables, Refusals
  <2> QED
    BY <2>1, <2>2
<1>3. CASE /\ dedup' = [dedup EXCEPT ![id].state = "unknown-after-crash"]
           /\ service' = [service EXCEPT !.at = "marked"]
           /\ UNCHANGED reply
  <2>1. /\ dedup'[id] = [dedup[id] EXCEPT !.state = "unknown-after-crash"]
        /\ dedup'[id] \in Row
        /\ dedup'[id].hash = dedup[id].hash
        /\ dedup'[id].state = "unknown-after-crash"
        /\ \A other \in Identities \ {id} : dedup'[other] = dedup[other]
        /\ dedup' \in [Identities -> Row \cup {Absent}]
    BY <1>1, <1>3 DEF TypeOK, Row
  <2>2. /\ service'.at = "marked" /\ service'.session = service.session
        /\ service'.frame = service.frame /\ service' \in Service
    BY <1>3 DEF TypeOK, Service
  <2>3. TypeOK'
    BY <1>1, <1>3, <2>1, <2>2 DEF TypeOK
  <2>4. RowFits(id)'
    BY <1>1, <2>1 DEF Tables, RowsFit, RowFits, PrincipalOf
  <2>5. Tables'
    BY <1>1, <2>1, <2>4, OtherRowsKept
  <2>6. ServiceFits'
    <3>1. service'.frame.id = id /\ service'.frame \in Frame /\ acts'[id] = <<>>
      BY <1>1, <2>2
    <3>2. dedup'[id].hash = service'.frame /\ dedup'[id].state = "unknown-after-crash"
      BY <1>1, <2>1, <2>2
    <3> HIDE DEF DInv
    <3> QED
      BY <2>2, <3>1, <3>2 DEF ServiceFits
  <2>7. WireFits' /\ InStep' /\ ReplayOnlyAfterFailure'
    BY <1>1, <1>3, <2>2, GoOnStep DEF Busy
  <2> QED
    BY <2>3, <2>5, <2>6, <2>7
<1> QED
  BY <1>2, <1>3 DEF MarkUnknown

\* The operation is called for a row that has no call yet.
LEMMA DispatchFacts ==
    ASSUME DInv, Dispatch
    PROVE  LET id == service.frame.id
           IN  /\ service.at = "marked" /\ service.at \in Busy
               /\ id \in Identities /\ service.frame \in Frame
               /\ dedup[id].hash = service.frame
               /\ dedup[id].state = "unknown-after-crash" /\ acts[id] = <<>>
               /\ pipe = NoFrame /\ reply = None
               /\ UNCHANGED <<tables, sessions, client, pipe>>
               /\ \E answer \in Answers \cup {"error"} :
                     LET r == [frame |-> service.frame, answer |-> answer]
                     IN  /\ r \in Act
                         /\ acts' = [acts EXCEPT ![id] = <<r>>]
                         /\ IF answer = "error" THEN Finish("error")
                            ELSE /\ service' = [service EXCEPT !.at = "dispatched",
                                                               !.answer = answer]
                                 /\ UNCHANGED reply
<1> DEFINE id == service.frame.id
<1>1. service.at = "marked" /\ service.at \in Busy
  BY DEF Dispatch, Busy
<1>2. /\ id \in Identities /\ service.frame \in Frame /\ dedup[id].hash = service.frame
      /\ dedup[id].state = "unknown-after-crash" /\ acts[id] = <<>>
      /\ pipe = NoFrame /\ reply = None
  BY <1>1, BusyFacts DEF DInv, ServiceFits
<1>3. PICK answer \in Answers \cup {"error"} :
        /\ acts' = [acts EXCEPT ![id] = Append(@, [frame |-> service.frame,
                                                  answer |-> answer])]
        /\ IF answer = "error" THEN Finish("error")
           ELSE /\ service' = [service EXCEPT !.at = "dispatched", !.answer = answer]
                /\ UNCHANGED reply
  BY DEF Dispatch
<1>4. Append(acts[id], [frame |-> service.frame, answer |-> answer]) =
        <<[frame |-> service.frame, answer |-> answer]>>
  BY <1>2
<1> QED
  BY <1>1, <1>2, <1>3, <1>4 DEF Dispatch, Act

\* A dispatch is remembered with its answer, a failed one too.
LEMMA DispatchStep == DInv /\ Dispatch => DInv'
<1> SUFFICES ASSUME DInv, Dispatch PROVE DInv'
  OBVIOUS
<1> USE DEF DInv
<1> PICK id : id = service.frame.id
  OBVIOUS
<1> DEFINE r(answer) == [frame |-> service.frame, answer |-> answer]
<1>1. /\ service.at = "marked" /\ service.at \in Busy
      /\ id \in Identities /\ service.frame \in Frame
      /\ dedup[id].hash = service.frame
      /\ dedup[id].state = "unknown-after-crash" /\ acts[id] = <<>>
      /\ pipe = NoFrame /\ reply = None
      /\ UNCHANGED <<tables, sessions, client, pipe>>
  BY DispatchFacts
<1>2. PICK answer \in Answers \cup {"error"} :
        /\ r(answer) \in Act
        /\ acts' = [acts EXCEPT ![id] = <<r(answer)>>]
        /\ IF answer = "error" THEN Finish("error")
           ELSE /\ service' = [service EXCEPT !.at = "dispatched", !.answer = answer]
                /\ UNCHANGED reply
  BY DispatchFacts
<1>3. /\ acts'[id] = <<r(answer)>>
      /\ \A other \in Identities \ {id} : acts'[other] = acts[other]
      /\ acts' \in [Identities -> Seq(Act)]
      /\ called' \subseteq [principal : Principals, counter : Counter]
  <2>0. Counted(service.frame) \in [principal : Principals, counter : Counter]
    <3>1. service.frame.session <= Len(sessions)
      BY <1>1 DEF Tables, RowsFit, RowFits
    <3> QED
      BY <1>1, <3>1, FrameFacts, SessionFacts DEF Counted
  <2>1. <<r(answer)>> \in Seq(Act)
    BY <1>2
  <2> QED
    BY <1>1, <1>2, <2>0, <2>1 DEF TypeOK, Act, Dispatch
<1>4. Tables'
  <2>1. RowFits(id)'
    BY <1>1, <1>3 DEF Tables, RowsFit, RowFits, PrincipalOf, tables
  <2> QED
    BY <1>1, <1>3, <2>1, OtherRowsKept DEF tables
<1>5. CASE answer = "error"
  <2>1. Finish("error")
    BY <1>2, <1>5
  <2>2. /\ ServiceFits' /\ WireFits' /\ InStep' /\ ReplayOnlyAfterFailure'
        /\ service' \in Service /\ reply' \in {"error", None}
    BY <1>1, <2>1, FinishStep DEF Documents, Refusals, tables
  <2>3. TypeOK'
    BY <1>1, <1>3, <2>2 DEF TypeOK, tables, Refusals, Act
  <2> QED
    BY <1>4, <2>2, <2>3
<1>6. CASE answer \in Answers
  <2>1. /\ service' = [service EXCEPT !.at = "dispatched", !.answer = answer]
        /\ UNCHANGED reply
    BY <1>2, <1>6 DEF Answers
  <2>2. /\ service'.at = "dispatched" /\ service'.session = service.session
        /\ service'.frame = service.frame /\ service'.answer = answer /\ service' \in Service
    BY <1>6, <2>1 DEF TypeOK, Service
  <2>3. TypeOK'
    BY <1>1, <1>3, <2>1, <2>2 DEF TypeOK, tables, Act
  <2>4. ServiceFits'
    BY <1>1, <1>3, <1>6, <2>2 DEF ServiceFits, tables
  <2>5. WireFits' /\ InStep' /\ ReplayOnlyAfterFailure'
    BY <1>1, <2>1, <2>2, GoOnStep DEF Busy, tables
  <2> QED
    BY <1>4, <2>3, <2>4, <2>5
<1> QED
  BY <1>5, <1>6

\* The recorded answer is the one the operation gave to the request of the row.
LEMMA RecordTerminalStep == DInv /\ RecordTerminal => DInv'
<1> SUFFICES ASSUME DInv, RecordTerminal PROVE DInv'
  OBVIOUS
<1> USE DEF DInv
<1> PICK id : id = service.frame.id
  OBVIOUS
<1>1. /\ service.at = "dispatched" /\ service.at \in Busy
      /\ id \in Identities /\ service.frame \in Frame /\ dedup[id] \in Row
      /\ dedup[id].hash = service.frame
      /\ dedup[id].state = "unknown-after-crash"
      /\ service.answer \in Answers
      /\ acts[id] = <<[frame |-> service.frame, answer |-> service.answer]>>
      /\ pipe = NoFrame
      /\ UNCHANGED <<counters, nonces, sessions, client, pipe, acts, called>>
  <2>1. service.at = "dispatched" /\ service.at \in Busy
    BY DEF RecordTerminal, Busy
  <2> QED
    BY <2>1, BusyFacts DEF RecordTerminal, ServiceFits
<1>2. /\ service.answer \in Documents /\ service.answer # "replay"
      /\ "error" \in Documents
  BY <1>1 DEF Documents, Refusals, Answers
<1>3. CASE Finish("error") /\ UNCHANGED dedup
  <2>1. /\ ServiceFits' /\ WireFits' /\ InStep' /\ ReplayOnlyAfterFailure'
        /\ service' \in Service /\ reply' \in {"error", None}
    BY <1>1, <1>2, <1>3, FinishStep
  <2>2. TypeOK' /\ Tables'
    BY <1>1, <1>3, <2>1, TablesKept DEF TypeOK, tables, Refusals
  <2> QED
    BY <2>1, <2>2
<1>4. CASE /\ dedup' = [dedup EXCEPT ![id].state = "terminal",
                                     ![id].answer = service.answer]
           /\ Finish(service.answer)
  <2>1. dedup' = [dedup EXCEPT ![id] = [dedup[id] EXCEPT !.state = "terminal",
                                                         !.answer = service.answer]]
    BY <1>1, <1>4 DEF TypeOK
  <2>2. /\ dedup'[id] \in Row
        /\ dedup'[id].hash = dedup[id].hash
        /\ dedup'[id].state = "terminal" /\ dedup'[id].answer = service.answer
        /\ \A other \in Identities \ {id} : dedup'[other] = dedup[other]
        /\ dedup' \in [Identities -> Row \cup {Absent}]
    BY <1>1, <2>1 DEF TypeOK, Row
  <2>3. /\ ServiceFits' /\ WireFits' /\ InStep' /\ ReplayOnlyAfterFailure'
        /\ service' \in Service /\ reply' \in Answers \cup {None}
    BY <1>1, <1>2, <1>4, FinishStep
  <2>4. TypeOK'
    BY <1>1, <2>2, <2>3 DEF TypeOK
  <2>5. RowFits(id)'
    BY <1>1, <2>2 DEF Tables, RowsFit, RowFits, PrincipalOf
  <2>6. Tables'
    BY <1>1, <2>2, <2>5, OtherRowsKept
  <2> QED
    BY <2>3, <2>4, <2>6
<1> QED
  BY <1>3, <1>4 DEF RecordTerminal

\* Between two requests rows are marked or forgotten; nobody is on them.
LEMMA RetentionFrame ==
    ASSUME DInv, service.at = "idle",
           UNCHANGED <<counters, nonces, sessions, service, client, pipe, reply>>
    PROVE  ServiceFits' /\ WireFits' /\ InStep' /\ ReplayOnlyAfterFailure'
  BY DEF DInv, ServiceFits, WireFits, InStep, ReplayOnlyAfterFailure, Connected, Busy

\* A reference for recovery keeps the row from being pruned.
LEMMA ReferenceStep == DInv /\ (\E id \in Identities : ReferenceForRecovery(id)) => DInv'
<1> SUFFICES ASSUME DInv, NEW id \in Identities, ReferenceForRecovery(id) PROVE DInv'
  OBVIOUS
<1> USE DEF DInv
<1>1. /\ service.at = "idle" /\ dedup[id].state # "absent"
      /\ dedup' = [dedup EXCEPT ![id] = [dedup[id] EXCEPT !.referenced = TRUE]]
      /\ UNCHANGED <<counters, nonces, sessions, service, client, pipe, reply, acts, called>>
  BY DEF ReferenceForRecovery, TypeOK
<1>2. dedup[id] \in Row
  BY <1>1, RowFacts
<1>3. /\ dedup'[id] \in Row
      /\ dedup'[id].hash = dedup[id].hash /\ dedup'[id].state = dedup[id].state
      /\ dedup'[id].answer = dedup[id].answer
      /\ \A other \in Identities \ {id} : dedup'[other] = dedup[other]
      /\ dedup' \in [Identities -> Row \cup {Absent}]
  BY <1>1, <1>2 DEF TypeOK, Row
<1>4. TypeOK'
  BY <1>1, <1>3 DEF TypeOK
<1>5. RowFits(id)'
  BY <1>1, <1>3 DEF Tables, RowsFit, RowFits, PrincipalOf
<1>6. Tables'
  BY <1>1, <1>3, <1>5, OtherRowsKept
<1> QED
  BY <1>1, <1>4, <1>6, RetentionFrame

\* Pruning removes only rows that are old and concluded.
LEMMA PruneStep == DInv /\ Prune => DInv'
<1> SUFFICES ASSUME DInv, Prune PROVE DInv'
  OBVIOUS
<1> USE DEF DInv
<1>1. PICK ids \in SUBSET Prunable \ {{}} :
        /\ dedup' = [id \in Identities |-> IF id \in ids THEN Absent ELSE dedup[id]]
        /\ acts' = [id \in Identities |-> IF id \in ids THEN <<>> ELSE acts[id]]
  BY DEF Prune
<1>2. /\ service.at = "idle"
      /\ UNCHANGED <<counters, nonces, sessions, service, client, pipe, reply, called>>
  BY DEF Prune
<1>3. TypeOK'
  <2>1. dedup' \in [Identities -> Row \cup {Absent}]
    BY <1>1 DEF TypeOK
  <2>2. acts' \in [Identities -> Seq(Act)]
    BY <1>1, EmptySeq DEF TypeOK, Act
  <2> QED
    BY <1>2, <2>1, <2>2 DEF TypeOK, Act
<1>4. RowsFit'
  <2> SUFFICES ASSUME NEW id \in Identities PROVE RowFits(id)'
    BY DEF RowsFit
  <2>1. CASE id \in ids
    <3>1. dedup'[id].state = "absent" /\ acts'[id] = <<>>
      BY <1>1, <2>1 DEF Absent
    <3> QED
      BY <3>1 DEF RowFits
  <2>2. CASE id \notin ids
    <3>1. dedup'[id] = dedup[id] /\ acts'[id] = acts[id] /\ RowFits(id)
      BY <1>1, <2>2 DEF Tables, RowsFit
    <3> QED
      BY <1>2, <3>1 DEF RowFits, PrincipalOf
  <2> QED
    BY <2>1, <2>2
<1>5. NoncesFit'
  BY <1>2 DEF Tables, NoncesFit
<1> QED
  BY <1>2, <1>3, <1>4, <1>5, RetentionFrame DEF Tables

-----------------------------------------------------------------------------
(***************************************************************************)
(* DInv is inductive.                                                      *)
(***************************************************************************)
LEMMA NextStep == DInv /\ [Next]_vars => DInv'
<1>1. DInv /\ UNCHANGED vars => DInv'
  <2> SUFFICES ASSUME DInv, UNCHANGED vars PROVE DInv'
    OBVIOUS
  <2>1. Tables'
    <3>1. UNCHANGED <<tables, sessions, acts>>
      BY DEF vars, tables
    <3> QED
      BY <3>1, TablesKept DEF DInv
  <2>2. TypeOK'
    <3>1. /\ dedup' = dedup /\ counters' = counters /\ nonces' = nonces
          /\ sessions' = sessions /\ service' = service /\ client' = client
          /\ pipe' = pipe /\ reply' = reply /\ acts' = acts /\ called' = called
      BY DEF vars, tables
    <3> QED
      BY <3>1 DEF DInv, TypeOK
  <2>3. (ServiceFits /\ WireFits /\ InStep /\ ReplayOnlyAfterFailure)'
    BY DEF DInv, ServiceFits, WireFits, InStep, ReplayOnlyAfterFailure, Connected, vars, tables
  <2> QED
    BY <2>1, <2>2, <2>3 DEF DInv
<1> QED
  BY <1>1, StartStep, EndStep, ConnectStep, SendStep, ReceiveStep, DisconnectStep, RefuseStep,
     ReserveStep, MarkUnknownStep, DispatchStep, RecordTerminalStep, ReferenceStep, PruneStep
  DEF Next

\* The invariant holds of every behaviour.
LEMMA Invariance == Spec => []DInv
  BY InitDInv, NextStep, PTL DEF Spec

\* TypeOK holds for every set of identities and principals and any bounds; no client is
\* ever given a counter beyond the limit (next_counter, exchange_validated).
THEOREM TypeCorrect == Spec => []TypeOK
<1>1. DInv => TypeOK
  BY DEF DInv
<1> QED
  BY <1>1, Invariance, PTL

\* A client is refused as a replay only after an exchange of its session failed
\* (next_counter in the handshake, exchange_validated).
THEOREM ClientsStayInStep == Spec => []ReplayOnlyAfterFailure
<1>1. DInv => ReplayOnlyAfterFailure
  BY DEF DInv
<1> QED
  BY <1>1, Invariance, PTL

\* A call is made with the counter of a request that was reserved above all that were called.
LEMMA CalledStep == DInv /\ CalledFits /\ [Next]_vars => CalledFits'
<1> SUFFICES ASSUME DInv, CalledFits, [Next]_vars PROVE CalledFits'
  OBVIOUS
<1>0. \A c \in called :
          c.principal \in Principals /\ c.counter \in Nat /\ counters[c.principal] \in Nat
  BY BrokerAssumption DEF DInv, TypeOK, Counter
<1>1. CASE /\ UNCHANGED <<called, counters>>
           /\ service'.at \in {"reserved", "marked"} =>
                 /\ service.at \in {"reserved", "marked"} /\ service'.frame = service.frame
                 /\ UNCHANGED sessions
  BY <1>1 DEF CalledFits, PrincipalOf
<1>2. CASE Reserve
  <2> DEFINE f == pipe
             p == PrincipalOf(f)
  <2>1. f \in Frame /\ f.session <= Len(sessions) /\ f.session \in Session
    BY <1>2, SessionFacts, FrameFacts DEF DInv, Reserve, WireFits
  <2>2. p \in Principals /\ f.counter \in Nat /\ counters[p] \in Nat /\ counters[p] < f.counter
    BY <1>2, <2>1, SessionFacts, FrameFacts, BrokerAssumption
    DEF DInv, Reserve, Replayed, PrincipalOf, Counter
  <2>3. /\ counters' = [counters EXCEPT ![p] = f.counter] /\ UNCHANGED <<called, sessions>>
        /\ service'.frame = f
    BY <1>2 DEF DInv, Reserve, PrincipalOf, TypeOK, Service
  <2> HIDE DEF p
  <2>4. \A c \in called : /\ counters'[c.principal] = IF c.principal = p THEN f.counter
                                                      ELSE counters[c.principal]
                          /\ c.counter <= counters[c.principal]
    <3>1. counters \in [Principals -> Counter \cup {0}]
      BY DEF DInv, TypeOK
    <3> QED
      BY <1>0, <2>3, <3>1 DEF CalledFits
  <2>5. sessions'[service'.frame.session] = p
    BY <2>3 DEF PrincipalOf, p
  <2> QED
    BY <1>0, <2>2, <2>3, <2>4, <2>5 DEF CalledFits, PrincipalOf
<1>3. CASE Dispatch
  <2> DEFINE f == service.frame
  <2>1. /\ f.id \in Identities /\ f = dedup[f.id].hash /\ dedup[f.id].state # "absent"
        /\ UNCHANGED <<counters, sessions>>
    BY <1>3, DispatchFacts DEF tables
  <2>2. f.counter <= counters[PrincipalOf(f)]
    BY <2>1 DEF DInv, Tables, RowsFit, RowFits
  <2>3. called' = called \cup {Counted(f)}
    BY <1>3 DEF Dispatch
  <2>4. service'.at \notin {"reserved", "marked"}
    BY <1>3 DEF Dispatch, Finish, DInv, TypeOK, Service
  <2> QED
    BY <2>1, <2>2, <2>3, <2>4 DEF CalledFits, Counted, PrincipalOf
<1>4. CASE MarkUnknown
  BY <1>1, <1>4 DEF MarkUnknown, Finish, DInv, TypeOK, Service
<1>5. CASE UNCHANGED <<called, counters>> /\ service'.at \notin {"reserved", "marked"}
  BY <1>1, <1>5
<1>6. CASE UNCHANGED <<called, counters, service, sessions>>
  BY <1>1, <1>6
<1>7. ASSUME NEW p \in Principals, Connect(p) PROVE CalledFits'
  <2> DEFINE s == Len(sessions) + 1
  <2>1. service' = [service EXCEPT !.session = s] /\ service.at = "idle"
        /\ UNCHANGED <<counters, called>>
    BY <1>7 DEF Connect, tables
  <2> HIDE DEF s
  <2>2. service'.at = "idle"
    BY <2>1 DEF DInv, TypeOK, Service
  <2> QED
    BY <1>5, <2>1, <2>2
<1>8. CASE Start \/ EndSession \/ StopService \/ Refuse \/ RecordTerminal
  <2>1. service \in Service /\ \A document : Finish(document) => service'.at = "idle"
    BY DEF DInv, TypeOK, Finish, Service
  <2>2. CASE Start \/ StopService
    BY <1>5, <2>2 DEF Start, StopService, Stopped, tables
  <2>3. CASE EndSession
    <3>1. service'.at = "idle"
      BY <2>1, <2>3 DEF EndSession, Service
    <3> QED
      BY <1>5, <2>3, <3>1 DEF EndSession, tables
  <2>4. CASE Refuse \/ RecordTerminal
    <3>1. service'.at = "idle"
      BY <2>1, <2>4 DEF Refuse, RecordTerminal
    <3> QED
      BY <1>5, <2>4, <3>1 DEF Refuse, RecordTerminal, tables
  <2> QED
    BY <1>8, <2>2, <2>3, <2>4
<1> QED
  BY <1>2, <1>3, <1>4, <1>6, <1>7, <1>8
  DEF Next, Send, Receive, Disconnect, ReferenceForRecovery, Prune, vars, tables

\* A counter of a principal admits one call, in whichever session, and whatever was pruned
\* (reserve, prune_terminal_before).
THEOREM CountersAdmitOneRequest == Spec => CounterAdmitsOneRequest
<1>1. Init => DInv /\ CalledFits
  BY InitDInv DEF Init, CalledFits
<1>2. DInv /\ CalledFits /\ [Next]_vars => DInv' /\ CalledFits'
  BY NextStep, CalledStep
<1>3. ASSUME DInv, CalledFits, [Next]_vars, NEW id \in Identities, Len(acts'[id]) > Len(acts[id])
      PROVE  Counted(service.frame) \notin called
  <2>1. service.at = "marked"
    <3>1. CASE Dispatch
      BY <3>1 DEF Dispatch
    <3>2. CASE Prune
      <4>1. acts'[id] = acts[id] \/ acts'[id] = <<>>
        BY <3>2 DEF Prune
      <4>2. Len(acts[id]) \in Nat /\ Len(<<>>) = 0
        BY LenProperties, EmptySeq DEF DInv, TypeOK
      <4> QED
        BY <1>3, <4>1, <4>2
    <3>3. CASE UNCHANGED acts
      <4>1. Len(acts[id]) \in Nat
        BY LenProperties DEF DInv, TypeOK
      <4> QED
        BY <1>3, <3>3, <4>1
    <3> QED
      BY <1>3, <3>1, <3>2, <3>3
      DEF Next, Start, EndSession, StopService, Connect, Send, Receive, Disconnect, Refuse, Reserve,
          MarkUnknown, RecordTerminal, ReferenceForRecovery, vars
  <2>2. ASSUME NEW c \in called, c = Counted(service.frame) PROVE FALSE
    <3>1. c.counter < service.frame.counter
      BY <1>3, <2>1, <2>2 DEF CalledFits, Counted, PrincipalOf
    <3>2. c.counter = service.frame.counter /\ c.counter \in Nat
      BY <1>3, <2>2, BrokerAssumption DEF Counted, DInv, TypeOK, Counter
    <3> QED
      BY <3>1, <3>2
  <2> QED
    BY <2>2
<1>4. DInv /\ CalledFits /\ [Next]_vars =>
        [\A id \in Identities : Len(acts'[id]) > Len(acts[id]) =>
             Counted(service.frame) \notin called]_vars
  BY <1>3
<1> QED
  BY <1>1, <1>2, <1>4, PTL DEF Spec, CounterAdmitsOneRequest

\* An answer is told by Refuse, from the table, or by RecordTerminal, from the operation.
THEOREM EveryAnswerIsGenuine == Spec => AnswersAreGenuine
<1> DEFINE Told == [frame |-> client.sent, answer |-> reply'] \in
                      {acts'[client.sent.id][i] : i \in DOMAIN acts'[client.sent.id]}
<1>1. ASSUME DInv, [Next]_vars, reply = None, reply' \in Answers
      PROVE  Told
  <2> USE <1>1
  <2>1. reply' # None /\ reply' # reply
    BY DEF Answers, None
  <2>2. CASE Refuse
    <3>1. /\ Known(pipe) /\ reply' = Recorded(pipe)
          /\ Connected /\ client.sent # NoFrame /\ pipe # NoFrame
          /\ UNCHANGED <<dedup, acts>>
      BY <2>2, SessionFacts DEF Refuse, Finish, Answers, None, DInv, WireFits, Connected, tables
    <3>2. pipe = client.sent /\ pipe.id \in Identities
      BY <3>1, SessionFacts, FrameFacts DEF DInv, WireFits
    <3>3. /\ dedup[pipe.id].hash = pipe /\ dedup[pipe.id].state = "terminal"
          /\ reply' = dedup[pipe.id].answer
      BY <3>1 DEF Recorded, Answers
    <3>4. acts'[pipe.id] = <<[frame |-> pipe, answer |-> reply']>>
      BY <3>1, <3>2, <3>3 DEF DInv, Tables, RowsFit, RowFits
    <3> QED
      BY <3>2, <3>4
  <2>3. CASE RecordTerminal
    <3>1. /\ service.at = "dispatched" /\ service.at \in Busy
          /\ reply' = service.answer /\ client.session = service.session
          /\ client.sent # NoFrame /\ acts' = acts
      BY <2>3 DEF RecordTerminal, Finish, Answers, None, Busy
    <3>2. client.sent = service.frame
      BY <3>1 DEF DInv, WireFits, Connected
    <3>3. acts'[client.sent.id] = <<[frame |-> client.sent, answer |-> reply']>>
      BY <3>1, <3>2 DEF DInv, ServiceFits
    <3> QED
      BY <3>3
  <2>4. ~MarkUnknown /\ ~Dispatch
    BY <2>1 DEF MarkUnknown, Dispatch, Finish, Answers, None
  <2>5. /\ ~Start /\ ~EndSession /\ ~StopService /\ ~Receive /\ ~Disconnect /\ ~Reserve
        /\ ~Prune /\ ~UNCHANGED vars
        /\ \A p \in Principals : ~Connect(p)
        /\ \A id \in Identities : ~ReferenceForRecovery(id)
        /\ \A id \in Identities, time \in Times : ~Send(id, time)
    BY <2>1 DEF Start, EndSession, StopService, Receive, Disconnect, Reserve, Prune, Connect,
       ReferenceForRecovery, Send, vars
  <2> QED
    BY <2>2, <2>3, <2>4, <2>5 DEF Next
<1>2. DInv /\ [Next]_vars => [reply = None /\ reply' \in Answers => Told]_vars
  BY <1>1
<1> QED
  BY <1>2, Invariance, PTL DEF Spec, AnswersAreGenuine

-----------------------------------------------------------------------------
(***************************************************************************)
(* Every identity follows RequestLedger.                                   *)
(***************************************************************************)
LEMMA LedgerKept ==
    ASSUME NEW id \in Identities, dedup'[id].state = dedup[id].state,
           dedup'[id].answer = dedup[id].answer, acts'[id] = acts[id]
    PROVE  UNCHANGED Ledger(id)!vars
  BY DEF Ledger!vars

\* Every step is a step of the ledger of each identity, or leaves it as it was.
LEMMA LedgerStep ==
    ASSUME DInv, [Next]_vars, NEW id \in Identities
    PROVE  UNCHANGED Ledger(id)!vars \/ Ledger(id)!Next
<1> USE DEF DInv
<1>0. PICK busy : busy = service.frame.id
  OBVIOUS
<1>1. CASE UNCHANGED <<dedup, acts>>
  BY <1>1, LedgerKept
<1>2. CASE Reserve
  <2>1. pipe.id \in Identities /\ dedup[pipe.id] = Absent /\ acts' = acts
    BY <1>2, SessionFacts, FrameFacts, RowFacts DEF Reserve, Known
  <2>2. CASE id = pipe.id
    <3>1. dedup'[id] = [Absent EXCEPT !.hash = pipe, !.state = "reserved"]
      BY <1>2, <2>2 DEF Reserve, TypeOK
    <3>2. /\ dedup[id].state = "absent" /\ dedup'[id].state = "reserved"
          /\ dedup'[id].answer = dedup[id].answer
      BY <2>1, <2>2, <3>1 DEF Absent
    <3> QED
      BY <2>1, <3>2 DEF Ledger!Next, Ledger!Reserve
  <2>3. CASE id # pipe.id
    BY <1>2, <2>1, <2>3, LedgerKept DEF Reserve, TypeOK
  <2> QED
    BY <2>2, <2>3
<1>3. CASE MarkUnknown /\ dedup' # dedup
  <2>1. /\ service.at = "reserved" /\ service.at \in Busy
        /\ dedup' = [dedup EXCEPT ![busy].state = "unknown-after-crash"] /\ acts' = acts
    BY <1>0, <1>3 DEF MarkUnknown, Busy
  <2>2. busy \in Identities /\ dedup[busy].state = "reserved" /\ dedup[busy] \in Row
    BY <1>0, <2>1, BusyFacts DEF ServiceFits
  <2>3. CASE id = busy
    <3>1. /\ dedup'[id].state = "unknown-after-crash"
          /\ dedup'[id].answer = dedup[id].answer
      BY <2>1, <2>2, <2>3 DEF TypeOK, Row
    <3> QED
      BY <2>1, <2>2, <2>3, <3>1 DEF Ledger!Next, Ledger!Doubt
  <2>4. CASE id # busy
    BY <2>1, <2>4, LedgerKept DEF TypeOK
  <2> QED
    BY <2>3, <2>4
<1>4. CASE Dispatch
  <2>1. /\ busy \in Identities /\ dedup[busy].state = "unknown-after-crash"
        /\ acts[busy] = <<>> /\ dedup' = dedup
        /\ \E r : acts' = [acts EXCEPT ![busy] = <<r>>]
    BY <1>0, <1>4, DispatchFacts DEF tables
  <2>2. CASE id = busy
    <3>1. Len(acts[id]) = 0 /\ Len(acts'[id]) = 1
      BY <2>1, <2>2 DEF TypeOK
    <3> QED
      BY <2>1, <2>2, <3>1 DEF Ledger!Next, Ledger!CallOperation
  <2>3. CASE id # busy
    BY <2>1, <2>3, LedgerKept DEF TypeOK
  <2> QED
    BY <2>2, <2>3
<1>5. CASE RecordTerminal /\ dedup' # dedup
  <2>1. /\ service.at = "dispatched" /\ service.at \in Busy
        /\ dedup' = [dedup EXCEPT ![busy].state = "terminal",
                                  ![busy].answer = service.answer]
        /\ acts' = acts
    BY <1>0, <1>5 DEF RecordTerminal, Busy
  <2>2. /\ busy \in Identities /\ dedup[busy].state = "unknown-after-crash"
        /\ dedup[busy] \in Row /\ service.answer \in Answers
        /\ acts[busy] = <<[frame |-> service.frame, answer |-> service.answer]>>
    BY <1>0, <2>1, BusyFacts DEF ServiceFits
  <2>3. CASE id = busy
    <3>1. dedup'[id] = [dedup[id] EXCEPT !.state = "terminal", !.answer = service.answer]
      BY <2>1, <2>2, <2>3 DEF TypeOK
    <3>2. dedup'[id].state = "terminal" /\ dedup'[id].answer \in Answers
      BY <2>2, <2>3, <3>1 DEF Row
    <3>3. Len(acts[id]) = 1
      BY <2>2, <2>3
    <3> QED
      BY <2>1, <2>2, <2>3, <3>2, <3>3 DEF Ledger!Next, Ledger!Settle
  <2>4. CASE id # busy
    BY <2>1, <2>4, LedgerKept DEF TypeOK
  <2> QED
    BY <2>3, <2>4
<1>6. CASE \E other \in Identities : ReferenceForRecovery(other)
  <2>1. PICK other \in Identities :
          dedup' = [dedup EXCEPT ![other].referenced = TRUE] /\ acts' = acts
    BY <1>6 DEF ReferenceForRecovery
  <2>2. dedup'[id].state = dedup[id].state /\ dedup'[id].answer = dedup[id].answer
    BY <2>1, RowFacts DEF TypeOK, Row, Absent
  <2> QED
    BY <2>1, <2>2, LedgerKept
<1>7. CASE Prune
  <2>1. PICK ids \in SUBSET Prunable :
          /\ dedup'[id] = IF id \in ids THEN Absent ELSE dedup[id]
          /\ acts'[id] = IF id \in ids THEN <<>> ELSE acts[id]
    BY <1>7 DEF Prune
  <2>2. CASE id \in ids
    <3>1. /\ dedup[id].state = "terminal" /\ dedup'[id] = Absent /\ Len(acts'[id]) = 0
      BY <2>1, <2>2, EmptySeq DEF Prunable
    <3> QED
      BY <3>1 DEF Ledger!Next, Ledger!Forget, Absent, None
  <2>3. CASE id \notin ids
    BY <2>1, <2>3, LedgerKept
  <2> QED
    BY <2>2, <2>3
<1>8. /\ Start \/ EndSession \/ StopService \/ Receive \/ Disconnect \/ Refuse
            \/ (\E p \in Principals : Connect(p))
            \/ (\E other \in Identities, time \in Times : Send(other, time))
            \/ UNCHANGED vars
         => UNCHANGED <<dedup, acts>>
      /\ MarkUnknown \/ RecordTerminal => acts' = acts
  BY DEF Start, EndSession, StopService, Receive, Disconnect, Refuse, Connect, Send,
     MarkUnknown, RecordTerminal, vars, tables
<1> QED
  BY <1>1, <1>2, <1>3, <1>4, <1>5, <1>6, <1>7, <1>8 DEF Next

\* Whatever stops and however often a request comes back, each identity is reserved, put
\* in doubt, called at most once and settled, in this order, until it is forgotten.
THEOREM ImplementsRequestLedger == Spec => FollowsLedger
<1>1. Init => \A id \in Identities : Ledger(id)!Init
  BY DEF Init, Ledger!Init, Absent, None
<1>2. DInv /\ [Next]_vars
        => [\A id \in Identities : UNCHANGED Ledger(id)!vars \/ Ledger(id)!Next]_vars
  BY LedgerStep
<1> QED
  BY <1>1, <1>2, Invariance, PTL DEF Spec, FollowsLedger
=============================================================================
