------------------------------ MODULE BrokerDedup ------------------------------
(***************************************************************************)
(* The protocol between the desktop's AuthenticatedBrokerClient            *)
(* (plan_executor.rs) and the optimizer service (ipc.rs, dedup_store.rs,   *)
(* windows_pipe.rs): authenticated sessions over one named pipe, a counter *)
(* and a nonce in every request, and a table that remembers each request   *)
(* identity across restarts of the service.                                *)
(*                                                                         *)
(* The service is one thread.  For a new request it commits a reservation, *)
(* marks it uncertain, calls the operation and records the answer; it may  *)
(* stop between any two of these.  The client sends one request at a time, *)
(* gives up after a deadline and connects again later.                     *)
(*                                                                         *)
(* The hash of a request covers its identity, its nonce, its counter and   *)
(* the time it was issued at, and the nonce is the session's nonce with    *)
(* the counter: the hash is modelled by the frame, the record of these.    *)
(***************************************************************************)
EXTENDS Integers, Sequences, FiniteSets

CONSTANTS Identities,    \* pairs of transaction and step that requests name
          Observations,  \* the identities of observation requests
          Times,         \* the times a request may have been issued at
          Principals,    \* logon session and program image of a client
          CounterLimit,  \* the largest counter, 2^32 - 1 in the code
          MaxSessions    \* bound: sessions authenticated

ASSUME BrokerAssumption ==
    /\ Observations \subseteq Identities
    /\ CounterLimit \in Nat \ {0}
    /\ MaxSessions \in Nat

VARIABLES dedup,     \* the table broker_dedup, by identity
          counters,  \* broker_replay_counters, 0 for a principal without a row
          nonces,    \* broker_replay_nonces
          sessions,  \* the principal of every session so far, in order
          service,   \* the one thread of the service
          client,    \* AuthenticatedBrokerClient
          pipe,      \* the request on its way to the service
          reply,     \* the document on its way to the client
          acts,      \* history: calls of the operation since the identity was reserved
          called     \* history: the counters of every request whose operation was ever called

tables == <<dedup, counters, nonces>>
vars == <<dedup, counters, nonces, sessions, service, client, pipe, reply, acts,
          called>>

Answers == {"accepted", "rejected"}
Refusals == {"conflict", "replay", "error"}
None == "none"

NoSession == 0
Session == 1 .. MaxSessions
Counter == 1 .. CounterLimit

Frame == [id : Identities, session : Session, counter : Counter, issued : Times]
NoFrame == [id |-> None, session |-> NoSession, counter |-> 0, issued |-> None]

Row == [hash : Frame, state : {"reserved", "unknown-after-crash", "terminal"},
        answer : Answers \cup {None}, referenced : BOOLEAN]
Absent == [hash |-> NoFrame, state |-> "absent", answer |-> None, referenced |-> FALSE]

Service == [at : {"stopped", "idle", "reserved", "marked", "dispatched"},
            session : Session \cup {NoSession}, frame : Frame \cup {NoFrame},
            answer : Answers \cup {None}]
Stopped == [at |-> "stopped", session |-> NoSession, frame |-> NoFrame, answer |-> None]

Client == [session : Session \cup {NoSession}, counter : Counter \cup {0},
           sent : Frame \cup {NoFrame}, failed : BOOLEAN]
Disconnected == [session |-> NoSession, counter |-> 0, sent |-> NoFrame, failed |-> FALSE]

Init ==
    /\ dedup = [id \in Identities |-> Absent]
    /\ counters = [p \in Principals |-> 0]
    /\ nonces = {}
    /\ sessions = <<>>
    /\ service = Stopped
    /\ client = Disconnected
    /\ pipe = NoFrame
    /\ reply = None
    /\ acts = [id \in Identities |-> <<>>]
    /\ called = {}

-----------------------------------------------------------------------------
(***************************************************************************)
(* Sessions                                                                *)
(***************************************************************************)
\* DedupStore::next_counter fails at the limit, and with it the authentication.
\* Mutants: the counter is not checked; the highest counter itself is handed out.
NextCounterUnchecked(p, counter) == counter = counters[p] + 1
NextCounterHighest(p, counter) ==
    /\ counters[p] < CounterLimit
    /\ counter = IF counters[p] = 0 THEN 1 ELSE counters[p]

NextCounter(p, counter) == counters[p] < CounterLimit /\ counter = counters[p] + 1

Start ==
    /\ service.at = "stopped"
    /\ service' = [Stopped EXCEPT !.at = "idle"]
    /\ UNCHANGED <<tables, sessions, client, pipe, reply, acts, called>>

\* A handshake of a client that has no session; the accepting frame may be lost.
Connect(p) ==
    /\ service.at = "idle" /\ service.session = NoSession
    /\ client.session = NoSession
    /\ Len(sessions) < MaxSessions
    /\ sessions' = Append(sessions, p)
    /\ service' = [service EXCEPT !.session = Len(sessions) + 1]
    /\ \E counter \in 1 .. CounterLimit + 1 :
          /\ NextCounter(p, counter)
          /\ \/ client' = [Disconnected EXCEPT !.session = Len(sessions) + 1,
                                               !.counter = counter]
             \/ UNCHANGED client
    /\ UNCHANGED <<tables, pipe, reply, acts, called>>

\* The service ends an idle session: the read timed out or the pipe broke.
EndSession ==
    /\ service.at = "idle" /\ service.session # NoSession
    /\ service' = [service EXCEPT !.session = NoSession]
    /\ pipe' = NoFrame
    /\ reply' = None
    /\ UNCHANGED <<tables, sessions, client, acts, called>>

\* The service stops, on request between two requests or by a crash anywhere.
StopService ==
    /\ service.at # "stopped"
    /\ service' = Stopped
    /\ pipe' = NoFrame
    /\ reply' = None
    /\ UNCHANGED <<tables, sessions, client, acts, called>>

-----------------------------------------------------------------------------
(***************************************************************************)
(* The client                                                              *)
(***************************************************************************)
\* exchange_validated: one request at a time; an engine that reads again repeats the
\* issue time, another call has its own.
Send(id, time) ==
    /\ client.session # NoSession /\ client.sent = NoFrame
    /\ service.session = client.session
    /\ pipe' = [id |-> id, session |-> client.session, counter |-> client.counter,
                issued |-> time]
    /\ client' = [client EXCEPT !.sent = pipe']
    /\ UNCHANGED <<tables, sessions, service, reply, acts, called>>

\* The counter moves with a valid response only; one that says error leaves the session
\* open and the counter where it was.
Receive ==
    /\ client.sent # NoFrame /\ reply # None
    /\ reply' = None
    /\ \/ /\ reply \notin Refusals /\ client.counter < CounterLimit
          /\ client' = [client EXCEPT !.sent = NoFrame, !.counter = @ + 1]
       \/ /\ reply \in Refusals \/ client.counter = CounterLimit
          /\ client' = [client EXCEPT !.sent = NoFrame, !.failed = TRUE]
    /\ UNCHANGED <<tables, sessions, service, pipe, acts, called>>

\* The deadline passes, the pipe is broken, or the desktop process ends.
Disconnect ==
    /\ client.session # NoSession
    /\ client' = Disconnected
    /\ reply' = None
    /\ UNCHANGED <<tables, sessions, service, pipe, acts, called>>

-----------------------------------------------------------------------------
(***************************************************************************)
(* The service: submit, one durable step at a time                         *)
(***************************************************************************)
\* The service turns to the next request; the reply reaches a client that still waits.
Finish(document) ==
    /\ service' = [service EXCEPT !.at = "idle", !.frame = NoFrame, !.answer = None]
    /\ reply' = IF client.session = service.session /\ client.sent # NoFrame
                THEN document ELSE None

\* Mutant: an uncertain identity may be tried again.
KnownUnlessUncertain(f) == dedup[f.id].state \notin {"absent", "unknown-after-crash"}

Known(f) == dedup[f.id].state # "absent"

\* What reserve makes of an identity it knows.
\* Mutant: the hash is not compared.
RecordedOfAnyFrame(f) ==
    IF dedup[f.id].state = "terminal" THEN dedup[f.id].answer ELSE "observation-required"

Recorded(f) ==
    IF dedup[f.id].hash # f THEN "conflict"
    ELSE IF dedup[f.id].state = "terminal" THEN dedup[f.id].answer
    ELSE "observation-required"

Nonce(f) == [principal |-> sessions[f.session], session |-> f.session, counter |-> f.counter]

\* Mutant: neither the counter nor the nonce is looked at.
ReplayedNever(f) == FALSE

Replayed(f) == f.counter <= counters[sessions[f.session]] \/ Nonce(f) \in nonces

\* An identity it knows, a replay, or a database that fails: nothing is written.
Refuse ==
    /\ service.at = "idle" /\ pipe # NoFrame
    /\ pipe' = NoFrame
    /\ \/ Known(pipe) /\ Finish(Recorded(pipe))
       \/ ~Known(pipe) /\ Replayed(pipe) /\ Finish("replay")
       \/ Finish("error")
    /\ UNCHANGED <<tables, sessions, client, acts, called>>

\* Row, counter and nonce are one transaction.
Reserve ==
    /\ service.at = "idle" /\ pipe # NoFrame
    /\ ~Known(pipe) /\ ~Replayed(pipe)
    /\ dedup' = [dedup EXCEPT ![pipe.id] = [Absent EXCEPT !.hash = pipe, !.state = "reserved"]]
    /\ counters' = [counters EXCEPT ![sessions[pipe.session]] = pipe.counter]
    /\ nonces' = nonces \cup {Nonce(pipe)}
    /\ service' = [service EXCEPT !.at = "reserved", !.frame = pipe]
    /\ pipe' = NoFrame
    /\ UNCHANGED <<sessions, client, reply, acts, called>>

MarkUnknown ==
    /\ service.at = "reserved"
    /\ \/ /\ dedup' = [dedup EXCEPT ![service.frame.id].state = "unknown-after-crash"]
          /\ service' = [service EXCEPT !.at = "marked"]
          /\ UNCHANGED reply
       \/ /\ Finish("error")
          /\ UNCHANGED dedup
    /\ UNCHANGED <<counters, nonces, sessions, client, pipe, acts, called>>

Counted(f) == [principal |-> sessions[f.session], counter |-> f.counter]

\* The operation answers, or fails: it may then have acted all the same.
Dispatch ==
    /\ service.at = "marked"
    /\ \E answer \in Answers \cup {"error"} :
          /\ acts' = [acts EXCEPT ![service.frame.id] =
                          Append(@, [frame |-> service.frame, answer |-> answer])]
          /\ called' = called \cup {Counted(service.frame)}
          /\ IF answer = "error" THEN Finish("error")
             ELSE /\ service' = [service EXCEPT !.at = "dispatched", !.answer = answer]
                  /\ UNCHANGED reply
    /\ UNCHANGED <<tables, sessions, client, pipe>>

RecordTerminal ==
    /\ service.at = "dispatched"
    /\ \/ /\ dedup' = [dedup EXCEPT ![service.frame.id].state = "terminal",
                                     ![service.frame.id].answer = service.answer]
          /\ Finish(service.answer)
       \/ /\ Finish("error")
          /\ UNCHANGED dedup
    /\ UNCHANGED <<counters, nonces, sessions, client, pipe, acts, called>>

-----------------------------------------------------------------------------
(***************************************************************************)
(* Retention, between two requests                                         *)
(***************************************************************************)
ReferenceForRecovery(id) ==
    /\ service.at = "idle"
    /\ dedup[id].state # "absent" /\ ~dedup[id].referenced
    /\ dedup' = [dedup EXCEPT ![id].referenced = TRUE]
    /\ UNCHANGED <<counters, nonces, sessions, service, client, pipe, reply, acts, called>>

\* The settled rows of the retention time, whichever these are; the counters and the
\* nonces stay.
Prunable == {id \in Identities : dedup[id].state = "terminal" /\ ~dedup[id].referenced}

\* Mutant: the counters are pruned with the rows.
PruneCounters ==
    /\ service.at = "idle"
    /\ \E ids \in SUBSET Prunable \ {{}} :
          /\ dedup' = [id \in Identities |-> IF id \in ids THEN Absent ELSE dedup[id]]
          /\ acts' = [id \in Identities |-> IF id \in ids THEN <<>> ELSE acts[id]]
    /\ counters' = [p \in Principals |-> 0]
    /\ UNCHANGED <<nonces, sessions, service, client, pipe, reply, called>>

Prune ==
    /\ service.at = "idle"
    /\ \E ids \in SUBSET Prunable \ {{}} :
          /\ dedup' = [id \in Identities |-> IF id \in ids THEN Absent ELSE dedup[id]]
          /\ acts' = [id \in Identities |-> IF id \in ids THEN <<>> ELSE acts[id]]
    /\ UNCHANGED <<counters, nonces, sessions, service, client, pipe, reply, called>>

Next ==
    \/ Start \/ StopService \/ EndSession
    \/ \E p \in Principals : Connect(p)
    \/ \E id \in Identities, time \in Times : Send(id, time)
    \/ \E id \in Identities : ReferenceForRecovery(id)
    \/ Receive \/ Disconnect
    \/ Refuse \/ Reserve \/ MarkUnknown \/ Dispatch \/ RecordTerminal
    \/ Prune

Spec == Init /\ [][Next]_vars
-----------------------------------------------------------------------------
(***************************************************************************)
(* Properties                                                              *)
(***************************************************************************)
\* Every variable stays in its type; in particular no client ever holds a counter that
\* does not fit its 32 bits (checked_add in next_counter and exchange_validated).
TypeOK ==
    /\ dedup \in [Identities -> Row \cup {Absent}]
    /\ counters \in [Principals -> Counter \cup {0}]
    /\ nonces \subseteq [principal : Principals, session : Session, counter : Counter]
    /\ sessions \in Seq(Principals) /\ Len(sessions) <= MaxSessions
    /\ service \in Service
    /\ client \in Client
    /\ pipe \in Frame \cup {NoFrame}
    /\ reply \in Answers \cup Refusals \cup {"observation-required", None}
    /\ acts \in [Identities -> Seq([frame : Frame, answer : Answers \cup {"error"}])]
    /\ called \subseteq [principal : Principals, counter : Counter]

\* Whatever stops between two steps of a request, and however often the request comes
\* back in whichever session, its operation is called at most once, behind a durable
\* mark that says so, and a recorded answer is not replaced (reserve,
\* mark_unknown_after_dispatch, record_terminal, prune_terminal_before).
Ledger(id) == INSTANCE RequestLedger WITH
    phase <- dedup[id].state, calls <- Len(acts[id]), answer <- dedup[id].answer
FollowsLedger ==
    /\ \A id \in Identities : Ledger(id)!Init
    /\ [][\A id \in Identities : UNCHANGED Ledger(id)!vars \/ Ledger(id)!Next]_vars

\* An answer that reaches the client is the one the operation gave to that very request,
\* never the answer to an earlier request of the same identity, also when it is told a
\* second time from the table (reserve compares the request's hash).
AnswersAreGenuine ==
    [][reply = None /\ reply' \in Answers =>
          [frame |-> client.sent, answer |-> reply'] \in
              {acts'[client.sent.id][i] : i \in DOMAIN acts'[client.sent.id]}]_vars

\* A counter of a principal admits one call of an operation, across its sessions, reconnections
\* and restarts of the service, and also when the request it belonged to was pruned meanwhile
\* (reserve, next_counter, prune_terminal_before).
CounterAdmitsOneRequest ==
    [][\A id \in Identities : Len(acts'[id]) > Len(acts[id]) =>
          Counted(service.frame) \notin called]_vars

\* The counters of client and service stay in step: a client whose exchanges all got a
\* valid response since it connected is never refused as a replay (next_counter in the
\* handshake, exchange_validated).
ReplayOnlyAfterFailure == reply = "replay" => client.failed

(***************************************************************************)
(* A claim of the repository that the code does not keep                   *)
(***************************************************************************)
\* "truth is established from Windows observation" (reconcile_startup): an observation
\* of a client that is in step is not refused as a conflicting duplicate.
ObservationsAreServed ==
    reply = "conflict" => client.failed \/ client.sent.id \notin Observations
=============================================================================
