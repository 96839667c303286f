------------------------ MODULE AdvancedPreferenceProofs ------------------------
(***************************************************************************)
(* Proofs about AdvancedPreference for any number of stores, postures and  *)
(* receipts, and every choice of Faults.                                   *)
(*                                                                         *)
(* The strengthening AInv ties each store to the journal between any two   *)
(* steps: the projection is the state after a protected prefix of the      *)
(* journal (StoreFits), so is every snapshot the renderer may act on       *)
(* (AnswersFit), a command that is about to append holds a consumed        *)
(* receipt of its own and an event its projection allows (CallFits,        *)
(* PendingApart), and the protected head is at most one event behind.      *)
(***************************************************************************)
EXTENDS AdvancedPreference, SequenceTheorems, TLAPS

Appending == {"append", "commit", "anchor"}

\* The store holds a consumed receipt whose event is not in the journal yet.
Holds(s) == pc[s] \in {"append", "commit"} /\ call[s].kind # "invalidated"

StoreFits(s) ==
    pc[s] # "closed" => /\ store[s].count <= protected
                        /\ store[s].state = StateAt(events, store[s].count)

Seen(a) == a.sequence <= Len(events) /\ a.state = StateAt(events, a.sequence)
AnswersFit(s) == \A a \in answers[s] : Seen(a)

CallFits(s) ==
    /\ call[s].op \in Transitions => Seen(call[s].on) /\ call[s].proof \in Receipts
    /\ pc[s] \in Appending \cup {"authorize"} => call[s].op # "none"
    /\ pc[s] = "authorize" => call[s].op \in Transitions /\ call[s].kind = "invalidated"
    /\ pc[s] \in Appending =>
          (call[s].kind = "enabled") <=> (store[s].state # "enabled")
    /\ pc[s] \in Appending /\ call[s].kind # "invalidated" =>
          /\ call[s].op = IF call[s].kind = "enabled" THEN "enable" ELSE "revoke"
          /\ call[s].on.sequence = store[s].count
    /\ Holds(s) =>
          /\ call[s].proof \in used
          /\ call[s].proof \notin Proofs(events)
          /\ grant[call[s].proof] = [action |-> call[s].op, posture |-> store[s].current]
    /\ pc[s] \in {"commit", "anchor"} => call[s].head = store[s].count
    /\ pc[s] = "anchor" => /\ call[s].head < Len(events)
                           /\ events[call[s].head + 1].kind = call[s].kind

Fits(s) == StoreFits(s) /\ AnswersFit(s) /\ CallFits(s)

PendingApart ==
    \A s, t \in Stores :
        Holds(s) /\ Holds(t) /\ call[s].proof = call[t].proof => s = t

AInv ==
    /\ TypeOK
    /\ \A s \in Stores : Fits(s)
    /\ PendingApart
    /\ LagIsRepairable
    /\ JournalReplays
    /\ TransitionsAreGranted
-----------------------------------------------------------------------------
(***************************************************************************)
(* The journal.                                                            *)
(***************************************************************************)
\* An event does not change what came before it, and decides the state after it.
LEMMA AppendFacts ==
    ASSUME NEW evs \in Seq(Event), NEW e \in Event
    PROVE  /\ Append(evs, e) \in Seq(Event)
           /\ Len(evs) \in Nat
           /\ Len(Append(evs, e)) = Len(evs) + 1
           /\ \A i \in 1 .. Len(evs) : Append(evs, e)[i] = evs[i]
           /\ Append(evs, e)[Len(evs) + 1] = e
           /\ \A n \in 0 .. Len(evs) : StateAt(Append(evs, e), n) = StateAt(evs, n)
           /\ StateAt(Append(evs, e), Len(evs) + 1) = StateAfter(e.kind)
<1>1. /\ Append(evs, e) \in Seq(Event)
      /\ Len(evs) \in Nat
      /\ Len(Append(evs, e)) = Len(evs) + 1
      /\ \A i \in 1 .. Len(evs) : Append(evs, e)[i] = evs[i]
      /\ Append(evs, e)[Len(evs) + 1] = e
  BY AppendProperties, LenProperties
<1> QED
  BY <1>1 DEF StateAt

\* A journal is a list of events, and every prefix of it has one of the four states.
LEMMA EventFacts ==
    ASSUME NEW evs \in Seq(Event)
    PROVE  /\ Len(evs) \in Nat /\ DOMAIN evs = 1 .. Len(evs)
           /\ \A i \in 1 .. Len(evs) : evs[i] \in Event
           /\ \A n \in 0 .. Len(evs) : StateAt(evs, n) \in States
<1>1. /\ Len(evs) \in Nat /\ DOMAIN evs = 1 .. Len(evs)
      /\ \A i \in 1 .. Len(evs) : evs[i] \in Event
  BY ElementOfSeq, LenProperties
<1> QED
  BY <1>1 DEF StateAt, StateAfter, States, Event

\* An event its predecessors allow, backed by a receipt of its own, keeps the journal
\* one that open can replay.
LEMMA LoadableKept ==
    ASSUME NEW evs \in Seq(Event), NEW e \in Event, Loadable(evs),
           (e.kind = "enabled") <=> (StateOf(evs) # "enabled"),
           e.proof = NoReceipt \/ e.proof \notin Proofs(evs)
    PROVE  Loadable(Append(evs, e))
<1> DEFINE new == Append(evs, e)
<1>1. /\ Len(evs) \in Nat /\ Len(new) = Len(evs) + 1 /\ DOMAIN new = 1 .. Len(evs) + 1
      /\ DOMAIN evs = 1 .. Len(evs)
      /\ \A i \in 1 .. Len(evs) : new[i] = evs[i]
      /\ new[Len(evs) + 1] = e
      /\ \A n \in 0 .. Len(evs) : StateAt(new, n) = StateAt(evs, n)
  BY AppendFacts, EventFacts
<1>2. \A i \in DOMAIN new : (new[i].kind = "enabled") <=> (StateAt(new, i - 1) # "enabled")
  <2>1. SUFFICES ASSUME NEW i \in 1 .. Len(evs) + 1
                 PROVE  (new[i].kind = "enabled") <=> (StateAt(new, i - 1) # "enabled")
    BY <1>1
  <2>2. CASE i = Len(evs) + 1
    <3>1. StateAt(new, i - 1) = StateOf(evs) /\ new[i] = e
      BY <1>1, <2>2 DEF StateOf
    <3> QED
      BY <3>1
  <2>3. CASE i \in 1 .. Len(evs)
    <3>1. new[i] = evs[i] /\ StateAt(new, i - 1) = StateAt(evs, i - 1)
      BY <1>1, <2>3
    <3> QED
      BY <3>1, <1>1, <2>3 DEF Loadable
  <2> QED
    BY <2>1, <2>2, <2>3, <1>1
<1>3. \A i, j \in DOMAIN new :
          new[i].proof = new[j].proof /\ new[i].proof # NoReceipt => i = j
  <2>1. \A i \in 1 .. Len(evs) : evs[i].proof \in Proofs(evs)
    BY <1>1 DEF Proofs
  <2>2. \A i, j \in 1 .. Len(evs) :
            evs[i].proof = evs[j].proof /\ evs[i].proof # NoReceipt => i = j
    BY <1>1 DEF Loadable
  <2> QED
    BY <2>1, <2>2, <1>1
<1> QED
  BY <1>2, <1>3 DEF Loadable
-----------------------------------------------------------------------------
(***************************************************************************)
(* Types.                                                                  *)
(***************************************************************************)
\* The commands the model builds are commands.
LEMMA Constants ==
    /\ NoAnswer \in Answer
    /\ NoCall \in Call /\ Starting \in Call
    /\ \A on \in Answer, r \in Receipts, op \in {"read"} \cup Transitions :
          NewCall(op, on, r) \in Call
    /\ NewCall("read", NoAnswer, NoReceipt) \in Call
  BY DEF NoAnswer, Answer, States, NoCall, Starting, NewCall, Call, Transitions

\* The fields of a store and of its command have their types.
LEMMA StoreFacts ==
    ASSUME TypeOK, NEW s \in Stores
    PROVE  /\ store[s] \in Store /\ call[s] \in Call /\ pc[s] \in Stages
           /\ store[s].state \in States /\ store[s].count \in Nat
           /\ store[s].bound \in Postures /\ store[s].current \in Postures
           /\ call[s].on \in Answer /\ call[s].on.sequence \in Nat
           /\ call[s].head \in Nat
           /\ call[s].kind \in {"enabled", "revoked", "invalidated"}
           /\ call[s].op \in {"none", "open", "read"} \cup Transitions
           /\ call[s].proof \in Receipts \cup {NoReceipt}
  BY DEF TypeOK, Store, Call, Answer

\* What open makes of a journal is a projection.
LEMMA ProjectedType ==
    ASSUME NEW evs \in Seq(Event), NEW seen \in Postures
    PROVE  Projected(evs, seen) \in Store
<1>1. /\ Len(evs) \in Nat /\ StateAt(evs, Len(evs)) \in States
      /\ Len(evs) # 0 => evs[Len(evs)] \in Event
  BY EventFacts
<1>2. StateOf(evs) = "enabled" => Len(evs) # 0
  BY DEF StateOf, StateAt
<1>3. StateOf(evs) = "enabled" => evs[Len(evs)].posture \in Postures
  BY <1>1, <1>2 DEF Event
<1> QED
  BY <1>1, <1>3 DEF Projected, Store, StateOf

\* A verifier never takes the head back, and leaves it at most one row behind.
LEMMA RepairedFacts ==
    ASSUME TypeOK, LagIsRepairable
    PROVE  Repaired \in Nat /\ protected <= Repaired /\ Len(events) - Repaired \in {0, 1}
BY EventFacts DEF TypeOK, LagIsRepairable, Repaired, Verified

\* A command that fails leaves every variable in its type.
LEMMA FailType ==
    ASSUME TypeOK, NEW s \in Stores, Fail(s)
    PROVE  /\ pc' \in [Stores -> Stages] /\ call' \in [Stores -> Call]
           /\ store' \in [Stores -> Store] /\ acked' \subseteq Receipts
           /\ answers' \in [Stores -> SUBSET Answer]
  BY Constants DEF Fail, TypeOK, Stages

\* The projection that append_event moves to is one.
LEMMA MovedType ==
    ASSUME TypeOK, NEW s \in Stores
    PROVE  Moved(s) \in Store
<1>1. StateAfter(call[s].kind) \in States
  BY StoreFacts DEF StateAfter, States
<1>2. call[s].head + 1 \in Nat /\ store[s].current \in Postures
  BY StoreFacts
<1> QED
  BY <1>1, <1>2 DEF Moved, Store

\* What append_event inserts is an event.
LEMMA PendingType ==
    ASSUME TypeOK, NEW s \in Stores
    PROVE  Pending(s) \in Event
  BY StoreFacts DEF Pending, Event
-----------------------------------------------------------------------------
(***************************************************************************)
(* What a step leaves alone.                                               *)
(***************************************************************************)
Unmoved(t) == UNCHANGED <<pc[t], store[t], call[t], answers[t]>>

\* The journal grew, and what it said before it says still.
Grown ==
    /\ Len(events') \in Nat /\ Len(events) <= Len(events')
    /\ \A n \in 0 .. Len(events) : StateAt(events', n) = StateAt(events, n)
    /\ \A n \in 1 .. Len(events) : events'[n] = events[n]

\* A store that does not move keeps fitting a journal that only grows.
LEMMA FitsKept ==
    ASSUME TypeOK, LagIsRepairable, NEW t \in Stores, Fits(t), Unmoved(t),
           grant' = grant, used \subseteq used', protected' \in Nat, protected <= protected',
           \/ events' = events
           \/ \E e \in Event : /\ events' = Append(events, e)
                               /\ Holds(t) => e.proof # call[t].proof
    PROVE  Fits(t)'
<1>1. Len(events) \in Nat /\ protected \in Nat /\ protected <= Len(events)
  BY EventFacts DEF TypeOK, LagIsRepairable
<1>2. Grown /\ (Holds(t) => call[t].proof \notin Proofs(events'))
  <2>1. CASE events' = events
    BY <2>1, EventFacts DEF TypeOK, Fits, CallFits, Grown
  <2>2. ASSUME NEW e \in Event, events' = Append(events, e),
               Holds(t) => e.proof # call[t].proof
        PROVE  Grown /\ (Holds(t) => call[t].proof \notin Proofs(events'))
    <3>1. events \in Seq(Event)
      BY DEF TypeOK
    <3>2. /\ Len(events) \in Nat /\ Len(events') = Len(events) + 1
          /\ DOMAIN events' = 1 .. Len(events')
          /\ DOMAIN events = 1 .. Len(events)
          /\ \A n \in 0 .. Len(events) : StateAt(events', n) = StateAt(events, n)
          /\ \A n \in 1 .. Len(events) : events'[n] = events[n]
          /\ events'[Len(events) + 1] = e
      BY <2>2, <3>1, AppendFacts, EventFacts
    <3>3. Holds(t) => call[t].proof \notin Proofs(events)
      BY DEF Fits, CallFits
    <3>4. \A i \in 1 .. Len(events) + 1 : events'[i] = IF i = Len(events) + 1 THEN e ELSE events[i]
      BY <3>2
    <3>5. Holds(t) => call[t].proof \notin Proofs(events')
      <4>1. SUFFICES ASSUME Holds(t), NEW i \in 1 .. Len(events) + 1,
                            events'[i].proof = call[t].proof
                     PROVE  FALSE
        BY <3>2 DEF Proofs
      <4>2. CASE i = Len(events) + 1
        BY <4>1, <4>2, <3>2, <2>2
      <4>3. CASE i # Len(events) + 1
        BY <4>1, <4>3, <3>2, <3>3 DEF Proofs
      <4> QED
        BY <4>2, <4>3
    <3> QED
      BY <3>2, <3>5 DEF Grown
  <2> QED
    BY <2>1, <2>2
<1>3. /\ store[t].count \in Nat /\ call[t].on.sequence \in Nat /\ call[t].head \in Nat
      /\ call[t].on \in Answer /\ answers[t] \subseteq Answer
  BY StoreFacts DEF TypeOK
<1>4. StoreFits(t)'
  BY <1>1, <1>2, <1>3 DEF Fits, StoreFits, Unmoved, Grown
<1>5. \A a \in Answer : Seen(a) => Seen(a)'
  BY <1>1, <1>2 DEF Seen, Grown, Answer
<1>6. AnswersFit(t)'
  BY <1>3, <1>5 DEF Fits, AnswersFit, Unmoved
<1>7. CallFits(t)'
  <2>1. call[t].op \in Transitions =>
            /\ call[t].on.sequence <= Len(events')
            /\ call[t].on.state = StateAt(events', call[t].on.sequence)
    BY <1>1, <1>2, <1>3 DEF Fits, CallFits, Seen, Grown
  <2>2. Holds(t)' = Holds(t)
    BY DEF Holds, Unmoved
  <2>3. pc[t] = "anchor" => /\ call[t].head < Len(events')
                            /\ events'[call[t].head + 1].kind = call[t].kind
    BY <1>1, <1>2, <1>3 DEF Fits, CallFits, Grown
  <2> QED
    BY <1>2, <2>1, <2>2, <2>3 DEF Fits, CallFits, Unmoved, Seen
<1> QED
  BY <1>4, <1>6, <1>7 DEF Fits

\* What a step of one store has to keep when it appends nothing.
LEMMA StoreStep ==
    ASSUME AInv, TypeOK', NEW s \in Stores, Fits(s)',
           \A t \in Stores \ {s} : Unmoved(t),
           events' = events, grant' = grant, used \subseteq used', protected <= protected',
           LagIsRepairable',
           Holds(s)' => \/ Holds(s) /\ call'[s].proof = call[s].proof
                        \/ call'[s].proof \notin used
    PROVE  AInv'
<1>1. \A t \in Stores : Fits(t)'
  <2>1. SUFFICES ASSUME NEW t \in Stores, t # s PROVE Fits(t)'
    OBVIOUS
  <2>2. protected' \in Nat /\ TypeOK /\ LagIsRepairable /\ Fits(t) /\ Unmoved(t)
    BY <2>1 DEF AInv, TypeOK
  <2> QED
    BY <2>2, FitsKept
<1>2. PendingApart'
  <2>1. \A t \in Stores \ {s} : /\ Holds(t)' <=> Holds(t)
                                /\ call'[t].proof = call[t].proof
                                /\ Holds(t) => call[t].proof \in used
    BY DEF AInv, Fits, CallFits, Holds, Unmoved
  <2> QED
    BY <2>1 DEF AInv, PendingApart
<1>3. JournalReplays' /\ TransitionsAreGranted'
  BY DEF AInv, JournalReplays, TransitionsAreGranted, Loadable, StateAt
<1> QED
  BY <1>1, <1>2, <1>3 DEF AInv

\* A command that fails leaves its store as it was.
LEMMA FailStep ==
    ASSUME AInv, NEW s \in Stores, Fail(s), pc[s] # "closed",
           events' = events, UNCHANGED device, used \subseteq used', used' \subseteq Receipts,
           protected <= protected', protected' \in Nat, LagIsRepairable'
    PROVE  AInv'
<1>1. TypeOK'
  <2>1. /\ pc' \in [Stores -> Stages] /\ call' \in [Stores -> Call]
        /\ store' \in [Stores -> Store] /\ acked' \subseteq Receipts
        /\ answers' \in [Stores -> SUBSET Answer]
    BY FailType DEF AInv
  <2> QED
    BY <2>1 DEF AInv, TypeOK, device
<1>2. \A t \in Stores \ {s} : Unmoved(t)
  BY DEF Fail, Unmoved, AInv, TypeOK
<1>3. /\ pc'[s] \in {"closed", "ready"} /\ call'[s] = NoCall
      /\ store'[s] = store[s] /\ answers'[s] = answers[s]
  BY DEF Fail, AInv, TypeOK
<1>4. Fits(s)'
  <2>1. StoreFits(s)'
    BY <1>3, StoreFacts DEF AInv, Fits, StoreFits, StateAt, TypeOK
  <2>2. AnswersFit(s)'
    BY <1>3 DEF AInv, Fits, AnswersFit, Seen, StateAt
  <2>3. CallFits(s)'
    BY <1>3 DEF CallFits, Holds, Appending, NoCall, NewCall, Transitions
  <2> QED
    BY <2>1, <2>2, <2>3 DEF Fits
<1>5. ~Holds(s)'
  BY <1>3 DEF Holds
<1> QED
  BY <1>1, <1>2, <1>4, <1>5, StoreStep DEF device

-----------------------------------------------------------------------------
(***************************************************************************)
(* The steps of a store that append nothing.                               *)
(***************************************************************************)
\* open leaves a store with the projection of the whole journal, and protected.
LEMMA OpenStep ==
    ASSUME AInv, NEW s \in Stores, Open(s)
    PROVE  AInv'
<1>1. /\ events \in Seq(Event) /\ Len(events) \in Nat /\ protected \in Nat
      /\ LagIsRepairable /\ TypeOK
  BY EventFacts DEF AInv, TypeOK
<1>2. /\ protected' = Len(events) /\ protected <= protected' /\ protected' \in Nat
      /\ LagIsRepairable'
  BY <1>1 DEF Open, Repaired, LagIsRepairable
<1>3. Projected(events, posture) \in Store
  BY <1>1, ProjectedType DEF TypeOK
<1>4. /\ pc'[s] \in {"append", "ready"} /\ call'[s] = Starting
      /\ store'[s] = Projected(events, posture) /\ answers'[s] = answers[s]
      /\ pc'[s] = "append" => Projected(events, posture).bound # posture
      /\ \A t \in Stores \ {s} : Unmoved(t)
  BY <1>1 DEF Open, TypeOK, Unmoved
<1>5. TypeOK'
  <2>1. /\ pc' \in [Stores -> Stages] /\ call' \in [Stores -> Call]
        /\ store' \in [Stores -> Store]
    BY <1>1, <1>3, Constants DEF Open, TypeOK, Stages
  <2> QED
    BY <2>1, <1>1, <1>2 DEF Open, TypeOK, device
<1>6. Fits(s)'
  <2>1. StoreFits(s)'
    BY <1>1, <1>2, <1>4 DEF StoreFits, Projected, StateOf, StateAt, Open
  <2>2. AnswersFit(s)'
    BY <1>4 DEF AInv, Fits, AnswersFit, Seen, StateAt, Open
  <2>3. pc'[s] = "append" => store'[s].state = "enabled"
    BY <1>4 DEF Projected
  <2>4. CallFits(s)'
    BY <1>4, <2>3 DEF CallFits, Holds, Appending, Starting, NewCall, Transitions
  <2> QED
    BY <2>1, <2>2, <2>4 DEF Fits
<1>7. ~Holds(s)'
  BY <1>4 DEF Holds, Starting, NewCall
<1>8. events' = events /\ grant' = grant /\ used' = used
  BY DEF Open, device
<1> QED
  BY <1>2, <1>4, <1>5, <1>6, <1>7, <1>8, StoreStep

\* A command starts with a snapshot that was answered to its own renderer.
LEMMA BeginStep ==
    ASSUME AInv, NEW s \in Stores, NEW c \in Call, Begin(s, c),
           c.op \in {"read"} \cup Transitions, c.kind = "invalidated",
           c.op \in Transitions => c.on \in answers[s] /\ c.proof \in Receipts
    PROVE  AInv'
<1>1. TypeOK /\ LagIsRepairable
  BY DEF AInv
<1>2. /\ pc[s] = "ready" /\ call'[s] = c /\ answers' = answers
      /\ store'[s].state = store[s].state /\ store'[s].count = store[s].count
      /\ pc'[s] \in {"append", "reply", "authorize"}
      /\ pc'[s] = "append" => store[s].state = "enabled"
      /\ pc'[s] = "authorize" => c.op \in Transitions
      /\ \A t \in Stores \ {s} : Unmoved(t)
  <2>1. /\ pc[s] = "ready" /\ call'[s] = c /\ answers' = answers
        /\ pc' = [pc EXCEPT ![s] =
                    IF store[s].state = "enabled" /\ posture # store[s].current
                      THEN "append" ELSE AfterObserving(c.op)]
    BY <1>1 DEF Begin, TypeOK
  <2>2. AfterObserving(c.op) \in {"reply", "authorize"}
        /\ (AfterObserving(c.op) = "authorize" => c.op \in Transitions)
    BY DEF AfterObserving, Transitions
  <2>3. /\ pc'[s] \in {"append", "reply", "authorize"}
        /\ pc'[s] = "append" => store[s].state = "enabled"
        /\ pc'[s] = "authorize" => c.op \in Transitions
    BY <1>1, <2>1, <2>2 DEF TypeOK
  <2>4. store'[s].state = store[s].state /\ store'[s].count = store[s].count
    BY <1>1 DEF Begin, TypeOK, Store
  <2>5. \A t \in Stores \ {s} : Unmoved(t)
    BY <1>1 DEF Begin, TypeOK, Unmoved
  <2> QED
    BY <2>1, <2>3, <2>4, <2>5
<1>3. events' = events /\ grant' = grant /\ used' = used /\ protected' = protected
  BY DEF Begin, device
<1>4. TypeOK'
  <2>1. pc' \in [Stores -> Stages]
    BY <1>1 DEF Begin, TypeOK, Stages, AfterObserving
  <2>2. call' \in [Stores -> Call]
    BY <1>1 DEF Begin, TypeOK
  <2>3. store' \in [Stores -> Store]
    BY <1>1 DEF Begin, TypeOK, Store
  <2> QED
    BY <1>1, <2>1, <2>2, <2>3 DEF Begin, TypeOK, device
<1>5. Fits(s)'
  <2>1. StoreFits(s)'
    BY <1>2, <1>3 DEF AInv, Fits, StoreFits, StateAt
  <2>2. AnswersFit(s)'
    BY <1>2, <1>3 DEF AInv, Fits, AnswersFit, Seen, StateAt
  <2>3. c.op \in Transitions => Seen(c.on) /\ c.proof \in Receipts
    BY DEF AInv, Fits, AnswersFit
  <2>4. CallFits(s)'
    BY <1>2, <1>3, <2>3 DEF CallFits, Holds, Appending, Transitions, Seen, StateAt
  <2> QED
    BY <2>1, <2>2, <2>4 DEF Fits
<1>6. ~Holds(s)' /\ LagIsRepairable' /\ protected <= protected'
  BY <1>1, <1>2, <1>3 DEF Holds, LagIsRepairable, TypeOK
<1> QED
  BY <1>2, <1>3, <1>4, <1>5, <1>6, StoreStep

\* read_advanced_preference and transition_advanced_preference both start as BeginStep.
LEMMA RenderStep ==
    ASSUME AInv, NEW s \in Stores,
           Read(s) \/ \E on \in answers[s], r \in Receipts : Transition(s, on, r)
    PROVE  AInv'
<1>1. CASE Read(s)
  <2>1. NewCall("read", NoAnswer, NoReceipt) \in Call
    BY Constants
  <2> QED
    BY <1>1, <2>1, BeginStep DEF Read, NewCall, Transitions
<1>2. ASSUME NEW on \in answers[s], NEW r \in Receipts, Transition(s, on, r)
      PROVE  AInv'
  <2> DEFINE op == IF on.state = "enabled" THEN "revoke" ELSE "enable"
  <2>1. on \in Answer
    BY DEF AInv, TypeOK
  <2>2. op \in Transitions
    BY DEF Transitions
  <2>3. NewCall(op, on, r) \in Call
    BY <2>1, <2>2, Constants
  <2>4. /\ NewCall(op, on, r).op = op /\ NewCall(op, on, r).kind = "invalidated"
        /\ NewCall(op, on, r).on = on /\ NewCall(op, on, r).proof = r
    BY DEF NewCall
  <2>5. Begin(s, NewCall(op, on, r))
    BY <1>2 DEF Transition
  <2> HIDE DEF op
  <2> QED
    BY <2>2, <2>3, <2>4, <2>5, BeginStep
<1> QED
  BY <1>1, <1>2

\* The receipt that transition consumes was in no other store's hands.
LEMMA AuthorizeStep ==
    ASSUME AInv, NEW s \in Stores, Authorize(s)
    PROVE  AInv'
<1>1. /\ TypeOK /\ LagIsRepairable /\ pc[s] = "authorize" /\ call[s].op \in Transitions
      /\ call[s].proof \in Receipts /\ call[s].proof \notin used
      /\ protected \in Nat /\ used \subseteq Receipts
      /\ StoreFits(s) /\ AnswersFit(s) /\ Seen(call[s].on)
  BY DEF AInv, Authorize, Fits, CallFits, Granted, TypeOK
<1>2. /\ events' = events /\ UNCHANGED device /\ protected' = protected
      /\ used' = used \cup {call[s].proof}
      /\ used \subseteq used' /\ used' \subseteq Receipts /\ LagIsRepairable'
  BY <1>1 DEF Authorize, LagIsRepairable
<1>3. CASE ~Allowed(s)
  <2>1. Fail(s) /\ pc[s] # "closed" /\ protected <= protected' /\ protected' \in Nat
    BY <1>1, <1>2, <1>3 DEF Authorize
  <2> QED
    BY <1>2, <2>1, FailStep
<1>4. CASE Allowed(s)
  <2> DEFINE k == IF call[s].op = "enable" THEN "enabled" ELSE "revoked"
  <2>1. /\ pc' = [pc EXCEPT ![s] = "append"]
        /\ call' = [call EXCEPT ![s].kind = k]
        /\ UNCHANGED <<acked, store, answers>>
    BY <1>4 DEF Authorize
  <2>2. TypeOK'
    <3>1. pc' \in [Stores -> Stages]
      BY <1>1, <2>1 DEF TypeOK, Stages
    <3>2. k \in {"enabled", "revoked", "invalidated"} /\ call \in [Stores -> Call]
      BY <1>1 DEF TypeOK
    <3>3. [call[s] EXCEPT !.kind = k] \in Call
      <4> HIDE DEF k
      <4> QED
        BY <3>2 DEF Call
    <3>4. call' \in [Stores -> Call]
      <4> HIDE DEF k
      <4> QED
        BY <2>1, <3>2, <3>3
    <3> QED
      BY <1>1, <1>2, <2>1, <3>1, <3>4 DEF TypeOK, device
  <2>3. /\ pc'[s] = "append" /\ store'[s] = store[s] /\ answers'[s] = answers[s]
        /\ call'[s].kind = k /\ call'[s].op = call[s].op
        /\ call'[s].proof = call[s].proof /\ call'[s].on = call[s].on
        /\ \A t \in Stores \ {s} : Unmoved(t)
    BY <1>1, <2>1, StoreFacts DEF TypeOK, Unmoved, Call
  <2>4. /\ call[s].proof \notin Proofs(events)
        /\ (call[s].op = "enable") <=> (store[s].state # "enabled")
        /\ call[s].on.sequence = store[s].count
        /\ grant[call[s].proof] = [action |-> call[s].op, posture |-> store[s].current]
    BY <1>4 DEF Authorize, Allowed, Admitted, Granted
  <2>5. grant' = grant
    BY <1>2 DEF device
  <2>6. CallFits(s)'
    BY <1>1, <1>2, <2>3, <2>4, <2>5
    DEF CallFits, Holds, Appending, Transitions, Seen, StateAt, Proofs
  <2>7. StoreFits(s)' /\ AnswersFit(s)'
    BY <1>1, <1>2, <2>3 DEF StoreFits, AnswersFit, Seen, StateAt
  <2>8. protected <= protected'
    BY <1>1, <1>2
  <2> QED
    BY <1>1, <1>2, <2>2, <2>3, <2>5, <2>6, <2>7, <2>8, StoreStep DEF Fits
<1> QED
  BY <1>3, <1>4

\* Every way a command fails before its event is committed, and a reply that is lost.
LEMMA FailureSteps ==
    ASSUME AInv, NEW s \in Stores,
           Refuse(s) \/ LoseApproval(s) \/ PrepareRefused(s) \/ StorageFails(s)
    PROVE  AInv'
<1>1. /\ TypeOK /\ LagIsRepairable /\ protected \in Nat /\ used \subseteq Receipts
      /\ pc[s] = "authorize" => call[s].proof \in Receipts
  BY DEF AInv, Fits, CallFits, TypeOK
<1>2. Repaired \in Nat /\ protected <= Repaired /\ Len(events) - Repaired \in {0, 1}
  BY <1>1, RepairedFacts
<1>3. /\ events' = events /\ UNCHANGED device /\ Fail(s) /\ pc[s] # "closed"
      /\ used \subseteq used' /\ used' \subseteq Receipts
      /\ protected' \in {protected, Repaired}
  BY <1>1 DEF Refuse, LoseApproval, PrepareRefused, StorageFails
<1>4. protected' \in Nat /\ protected <= protected' /\ LagIsRepairable'
  BY <1>1, <1>2, <1>3 DEF LagIsRepairable
<1> QED
  BY <1>3, <1>4, FailStep

\* A command that prepares holds the projection of the journal as it is.
LEMMA PrepareStep ==
    ASSUME AInv, NEW s \in Stores, Prepare(s)
    PROVE  AInv'
<1>1. /\ TypeOK /\ LagIsRepairable /\ pc[s] = "append" /\ store[s].count = Len(events)
      /\ StoreFits(s) /\ AnswersFit(s) /\ CallFits(s) /\ Len(events) \in Nat
      /\ protected \in Nat
  BY EventFacts DEF AInv, Prepare, UpToDate, Fits, TypeOK
<1>2. /\ events' = events /\ UNCHANGED device /\ used' = used /\ grant' = grant
      /\ protected' \in Nat /\ protected <= protected' /\ LagIsRepairable'
  BY <1>1, RepairedFacts DEF Prepare, device, LagIsRepairable
<1>3. TypeOK'
  <2>1. pc' \in [Stores -> Stages]
    BY <1>1 DEF Prepare, TypeOK, Stages
  <2>2. call' \in [Stores -> Call]
    <3>1. call \in [Stores -> Call] /\ call' = [call EXCEPT ![s].head = Len(events)]
      BY <1>1 DEF Prepare, TypeOK
    <3>2. [call[s] EXCEPT !.head = Len(events)] \in Call
      BY <1>1, <3>1 DEF Call
    <3> QED
      BY <3>1, <3>2
  <2> QED
    BY <1>1, <1>2, <2>1, <2>2 DEF Prepare, TypeOK, device
<1>4. /\ pc'[s] = "commit" /\ store'[s] = store[s] /\ answers'[s] = answers[s]
      /\ call'[s].kind = call[s].kind /\ call'[s].op = call[s].op
      /\ call'[s].proof = call[s].proof /\ call'[s].on = call[s].on
      /\ call'[s].head = Len(events)
      /\ \A t \in Stores \ {s} : Unmoved(t)
  BY <1>1, StoreFacts DEF Prepare, TypeOK, Unmoved, Call
<1>5. StoreFits(s)' /\ AnswersFit(s)'
  BY <1>1, <1>2, <1>4, StoreFacts DEF StoreFits, AnswersFit, Seen, StateAt
<1>6. CallFits(s)'
  BY <1>1, <1>2, <1>4
  DEF CallFits, Holds, Appending, Transitions, Seen, StateAt, Proofs
<1>7. Holds(s)' => Holds(s) /\ call'[s].proof = call[s].proof
  BY <1>1, <1>4 DEF Holds
<1> QED
  BY <1>2, <1>3, <1>4, <1>5, <1>6, <1>7, StoreStep DEF Fits

\* The event was appended to a journal at most one row ahead of its head, so the head
\* that a compare-and-swap just moved covers the journal to its end.
LEMMA AnchorStep ==
    ASSUME AInv, NEW s \in Stores, Anchor(s)
    PROVE  AInv'
<1>1. /\ TypeOK /\ LagIsRepairable /\ pc[s] = "anchor"
      /\ StoreFits(s) /\ AnswersFit(s) /\ CallFits(s) /\ Len(events) \in Nat
      /\ protected \in Nat /\ call[s].head \in Nat /\ call[s].head < Len(events)
      /\ events[call[s].head + 1].kind = call[s].kind
  BY EventFacts, StoreFacts DEF AInv, Anchor, Fits, CallFits, TypeOK
<1>2. /\ events' = events /\ UNCHANGED device /\ used' = used /\ grant' = grant
  BY DEF Anchor, device
<1>3. CASE ~(custody /\ protected = call[s].head)
  <2>1. Fail(s) /\ protected' = protected /\ pc[s] # "closed"
    BY <1>1, <1>3 DEF Anchor
  <2>2. protected <= protected' /\ protected' \in Nat /\ used \subseteq used'
        /\ used' \subseteq Receipts /\ LagIsRepairable'
    BY <1>1, <1>2, <2>1 DEF TypeOK, LagIsRepairable
  <2> QED
    BY <1>2, <2>1, <2>2, FailStep
<1>4. CASE custody /\ protected = call[s].head
  <2>1. /\ protected' = call[s].head + 1
        /\ store' = [store EXCEPT ![s] = Moved(s)]
        /\ pc' = [pc EXCEPT ![s] = AfterAppending(call[s])]
        /\ UNCHANGED <<acked, call, answers>>
    BY <1>4 DEF Anchor
  <2>2. /\ AfterAppending(call[s]) \in {"ready", "reply", "authorize"}
        /\ AfterAppending(call[s]) = "authorize" =>
              call[s].op \in Transitions /\ call[s].kind = "invalidated"
    <3>1. call[s].op \in {"open", "read"} \cup Transitions
      BY <1>1, StoreFacts DEF CallFits, Appending
    <3> QED
      BY <3>1 DEF AfterAppending, AfterObserving, Transitions
  <2>3. /\ pc'[s] = AfterAppending(call[s]) /\ store'[s] = Moved(s)
        /\ call'[s] = call[s] /\ answers'[s] = answers[s]
        /\ \A t \in Stores \ {s} : Unmoved(t)
    BY <1>1, <2>1 DEF TypeOK, Unmoved
  <2>4. protected' = Len(events) /\ protected' \in Nat /\ protected <= protected'
        /\ LagIsRepairable'
    BY <1>1, <1>2, <1>4, <2>1 DEF LagIsRepairable
  <2>5. TypeOK'
    <3>1. pc' \in [Stores -> Stages]
      BY <1>1, <2>1, <2>2 DEF TypeOK, Stages
    <3>2. store' \in [Stores -> Store]
      BY <1>1, <2>1, MovedType DEF TypeOK
    <3> QED
      BY <1>1, <1>2, <2>1, <2>4, <3>1, <3>2 DEF TypeOK, device
  <2>6. StoreFits(s)'
    <3>1. Moved(s).count = call[s].head + 1 /\ Moved(s).state = StateAfter(call[s].kind)
      BY DEF Moved
    <3>2. StateAt(events, call[s].head + 1) = StateAfter(call[s].kind)
      BY <1>1 DEF StateAt
    <3> QED
      BY <1>1, <1>2, <2>1, <2>3, <3>1, <3>2 DEF StoreFits, StateAt
  <2>7. AnswersFit(s)'
    BY <1>1, <1>2, <2>3 DEF AnswersFit, Seen, StateAt
  <2>8. CallFits(s)'
    BY <1>1, <1>2, <2>2, <2>3
    DEF CallFits, Holds, Appending, Transitions, Seen, StateAt
  <2>9. ~Holds(s)'
    BY <2>2, <2>3 DEF Holds
  <2> QED
    BY <1>1, <1>2, <2>3, <2>4, <2>5, <2>6, <2>7, <2>8, <2>9, StoreStep DEF Fits
<1> QED
  BY <1>3, <1>4

\* What is answered is the state after a protected prefix of the journal.
LEMMA ReplyStep ==
    ASSUME AInv, NEW s \in Stores, Reply(s)
    PROVE  AInv'
<1> DEFINE a == [state |-> store[s].state, sequence |-> store[s].count]
<1>1. /\ TypeOK /\ LagIsRepairable /\ pc[s] = "reply"
      /\ StoreFits(s) /\ AnswersFit(s) /\ CallFits(s) /\ Len(events) \in Nat
      /\ protected \in Nat /\ protected <= Len(events)
      /\ store[s].count \in Nat /\ store[s].state \in States
  BY EventFacts, StoreFacts DEF AInv, Reply, Fits, TypeOK, LagIsRepairable
<1>2. /\ events' = events /\ UNCHANGED device /\ used' = used /\ grant' = grant
      /\ protected' = protected /\ store' = store
      /\ answers' = [answers EXCEPT ![s] = @ \cup {a}]
      /\ pc' = [pc EXCEPT ![s] = "ready"] /\ call' = [call EXCEPT ![s] = NoCall]
      /\ acked' \subseteq acked \cup {call[s].proof} /\ (acked' = acked \/ call[s].op \in Transitions)
  BY DEF Reply, device
<1>3. a \in Answer
  BY <1>1 DEF Answer
<1>4. Seen(a)
  BY <1>1 DEF Seen, StoreFits
<1> HIDE DEF a
<1>5. /\ pc'[s] = "ready" /\ call'[s] = NoCall /\ store'[s] = store[s]
      /\ answers'[s] = answers[s] \cup {a}
      /\ \A t \in Stores \ {s} : Unmoved(t)
  BY <1>1, <1>2 DEF TypeOK, Unmoved
<1>6. TypeOK'
  <2>1. pc' \in [Stores -> Stages] /\ call' \in [Stores -> Call]
        /\ answers' \in [Stores -> SUBSET Answer]
    BY <1>1, <1>2, <1>3, Constants DEF TypeOK, Stages
  <2>2. acked' \subseteq Receipts
    BY <1>1, <1>2 DEF TypeOK, CallFits
  <2> QED
    BY <1>1, <1>2, <2>1, <2>2 DEF TypeOK, device
<1>7. StoreFits(s)'
  BY <1>1, <1>2, <1>5 DEF StoreFits, StateAt
<1>8. AnswersFit(s)'
  BY <1>1, <1>2, <1>4, <1>5 DEF AnswersFit, Seen, StateAt
<1>9. CallFits(s)' /\ ~Holds(s)'
  BY <1>5 DEF CallFits, Holds, Appending, NoCall, NewCall, Transitions
<1>10. protected <= protected' /\ LagIsRepairable'
  BY <1>1, <1>2 DEF LagIsRepairable
<1> QED
  BY <1>2, <1>5, <1>6, <1>7, <1>8, <1>9, <1>10, StoreStep DEF Fits

\* A process that stops leaves the journal and the head behind, and nothing else.
LEMMA CrashStep ==
    ASSUME AInv, NEW s \in Stores, Crash(s)
    PROVE  AInv'
<1>1. TypeOK /\ LagIsRepairable /\ protected \in Nat
  BY DEF AInv, TypeOK
<1>2. /\ events' = events /\ UNCHANGED device /\ used' = used /\ grant' = grant
      /\ protected' = protected /\ store' = store /\ acked' = acked
      /\ pc'[s] = "closed" /\ call'[s] = NoCall /\ answers'[s] = {}
      /\ \A t \in Stores \ {s} : Unmoved(t)
  BY <1>1 DEF Crash, device, TypeOK, Unmoved
<1>3. TypeOK'
  <2>1. pc' \in [Stores -> Stages] /\ call' \in [Stores -> Call]
        /\ answers' \in [Stores -> SUBSET Answer]
    BY <1>1, Constants DEF Crash, TypeOK, Stages
  <2> QED
    BY <1>1, <1>2, <2>1 DEF TypeOK, device
<1>4. StoreFits(s)' /\ AnswersFit(s)'
  BY <1>2 DEF StoreFits, AnswersFit
<1>5. CallFits(s)' /\ ~Holds(s)'
  BY <1>2 DEF CallFits, Holds, Appending, NoCall, NewCall, Transitions
<1>6. protected <= protected' /\ LagIsRepairable'
  BY <1>1, <1>2 DEF LagIsRepairable
<1> QED
  BY <1>2, <1>3, <1>4, <1>5, <1>6, StoreStep DEF Fits

-----------------------------------------------------------------------------
(***************************************************************************)
(* The append.  The unique indexes make the event the successor of the     *)
(* journal the store decided on, and the head, at least at the store's     *)
(* projection and at most at the journal's end, one behind it.             *)
(***************************************************************************)
\* The transaction of append_event.
LEMMA CommitStep ==
    ASSUME AInv, NEW s \in Stores, Commit(s)
    PROVE  AInv'
<1> DEFINE e == Pending(s)
<1>1. /\ TypeOK /\ LagIsRepairable /\ pc[s] = "commit"
      /\ StoreFits(s) /\ AnswersFit(s) /\ CallFits(s) /\ PendingApart
      /\ Loadable(events) /\ TransitionsAreGranted
      /\ events \in Seq(Event) /\ Len(events) \in Nat /\ protected \in Nat
      /\ used \subseteq Receipts
  BY EventFacts DEF AInv, Commit, Fits, TypeOK, JournalReplays
<1>2. UNCHANGED device /\ used' = used /\ grant' = grant /\ protected' = protected
  BY DEF Commit, device
<1>3. CASE call[s].head # Len(events)
  <2>1. Fail(s) /\ events' = events /\ pc[s] # "closed"
    BY <1>1, <1>3 DEF Commit
  <2>2. protected <= protected' /\ protected' \in Nat /\ used \subseteq used'
        /\ used' \subseteq Receipts /\ LagIsRepairable'
    BY <1>1, <1>2, <2>1 DEF LagIsRepairable
  <2> QED
    BY <1>2, <2>1, <2>2, FailStep
<1>4. CASE call[s].head = Len(events)
  <2>1. /\ events' = Append(events, e) /\ pc' = [pc EXCEPT ![s] = "anchor"]
        /\ UNCHANGED <<acked, store, call, answers>>
    BY <1>4 DEF Commit
  <2>2. e \in Event
    BY <1>1, PendingType
  <2>3. /\ e.kind = call[s].kind /\ e.posture = store[s].current
        /\ e.proof = IF call[s].kind = "invalidated" THEN NoReceipt ELSE call[s].proof
    BY DEF Pending
  <2> HIDE DEF e
  <2>4. /\ events' \in Seq(Event) /\ Len(events') = Len(events) + 1
        /\ DOMAIN events' = 1 .. Len(events) + 1 /\ DOMAIN events = 1 .. Len(events)
        /\ \A i \in 1 .. Len(events) : events'[i] = events[i]
        /\ events'[Len(events) + 1] = e
        /\ \A n \in 0 .. Len(events) : StateAt(events', n) = StateAt(events, n)
    BY <1>1, <2>1, <2>2, AppendFacts, EventFacts
  <2>5. /\ pc'[s] = "anchor" /\ \A t \in Stores \ {s} : Unmoved(t)
    BY <1>1, <2>1 DEF TypeOK, Unmoved
  <2>6. store[s].count = Len(events) /\ store[s].state = StateOf(events)
    BY <1>1, <1>4 DEF CallFits, StoreFits, StateOf
  <2>7. protected = Len(events)
    BY <1>1, <2>6 DEF StoreFits, LagIsRepairable
  <2>8. LagIsRepairable'
    BY <1>1, <1>2, <2>4, <2>7 DEF LagIsRepairable
  <2>9. TypeOK'
    <3>1. pc' \in [Stores -> Stages]
      BY <1>1, <2>1 DEF TypeOK, Stages
    <3> QED
      BY <1>1, <1>2, <2>1, <2>4, <3>1 DEF TypeOK, device
  <2>10. call[s].kind # "invalidated" =>
             /\ call[s].proof \in used /\ call[s].proof \notin Proofs(events)
             /\ grant[call[s].proof] = [action |-> call[s].op, posture |-> store[s].current]
             /\ call[s].op = IF call[s].kind = "enabled" THEN "enable" ELSE "revoke"
             /\ call[s].kind \in {"enabled", "revoked"}
    BY <1>1, StoreFacts DEF CallFits, Holds, Appending
  <2>11. JournalReplays'
    <3>1. (e.kind = "enabled") <=> (StateOf(events) # "enabled")
      BY <1>1, <2>3, <2>6 DEF CallFits, Appending
    <3>2. e.proof = NoReceipt \/ e.proof \notin Proofs(events)
      BY <2>3, <2>10
    <3>3. Loadable(Append(events, e))
      BY <1>1, <2>2, <3>1, <3>2, LoadableKept
    <3> QED
      BY <2>1, <3>3 DEF JournalReplays, Loadable, StateAt
  <2>12. TransitionsAreGranted'
    <3>1. SUFFICES ASSUME NEW i \in 1 .. Len(events) + 1, events'[i].proof # NoReceipt
                   PROVE  /\ events'[i].proof \in used
                          /\ grant[events'[i].proof] =
                               [action |-> IF events'[i].kind = "enabled"
                                             THEN "enable" ELSE "revoke",
                                posture |-> events'[i].posture]
      BY <1>2, <2>4 DEF TransitionsAreGranted
    <3>2. CASE i = Len(events) + 1
      BY <2>3, <2>4, <2>10, <3>1, <3>2
    <3>3. CASE i \in 1 .. Len(events)
      BY <1>1, <2>4, <3>1, <3>3 DEF TransitionsAreGranted
    <3> QED
      BY <1>1, <3>2, <3>3
  <2>13. ASSUME NEW t \in Stores, t # s
         PROVE  Fits(t)'
    <3>1. Fits(t) /\ Unmoved(t)
      BY <2>5, <2>13 DEF AInv
    <3>2. Holds(t) => e.proof # call[t].proof
      <4>1. SUFFICES ASSUME Holds(t) PROVE e.proof # call[t].proof
        OBVIOUS
      <4>2. call[t].proof \in Receipts
        BY <1>1, <3>1, <4>1 DEF Fits, CallFits
      <4>3. call[s].kind # "invalidated" => call[s].proof # call[t].proof
        BY <1>1, <2>13, <4>1 DEF PendingApart, Holds
      <4> QED
        BY <2>3, <4>2, <4>3, EnvironmentAssumption
    <3> QED
      BY <1>1, <1>2, <2>1, <2>2, <3>1, <3>2, FitsKept
  <2>14. Fits(s)'
    <3>1. StoreFits(s)'
      BY <1>1, <1>2, <2>1, <2>4, <2>6 DEF StoreFits
    <3>2. AnswersFit(s)'
      BY <1>1, <2>1, <2>4 DEF AnswersFit, Seen, TypeOK, Answer
    <3>3. call[s].op \in Transitions =>
              /\ call[s].on.sequence <= Len(events')
              /\ call[s].on.state = StateAt(events', call[s].on.sequence)
              /\ call[s].proof \in Receipts
      BY <1>1, <2>4, StoreFacts DEF CallFits, Seen
    <3>4. CallFits(s)'
      BY <1>1, <1>4, <2>1, <2>3, <2>4, <2>5, <3>3 DEF CallFits, Holds, Appending, Seen
    <3> QED
      BY <3>1, <3>2, <3>4 DEF Fits
  <2>15. PendingApart'
    <3>1. ~Holds(s)'
      BY <2>5 DEF Holds
    <3>2. \A t \in Stores \ {s} : (Holds(t)' <=> Holds(t)) /\ call'[t].proof = call[t].proof
      BY <2>5 DEF Holds, Unmoved
    <3> QED
      BY <1>1, <3>1, <3>2 DEF PendingApart
  <2> QED
    BY <2>8, <2>9, <2>11, <2>12, <2>13, <2>14, <2>15 DEF AInv
<1> QED
  BY <1>3, <1>4
-----------------------------------------------------------------------------
(***************************************************************************)
(* The invariant.                                                          *)
(***************************************************************************)
\* An empty journal fits everything.
LEMMA Initially == Init => AInv
<1> SUFFICES ASSUME Init PROVE AInv
  OBVIOUS
<1>1. events = <<>> /\ Len(events) = 0 /\ DOMAIN events = {} /\ events \in Seq(Event)
  BY EmptySeq DEF Init
<1>2. Projected(<<>>, posture) \in Store
  BY <1>1, ProjectedType DEF Init
<1>3. TypeOK
  BY <1>1, <1>2, Constants DEF Init, TypeOK, Stages
<1>4. LagIsRepairable
  BY <1>1 DEF Init, LagIsRepairable
<1>5. JournalReplays /\ TransitionsAreGranted
  BY <1>1 DEF JournalReplays, Loadable, TransitionsAreGranted
<1>6. ASSUME NEW s \in Stores PROVE Fits(s) /\ ~Holds(s)
  BY DEF Init, Fits, StoreFits, AnswersFit, CallFits, Holds, Appending, NoCall, NewCall,
         Transitions
<1> QED
  BY <1>3, <1>4, <1>5, <1>6 DEF AInv, PendingApart

\* Nothing in AInv is about the credential store or the posture the device has.
LEMMA DeviceStep ==
    ASSUME AInv, UNCHANGED <<events, protected, grant, used, acked, pc, store, call, answers>>,
           custody' \in BOOLEAN, posture' \in Postures
    PROVE  AInv'
<1>1. TypeOK'
  BY DEF AInv, TypeOK
<1>2. \A s \in Stores : Fits(s)' /\ (Holds(s)' <=> Holds(s))
  BY DEF AInv, Fits, StoreFits, AnswersFit, CallFits, Holds, Seen, StateAt, Proofs
<1>3. PendingApart'
  BY <1>2 DEF AInv, PendingApart
<1>4. LagIsRepairable' /\ JournalReplays' /\ TransitionsAreGranted'
  BY DEF AInv, LagIsRepairable, JournalReplays, Loadable, StateAt, TransitionsAreGranted
<1> QED
  BY <1>1, <1>2, <1>3, <1>4 DEF AInv

\* Every step of every store and of the device keeps the invariant.
LEMMA Inductive == AInv /\ [Next]_vars => AInv'
<1> SUFFICES ASSUME AInv, [Next]_vars PROVE AInv'
  OBVIOUS
<1>1. ASSUME NEW s \in Stores, Open(s) PROVE AInv'
  BY <1>1, OpenStep
<1>2. ASSUME NEW s \in Stores,
             Read(s) \/ \E on \in answers[s], r \in Receipts : Transition(s, on, r)
      PROVE  AInv'
  BY <1>2, RenderStep
<1>3. ASSUME NEW s \in Stores, Authorize(s) PROVE AInv'
  BY <1>3, AuthorizeStep
<1>4. ASSUME NEW s \in Stores,
             Refuse(s) \/ LoseApproval(s) \/ PrepareRefused(s) \/ StorageFails(s)
      PROVE  AInv'
  BY <1>4, FailureSteps
<1>5. ASSUME NEW s \in Stores, Prepare(s) PROVE AInv'
  BY <1>5, PrepareStep
<1>6. ASSUME NEW s \in Stores, Commit(s) PROVE AInv'
  BY <1>6, CommitStep
<1>7. ASSUME NEW s \in Stores, Anchor(s) PROVE AInv'
  BY <1>7, AnchorStep
<1>8. ASSUME NEW s \in Stores, Reply(s) PROVE AInv'
  BY <1>8, ReplyStep
<1>9. ASSUME NEW s \in Stores, Crash(s) PROVE AInv'
  BY <1>9, CrashStep
<1>10. CASE CustodyChange \/ PostureChange
  BY <1>10, DeviceStep DEF CustodyChange, PostureChange, AInv, TypeOK
<1>11. CASE UNCHANGED vars
  BY <1>11, DeviceStep DEF vars, AInv, TypeOK
<1> QED
  BY <1>1, <1>2, <1>3, <1>4, <1>5, <1>6, <1>7, <1>8, <1>9, <1>10, <1>11 DEF Next

\* So it holds in every reachable state.
LEMMA Invariance == Spec => []AInv
  BY Initially, Inductive, PTL DEF Spec
-----------------------------------------------------------------------------
(***************************************************************************)
(* The theorems.                                                           *)
(***************************************************************************)
\* Every variable stays in its type, whatever the stores and the device do.
THEOREM TypeCorrect == Spec => []TypeOK
<1>1. AInv => TypeOK
  BY DEF AInv
<1> QED
  BY <1>1, Invariance, PTL

\* Whatever interleaves or fails, the next start can replay the journal (open).
THEOREM JournalAlwaysReplays == Spec => []JournalReplays
<1>1. AInv => JournalReplays
  BY DEF AInv
<1> QED
  BY <1>1, Invariance, PTL

\* Every transition in the journal was authenticated for what it did (transition).
THEOREM TransitionsAlwaysGranted == Spec => []TransitionsAreGranted
<1>1. AInv => TransitionsAreGranted
  BY DEF AInv
<1> QED
  BY <1>1, Invariance, PTL

\* The journal is never more than one event ahead of its head (append_event).
THEOREM LagAlwaysRepairable == Spec => []LagIsRepairable
<1>1. AInv => LagIsRepairable
  BY DEF AInv
<1> QED
  BY <1>1, Invariance, PTL

\* No projection runs ahead of the protected head (append_event).
THEOREM ProjectionAlwaysProtected == Spec => []ProjectionIsProtected
<1>1. AInv => ProjectionIsProtected
  BY DEF AInv, Fits, StoreFits, ProjectionIsProtected
<1> QED
  BY <1>1, Invariance, PTL

\* A transition is appended only to the journal the renderer was shown (transition).
THEOREM TransitionsOnWhatWasShown == Spec => TransitionsActOnWhatWasShown
<1> DEFINE Appended == Len(events') > Len(events)
                       /\ events'[Len(events')].proof # NoReceipt
           ByItsStore == \E s \in Stores : /\ pc[s] = "commit"
                                           /\ call[s].proof = events'[Len(events')].proof
                                           /\ call[s].on.state = StateOf(events)
                                           /\ call[s].on.sequence = Len(events)
<1>1. AInv /\ [Next]_vars => (Appended => ByItsStore)
  <2>1. SUFFICES ASSUME AInv, [Next]_vars, Appended PROVE ByItsStore
    OBVIOUS
  <2>2. events \in Seq(Event) /\ Len(events) \in Nat
    BY <2>1, EventFacts DEF AInv, TypeOK
  <2>3. events' # events
    BY <2>1, <2>2
  <2>4. PICK s \in Stores : Commit(s)
    BY <2>1, <2>3
    DEF Next, vars, Open, Read, Transition, Begin, Authorize, Refuse, LoseApproval, Prepare,
        PrepareRefused, Anchor, Reply, StorageFails, Crash, CustodyChange, PostureChange
  <2>5. pc[s] = "commit" /\ call[s].head = Len(events) /\ events' = Append(events, Pending(s))
    BY <2>3, <2>4 DEF Commit
  <2>6. Pending(s) \in Event
    BY <2>1, PendingType DEF AInv
  <2>7. events'[Len(events')] = Pending(s)
    BY <2>2, <2>5, <2>6, AppendFacts
  <2>8. call[s].kind # "invalidated" /\ call[s].proof = events'[Len(events')].proof
    BY <2>1, <2>7 DEF Pending
  <2>9. /\ CallFits(s) /\ call[s].op \in Transitions
        /\ call[s].on.sequence = store[s].count /\ call[s].head = store[s].count
    BY <2>1, <2>5, <2>8 DEF AInv, Fits, CallFits, Appending, Transitions
  <2>10. call[s].on.state = StateOf(events) /\ call[s].on.sequence = Len(events)
    BY <2>5, <2>9 DEF CallFits, Seen, StateOf
  <2> QED
    BY <2>5, <2>8, <2>10
<1>2. AInv /\ [Next]_vars => [Appended => ByItsStore]_vars
  BY <1>1
<1> QED
  BY <1>2, Invariance, PTL DEF Spec, TransitionsActOnWhatWasShown

\* A start that succeeds at once has read the whole journal.
LEMMA OpenedCurrent ==
    ASSUME AInv, NEW s \in Stores, Open(s), pc'[s] = "ready"
    PROVE  /\ store'[s].state = StateOf(events') /\ store'[s].count = Len(events')
           /\ store'[s].bound = store'[s].current
<1>1. store'[s] = Projected(events, posture) /\ events' = events
  BY DEF AInv, TypeOK, Open
<1>2. Projected(events, posture).bound = posture
  BY DEF Open, AInv, TypeOK
<1>3. StateOf(events') = StateOf(events) /\ Len(events') = Len(events)
  BY <1>1 DEF StateOf, StateAt
<1> QED
  BY <1>1, <1>2, <1>3 DEF Projected

\* One that first invalidates the preference ends with its own event the last of the journal.
LEMMA AnchoredCurrent ==
    ASSUME AInv, NEW s \in Stores, Anchor(s), pc'[s] = "ready", call'[s].op = "open"
    PROVE  /\ store'[s].state = StateOf(events') /\ store'[s].count = Len(events')
           /\ store'[s].bound = store'[s].current
<1>1. /\ TypeOK /\ LagIsRepairable /\ CallFits(s) /\ pc[s] = "anchor" /\ events' = events
      /\ events \in Seq(Event) /\ Len(events) \in Nat /\ protected \in Nat /\ call[s] \in Call
  BY EventFacts DEF AInv, Fits, Anchor, TypeOK
<1>2. protected = call[s].head /\ store'[s] = Moved(s) /\ call' = call
  <2>1. ~Fail(s)
    BY <1>1 DEF Fail, TypeOK, NoCall, NewCall
  <2> QED
    BY <1>1, <2>1 DEF Anchor, TypeOK
<1>3. Len(events) = call[s].head + 1 /\ events[Len(events)].kind = call[s].kind
  BY <1>1, <1>2 DEF CallFits, LagIsRepairable, Call
<1>4. StateOf(events') = StateAfter(call[s].kind)
  <2>1. events' = events /\ Len(events) # 0
    BY <1>1, <1>3 DEF Call
  <2>2. StateAt(events, Len(events)) = StateAfter(call[s].kind)
    BY <1>3, <2>1 DEF StateAt
  <2> QED
    BY <2>1, <2>2 DEF StateOf, StateAt
<1>5. /\ Moved(s).state = StateAfter(call[s].kind) /\ Moved(s).count = call[s].head + 1
      /\ Moved(s).bound = store[s].current /\ Moved(s).current = store[s].current
  BY DEF Moved
<1>6. Len(events') = call[s].head + 1
  BY <1>1, <1>3
<1> QED
  BY <1>2, <1>4, <1>5, <1>6

\* A start that succeeds has the whole journal, and an enabled preference only for the posture
\* it observed, though another store may append while it starts (open).
THEOREM StartsAlwaysCurrent == Spec => StartsCurrent
<1> DEFINE Started(s) ==
               pc[s] \in {"closed", "anchor"} /\ pc'[s] = "ready" /\ call'[s].op = "open"
           Current(s) == /\ store'[s].state = StateOf(events')
                         /\ store'[s].count = Len(events')
                         /\ store'[s].bound = store'[s].current
<1>1. ASSUME AInv, [Next]_vars, NEW s \in Stores, Started(s) PROVE Current(s)
  <2>1. pc'[s] # pc[s]
    BY <1>1
  <2>2. PICK t \in Stores :
            \/ Open(t) \/ Anchor(t)
            \/ Read(t) \/ \E on \in answers[t], r \in Receipts : Transition(t, on, r)
            \/ Authorize(t) \/ Refuse(t) \/ LoseApproval(t) \/ Prepare(t) \/ PrepareRefused(t)
            \/ Commit(t) \/ Reply(t) \/ StorageFails(t) \/ Crash(t)
    BY <1>1, <2>1 DEF Next, vars, CustodyChange, PostureChange
  <2>3. t = s
    BY <1>1, <2>1, <2>2
    DEF Open, Anchor, Read, Transition, Begin, Authorize, Refuse, LoseApproval, Prepare,
        PrepareRefused, Commit, Reply, StorageFails, Crash, Fail, AInv, TypeOK
  <2>4. pc[s] \in {"closed", "anchor"} /\ pc'[s] = "ready"
    BY <1>1
  <2>5. Open(s) \/ Anchor(s)
    BY <1>1, <2>2, <2>3, <2>4
    DEF Read, Transition, Begin, Authorize, Refuse, LoseApproval, Prepare,
        PrepareRefused, Commit, Reply, StorageFails, Crash, AInv, TypeOK
  <2> QED
    BY <1>1, <2>5, OpenedCurrent, AnchoredCurrent
<1>2. AInv /\ [Next]_vars => [\A s \in Stores : Started(s) => Current(s)]_vars
  BY <1>1
<1> QED
  BY <1>2, Invariance, PTL DEF Spec, StartsCurrent
=============================================================================
