-------------------------- MODULE DeviceBindingProofs --------------------------
(***************************************************************************)
(* Proofs about DeviceBinding for every set of commands, bindings, PCs and *)
(* exceptions, any number of entitlements and of interventions, and any    *)
(* length of the cooldown and of the validity of an exception.             *)
(*                                                                         *)
(* The strengthening DInv says why the rules hold: a binding of a command  *)
(* that has no result is still unused (CommandsFit), every binding is      *)
(* older than the count of changes and than the clock (DevicesFit), each   *)
(* entitlement has one latest binding, the only one that may be active     *)
(* (OneLatest), and a command whose entitlement has not been reconciled    *)
(* since its client read it can only expect a version that is current when *)
(* nothing has changed (ReadsFit).                                         *)
(***************************************************************************)
EXTENDS DeviceBinding, FiniteSetTheorems, TLAPS

CommandFits(c) ==
    /\ command[c].at = "unused" => command[c] = Unused
    /\ command[c].at # "unused" => newest \in Index
    /\ command[c].kind \in {"bind", "transfer"} => command[c].binding \in Bindings
    /\ command[c].binding \in Bindings =>
          /\ result[c] = None => device[command[c].binding] = Unbound
          /\ \A o \in Commands : command[o].binding = command[c].binding => o = c
CommandsFit == \A c \in Commands : CommandFits(c)

DevicesFit ==
    \A b \in Bindings : /\ device[b].of = NoEntitlement => device[b] = Unbound
                        /\ device[b].updated <= changes
                        /\ device[b].bound <= now

\* b is the binding the next decision about k is taken on.
Latest(k, b) ==
    /\ device[b].of = k
    /\ \A o \in Bindings \ {b} :
          device[o].of = k =>
              /\ ~device[o].active /\ device[o].bound <= device[b].bound
              /\ device[b].active \/ device[o].updated < device[b].updated
OneLatest == \A k \in Index : Bound(k) = {} \/ \E b \in Bindings : Latest(k, b)

ReadFits(c) ==
    command[c].at # "unused" =>
        LET read == command[c].read IN
        /\ read[1] \in Index /\ read[1] <= newest
        /\ read[1] = newest => read[2] <= entitlement[newest].base
        /\ read = <<newest, entitlement[newest].base>> =>
              /\ command[c].expects <= entitlement[newest].version
              /\ command[c].expects = entitlement[newest].version => command[c].seen = changes
ReadsFit == \A c \in Commands : ReadFits(c)

DInv == /\ TypeOK /\ CommandsFit /\ DevicesFit /\ OneLatest /\ ReadsFit
        /\ TablesAgree /\ ExceptionOnce

-----------------------------------------------------------------------------
(***************************************************************************)
(* Decisions                                                               *)
(***************************************************************************)
\* The commands that write a binding, and what they decided.
Applied(c, d) ==
    /\ command[c].at = "sent" /\ result[c] = None
    /\ d = Decide(newest, command[c]) /\ d \in {"bind", "revoke", "replace", "redeem"}
    /\ entitlement[newest].version = command[c].expects
    /\ Apply(c, newest, d)
    /\ UNCHANGED <<now, newest, interventions>>

\* A command that is carried out is applied or answered without a change.
LEMMA ExecuteCases ==
    ASSUME NEW c \in Commands, Execute(c)
    PROVE  \/ \E d : Applied(c, d)
           \/ \E r : /\ command[c].at = "sent" /\ Reply(c, r) /\ UNCHANGED <<now, newest>>
                     /\ r \in Result \cup {result[c]} /\ (result[c] # None => r = result[c])
<1> DEFINE d == Decide(newest, command[c])
<1>1. CASE Remembered(c) /\ Reply(c, result[c])
  BY <1>1 DEF Execute, Remembered
<1>2. CASE ~Remembered(c) /\ (~Fresh(c) \/ d = "denied") /\ Reply(c, result[c])
  BY <1>2 DEF Execute, Remembered
<1>3. CASE ~Remembered(c) /\ (Reply(c, "no-op") \/ Reply(c, "noted"))
  BY <1>3 DEF Execute, Remembered, Result
<1>4. CASE /\ ~Remembered(c) /\ Fresh(c) /\ d \in {"bind", "revoke", "replace", "redeem"}
           /\ Apply(c, newest, d)
  <2>1. Applied(c, d)
    BY <1>4 DEF Execute, Remembered, Fresh, Applied
  <2>2. QED BY <2>1
<1>5. QED BY <1>1, <1>2, <1>3, <1>4 DEF Execute

\* What each decision rests on.
LEMMA DecisionRests ==
    ASSUME NEW k, NEW c, NEW d, d = Decide(k, c), d \in {"bind", "revoke", "replace", "redeem"}
    PROVE  /\ d = "bind" => c.kind = "bind" /\ Current(k) = {}
           /\ d = "revoke" => c.kind = "revoke" /\ Current(k) # {}
           /\ d \in {"replace", "redeem"} => c.kind = "transfer" /\ Current(k) # {}
           /\ d = "replace" => \E b \in Current(k) : Eligible(b)
           /\ d = "redeem" => Usable(c.exception)
BY DEF Decide

\* The latest binding is the current one, active or not.
LEMMA CurrentIsLatest ==
    ASSUME TypeOK, NEW k \in Index, NEW b \in Bindings, Latest(k, b)
    PROVE  /\ Current(k) = {b}
           /\ ActiveOf(k) \subseteq {b}
<1>0. \A o \in Bindings : device[o].updated \in Nat
  BY DEF TypeOK, Binding
<1>1. ActiveOf(k) \subseteq {b}
  BY DEF ActiveOf, Bound, Latest
<1>2. CASE device[b].active
  <2>1. ActiveOf(k) = {b}
    BY <1>1, <1>2 DEF ActiveOf, Bound, Latest
  <2>2. QED BY <1>1, <2>1 DEF Current
<1>3. CASE ~device[b].active
  <2>1. ActiveOf(k) = {}
    BY <1>1, <1>3 DEF ActiveOf
  <2>2. b \in Bound(k) /\ \A o \in Bound(k) : device[o].updated <= device[b].updated
    BY <1>0, <1>3 DEF Bound, Latest
  <2>3. \A o \in Bound(k) : o # b => ~(device[b].updated <= device[o].updated)
    BY <1>0, <1>3 DEF Bound, Latest
  <2>4. Current(k) = {o \in Bound(k) : \A p \in Bound(k) : device[p].updated <= device[o].updated}
    BY <2>1 DEF Current
  <2>5. QED BY <1>1, <2>2, <2>3, <2>4
<1>4. QED BY <1>2, <1>3

\* Without a binding there is no current one.
LEMMA NothingCurrent ==
    ASSUME NEW k, Bound(k) = {}
    PROVE  Current(k) = {}
BY DEF Current, ActiveOf

-----------------------------------------------------------------------------
(***************************************************************************)
(* Types                                                                   *)
(***************************************************************************)
\* The first state is well typed.
LEMMA InitType == Init => TypeOK
<1> SUFFICES ASSUME Init PROVE TypeOK
  OBVIOUS
<1> USE DeviceAssumption DEF Init
<1>1. now \in Time /\ newest \in 0 .. MaxEntitlements /\ changes \in Nat /\ table \subseteq Bindings
  BY DEF Time, NoEntitlement
<1>2. entitlement \in [Index -> Entitlement]
  BY DEF Entitlement, Absent, Version
<1>3. device \in [Bindings -> Binding]
  BY DEF Binding, Unbound, NoEntitlement, Time
<1>4. exception \in [Exceptions -> Exception]
  BY DEF Exception, Time
<1>5. command \in [Commands -> Command]
  <2>1. Unused \in Command
    BY DEF Command, Unused, Version
  <2>2. QED BY <2>1
<1>6. result \in [Commands -> Result \cup {None}] /\ redeemed \in [Exceptions -> Nat]
      /\ interventions \in 0 .. MaxInterventions
  OBVIOUS
<1>7. QED BY <1>1, <1>2, <1>3, <1>4, <1>5, <1>6 DEF TypeOK

\* A client's command is well typed.
LEMMA SendType ==
    ASSUME TypeOK, NEW c \in Commands, NEW kind \in Kinds, NEW b \in Bindings \cup {None},
           NEW pc \in PCs \cup {None}, NEW e \in Exceptions \cup {None}, Send(c, kind, b, pc, e)
    PROVE  TypeOK'
<1> DEFINE n == [at |-> "sent", kind |-> kind, binding |-> b, pc |-> pc, exception |-> e,
                 expects |-> entitlement[newest].version,
                 read |-> <<newest, entitlement[newest].base>>, seen |-> changes]
<1>1. newest \in Index /\ newest \in 0 .. MaxEntitlements /\ changes \in Nat
  BY DeviceAssumption DEF TypeOK, Send, Index, NoEntitlement
<1>2. entitlement[newest] \in Entitlement
  BY <1>1 DEF TypeOK
<1>3. entitlement[newest].version \in Version /\ entitlement[newest].base \in Version
  BY <1>2 DEF Entitlement
<1>4. n \in Command
  BY <1>1, <1>3 DEF Command
<1>5. command' = [command EXCEPT ![c] = n]
  BY DEF Send
<1> HIDE DEF n
<1>6. command' \in [Commands -> Command]
  BY <1>4, <1>5 DEF TypeOK
<1>7. QED BY <1>6 DEF Send, TypeOK

\* An answer, and the repetition of a command, leave it well typed.
LEMMA AnswerType ==
    ASSUME TypeOK, NEW c \in Commands, NEW r \in Result \cup {None}
    PROVE  /\ [command EXCEPT ![c].at = "answered"] \in [Commands -> Command]
           /\ [command EXCEPT ![c].at = "sent"] \in [Commands -> Command]
           /\ [result EXCEPT ![c] = r] \in [Commands -> Result \cup {None}]
<1>1. ASSUME NEW at \in {"sent", "answered"}
      PROVE  [command EXCEPT ![c].at = at] \in [Commands -> Command]
  <2>1. command[c] \in Command /\ command \in [Commands -> Command]
    BY DEF TypeOK
  <2>2. [command[c] EXCEPT !.at = at] \in Command
    BY <2>1 DEF Command
  <2>3. [command EXCEPT ![c].at = at] = [command EXCEPT ![c] = [command[c] EXCEPT !.at = at]]
    BY <2>1
  <2>4. QED BY <2>1, <2>2, <2>3
<1>2. [result EXCEPT ![c] = r] \in [Commands -> Result \cup {None}]
  BY DEF TypeOK
<1>3. QED BY <1>1, <1>2

\* The bindings after a decision are bindings.
LEMMA AfterType ==
    ASSUME TypeOK, NEW c \in Commands, NEW d, NEW k \in 0 .. MaxEntitlements
    PROVE  After(k, d, c) \in [Bindings -> Binding]
<1>1. /\ now \in Time /\ changes + 1 \in Nat /\ command[c].pc \in PCs \cup {None}
      /\ device \in [Bindings -> Binding]
  BY DEF TypeOK, Command
<1>2. [of |-> k, pc |-> command[c].pc, bound |-> now, active |-> TRUE, updated |-> changes + 1]
          \in Binding
  BY <1>1 DEF Binding
<1>3. ASSUME NEW b \in Bindings
      PROVE  [device[b] EXCEPT !.active = FALSE, !.updated = changes + 1] \in Binding
  <2> DEFINE n == changes + 1
  <2>1. n \in Nat /\ device[b] \in Binding
    BY <1>1
  <2> HIDE DEF n
  <2>2. [device[b] EXCEPT !.active = FALSE, !.updated = n] \in Binding
    BY <2>1 DEF Binding
  <2>3. QED BY <2>2 DEF n
<1>4. QED BY <1>1, <1>2, <1>3 DEF After

\* A decision that is applied keeps the types.
LEMMA AppliedType ==
    ASSUME TypeOK, CommandsFit, NEW c \in Commands, NEW d, Applied(c, d)
    PROVE  TypeOK'
<1>1. /\ newest \in 0 .. MaxEntitlements /\ newest \in Index
      /\ command[c].binding \in Bindings \/ d = "revoke"
  <2>1. newest \in Index
    BY DEF CommandsFit, CommandFits, Applied
  <2>2. d # "revoke" => command[c].kind \in {"bind", "transfer"}
    BY DecisionRests DEF Applied
  <2>3. QED BY <2>1, <2>2 DEF TypeOK, CommandsFit, CommandFits
<1>2. entitlement' \in [Index -> Entitlement]
  <2>1. /\ entitlement[newest].version \in Version /\ entitlement[newest].version < MaxVersion
        /\ entitlement \in [Index -> Entitlement]
    BY <1>1 DEF TypeOK, Entitlement, Applied, Apply
  <2>2. entitlement[newest].version + 1 \in Version
    BY <2>1, DeviceAssumption DEF Version
  <2>3. entitlement' = [entitlement EXCEPT ![newest].version = @ + 1]
    BY DEF Applied, Apply
  <2>4. QED BY <1>1, <2>1, <2>2, <2>3 DEF Entitlement
<1>3. device' \in [Bindings -> Binding]
  BY <1>1, AfterType DEF Applied, Apply
<1>4. table' \subseteq Bindings
  BY <1>1 DEF TypeOK, Applied, Apply
<1>5. exception' \in [Exceptions -> Exception] /\ redeemed' \in [Exceptions -> Nat]
  <2>1. exception \in [Exceptions -> Exception] /\ redeemed \in [Exceptions -> Nat]
    BY DEF TypeOK
  <2>2. CASE d = "redeem"
    <3> DEFINE e == command[c].exception
    <3>1. /\ exception' = [exception EXCEPT ![e].consumed = TRUE]
          /\ redeemed' = [redeemed EXCEPT ![e] = @ + 1]
      BY <2>2 DEF Applied, Apply
    <3> HIDE DEF e
    <3>2. exception' \in [Exceptions -> Exception]
      BY <2>1, <3>1 DEF Exception
    <3>3. redeemed' \in [Exceptions -> Nat]
      <4>1. \A x \in Exceptions : redeemed[x] \in Nat /\ redeemed[x] + 1 \in Nat
        BY <2>1
      <4>2. /\ redeemed' = [x \in Exceptions |-> redeemed'[x]]
            /\ \A x \in Exceptions : redeemed'[x] \in {redeemed[x], redeemed[x] + 1}
        BY <2>1, <3>1
      <4>3. QED BY <4>1, <4>2
    <3>4. QED BY <3>2, <3>3
  <2>3. CASE d # "redeem"
    BY <2>1, <2>3 DEF Applied, Apply
  <2>4. QED BY <2>2, <2>3
<1>6. command' \in [Commands -> Command] /\ result' \in [Commands -> Result \cup {None}]
  <2>1. command' = [command EXCEPT ![c].at = "answered"] /\ result' = [result EXCEPT ![c] = "applied"]
    BY DEF Applied, Apply, Answered
  <2>2. "applied" \in Result
    BY DEF Result
  <2>3. QED BY <2>1, <2>2, AnswerType
<1>7. changes' \in Nat /\ UNCHANGED <<now, newest, interventions>>
  BY DEF TypeOK, Applied, Apply
<1>8. QED BY <1>2, <1>3, <1>4, <1>5, <1>6, <1>7 DEF TypeOK

\* Every step but an applied command, which needs CommandsFit, keeps the types by itself.
LEMMA TypeStep == TypeOK /\ CommandsFit /\ [Next]_vars => TypeOK'
<1> SUFFICES ASSUME TypeOK, CommandsFit, [Next]_vars PROVE TypeOK'
  OBVIOUS
<1> USE DeviceAssumption
<1>1. CASE Tick
  BY <1>1 DEF Tick, TypeOK, Time
<1>2. CASE Entitle
  <2>1. newest + 1 \in Index /\ newest + 1 \in 0 .. MaxEntitlements
    BY <1>2 DEF Entitle, TypeOK, Index
  <2>2. [status |-> "active", version |-> 1, base |-> 1] \in Entitlement
    BY DEF Entitlement, Version
  <2>3. entitlement' \in [Index -> Entitlement]
    BY <1>2, <2>2 DEF Entitle, TypeOK
  <2>4. QED BY <1>2, <2>1, <2>3 DEF Entitle, TypeOK
<1>3. ASSUME NEW status \in {"active", "grace", "expired"}, Reconcile(status) PROVE TypeOK'
  <2>1. newest \in Index
    BY <1>3 DEF Reconcile, TypeOK, Index, NoEntitlement
  <2>2. entitlement[newest].base + 1 \in Version
    BY <1>3, <2>1 DEF Reconcile, TypeOK, Entitlement, Version
  <2>3. [status |-> status, version |-> entitlement[newest].base + 1,
         base |-> entitlement[newest].base + 1] \in Entitlement
    BY <2>2 DEF Entitlement
  <2>4. entitlement' = [entitlement EXCEPT ![newest] =
                           [status |-> status, version |-> entitlement[newest].base + 1,
                            base |-> entitlement[newest].base + 1]]
    BY <1>3, <2>1 DEF Reconcile, TypeOK
  <2>5. entitlement' \in [Index -> Entitlement]
    BY <2>1, <2>3, <2>4 DEF TypeOK
  <2>6. QED BY <1>3, <2>5 DEF Reconcile, TypeOK
<1>4. ASSUME NEW e \in Exceptions, IssueException(e) PROVE TypeOK'
  <2>1. exception' \in [Exceptions -> Exception]
    BY <1>4 DEF IssueException, TypeOK, Exception
  <2>2. QED BY <1>4, <2>1 DEF IssueException, TypeOK
<1>5. ASSUME NEW k \in Index, CorrectEntitlement(k) PROVE TypeOK'
  <2>1. entitlement[k].version + 1 \in Version
    BY <1>5 DEF CorrectEntitlement, TypeOK, Entitlement, Version
  <2>2. entitlement' \in [Index -> Entitlement]
    BY <1>5, <2>1 DEF CorrectEntitlement, TypeOK, Entitlement
  <2>3. QED BY <1>5, <2>2 DEF CorrectEntitlement, Intervene, TypeOK
<1>6. ASSUME NEW b \in Bindings, RevokeByOperator(b) PROVE TypeOK'
  BY <1>6 DEF RevokeByOperator, Intervene, TypeOK
<1>7. ASSUME NEW c \in Commands, Repeat(c) PROVE TypeOK'
  <2>1. command' \in [Commands -> Command]
    BY <1>7, AnswerType DEF Repeat
  <2>2. QED BY <1>7, <2>1 DEF Repeat, TypeOK
<1>8. ASSUME NEW c \in Commands, Execute(c) PROVE TypeOK'
  <2>1. CASE \E d : Applied(c, d)
    BY <2>1, AppliedType
  <2>2. ASSUME NEW r \in Result \cup {result[c]}, Reply(c, r), UNCHANGED <<now, newest>>
        PROVE  TypeOK'
    <3>1. r \in Result \cup {None}
      BY DEF TypeOK
    <3>2. command' \in [Commands -> Command] /\ result' \in [Commands -> Result \cup {None}]
      BY <2>2, <3>1, AnswerType DEF Reply, Answered
    <3>3. QED BY <2>2, <3>2 DEF Reply, TypeOK
  <2>3. QED BY <1>8, <2>1, <2>2, ExecuteCases
<1>9. CASE UNCHANGED vars
  BY <1>9 DEF vars, TypeOK
<1>10. QED
  BY <1>1, <1>2, <1>3, <1>4, <1>5, <1>6, <1>7, <1>8, <1>9, SendType DEF Next, Others, Client

-----------------------------------------------------------------------------
(***************************************************************************)
(* What an applied command does                                            *)
(***************************************************************************)
\* The binding of a command that is applied is unused, and it takes the place of the latest one.
LEMMA AppliedPlace ==
    ASSUME TypeOK, CommandsFit, OneLatest, NEW c \in Commands, NEW d, Applied(c, d)
    PROVE  /\ newest \in Index
           /\ d # "revoke" => /\ command[c].binding \in Bindings
                              /\ device[command[c].binding] = Unbound
           /\ d = "bind" => Bound(newest) = {} /\ Current(newest) = {}
           /\ d # "bind" => \E l \in Bindings : Latest(newest, l) /\ Current(newest) = {l}
<1>1. newest \in Index
  BY DEF CommandsFit, CommandFits, Applied
<1>2. d # "revoke" => command[c].kind \in {"bind", "transfer"}
  BY DecisionRests DEF Applied
<1>3. d # "revoke" => command[c].binding \in Bindings /\ device[command[c].binding] = Unbound
  BY <1>2 DEF CommandsFit, CommandFits, Applied
<1>4. (d = "bind" => Current(newest) = {}) /\ (d # "bind" => Current(newest) # {})
  BY DecisionRests DEF Applied
<1>5. Bound(newest) = {} \/ \E l \in Bindings : Latest(newest, l) /\ Current(newest) = {l}
  BY <1>1, CurrentIsLatest DEF OneLatest
<1>6. QED BY <1>1, <1>3, <1>4, <1>5, NothingCurrent

\* Every binding is the one the command brought, the one it replaced, or as it was.
LEMMA AppliedDevices ==
    ASSUME TypeOK, CommandsFit, OneLatest, NEW c \in Commands, NEW d, Applied(c, d),
           NEW o \in Bindings
    PROVE  \/ /\ d # "revoke" /\ o = command[c].binding /\ device[o] = Unbound
              /\ device'[o] = [of |-> newest, pc |-> command[c].pc, bound |-> now,
                               active |-> TRUE, updated |-> changes + 1]
              /\ device'[o].of = newest /\ device'[o].active /\ ~device[o].active
           \/ /\ d # "bind" /\ o \in Current(newest) /\ device[o].of = newest
              /\ d # "revoke" => o # command[c].binding
              /\ device'[o].of = newest /\ ~device'[o].active
              /\ device'[o].bound = device[o].bound /\ device'[o].updated = changes + 1
           \/ /\ ~(d # "bind" /\ o \in Current(newest))
              /\ d # "revoke" => o # command[c].binding
              /\ device'[o] = device[o]
<1>1. device[o] \in Binding /\ newest # NoEntitlement
  BY AppliedPlace DEF TypeOK, Index, NoEntitlement
<1>2. device'[o] = IF d # "revoke" /\ o = command[c].binding
                   THEN [of |-> newest, pc |-> command[c].pc, bound |-> now, active |-> TRUE,
                         updated |-> changes + 1]
                   ELSE IF d # "bind" /\ o \in Current(newest)
                   THEN [device[o] EXCEPT !.active = FALSE, !.updated = changes + 1]
                   ELSE device[o]
  BY DEF Applied, Apply, After
<1>3. CASE d # "revoke" /\ o = command[c].binding
  <2>1. device[o] = Unbound
    BY <1>3, AppliedPlace
  <2>2. device'[o] = [of |-> newest, pc |-> command[c].pc, bound |-> now, active |-> TRUE,
                      updated |-> changes + 1]
    BY <1>2, <1>3
  <2>3. device'[o].of = newest /\ device'[o].active
    BY <2>2
  <2>4. ~device[o].active
    BY <2>1 DEF Unbound
  <2>5. QED BY <1>3, <2>1, <2>2, <2>3, <2>4
<1>4. CASE ~(d # "revoke" /\ o = command[c].binding) /\ d # "bind" /\ o \in Current(newest)
  <2>1. device[o].of = newest
    BY <1>4, AppliedPlace DEF Latest
  <2>2. device'[o] = [device[o] EXCEPT !.active = FALSE, !.updated = changes + 1]
    BY <1>2, <1>4
  <2> DEFINE n == changes + 1
  <2>3. device'[o] = [device[o] EXCEPT !.active = FALSE, !.updated = n]
    BY <2>2
  <2> HIDE DEF n
  <2>4. /\ device'[o].of = device[o].of /\ device'[o].active = FALSE
        /\ device'[o].bound = device[o].bound /\ device'[o].updated = n
    BY <1>1, <2>3 DEF Binding
  <2>5. QED BY <1>4, <2>1, <2>4 DEF n
<1>5. CASE ~(d # "revoke" /\ o = command[c].binding) /\ ~(d # "bind" /\ o \in Current(newest))
  BY <1>2, <1>5
<1>6. QED BY <1>3, <1>4, <1>5

\* Every other step leaves the bindings, their count and the spent exceptions as they are.
LEMMA Steps ==
    ASSUME TypeOK, [Next]_vars
    PROVE  \/ \E c \in Commands : \E d : Applied(c, d)
           \/ /\ device' = device /\ changes' = changes /\ redeemed' = redeemed
              /\ now' \in {now, now + 1}
<1>1. ASSUME NEW c \in Commands, Client(c)
      PROVE  \/ \E d : Applied(c, d)
             \/ device' = device /\ changes' = changes /\ redeemed' = redeemed /\ now' = now
  <2>1. CASE Execute(c)
    BY <2>1, ExecuteCases DEF Reply
  <2>2. CASE ~Execute(c)
    BY <1>1, <2>2 DEF Client, Send, Repeat
  <2>3. QED BY <2>1, <2>2
<1>2. CASE Others
  BY <1>2 DEF Others, Tick, Entitle, Reconcile, IssueException, CorrectEntitlement,
              RevokeByOperator
<1>3. QED BY <1>1, <1>2 DEF Next, vars

-----------------------------------------------------------------------------
(***************************************************************************)
(* Bindings                                                                *)
(***************************************************************************)
\* The clock and the count of changes stay ahead of every binding.
LEMMA DevicesStep ==
    TypeOK /\ CommandsFit /\ OneLatest /\ DevicesFit /\ [Next]_vars => DevicesFit'
<1> SUFFICES ASSUME TypeOK, CommandsFit, OneLatest, DevicesFit, [Next]_vars, NEW b \in Bindings
             PROVE  /\ device'[b].of = NoEntitlement => device'[b] = Unbound
                    /\ device'[b].updated <= changes'
                    /\ device'[b].bound <= now'
  BY DEF DevicesFit
<1>0. /\ device[b].of = NoEntitlement => device[b] = Unbound
      /\ device[b].updated <= changes /\ device[b].bound <= now
      /\ device[b].updated \in Nat /\ device[b].bound \in Nat /\ changes \in Nat /\ now \in Nat
  BY DeviceAssumption DEF DevicesFit, TypeOK, Binding, Time
<1>1. ASSUME NEW c \in Commands, NEW d, Applied(c, d)
      PROVE  /\ device'[b].of = NoEntitlement => device'[b] = Unbound
             /\ device'[b].updated <= changes'
             /\ device'[b].bound <= now'
  <2>1. changes' = changes + 1 /\ now' = now
    BY <1>1 DEF Applied, Apply
  <2>2. newest # NoEntitlement
    BY <1>1, AppliedPlace DEF Index, NoEntitlement
  <2>3. CASE device'[b] = [of |-> newest, pc |-> command[c].pc, bound |-> now, active |-> TRUE,
                           updated |-> changes + 1]
    BY <1>0, <2>1, <2>2, <2>3
  <2>4. CASE /\ device'[b].of = newest /\ device'[b].bound = device[b].bound
             /\ device'[b].updated = changes + 1
    BY <1>0, <2>1, <2>2, <2>4
  <2>5. CASE device'[b] = device[b]
    BY <1>0, <2>1, <2>5
  <2>6. QED BY <1>1, <2>3, <2>4, <2>5, AppliedDevices
<1>2. CASE /\ device' = device /\ changes' = changes /\ now' \in {now, now + 1}
  BY <1>0, <1>2
<1>3. QED BY <1>1, <1>2, Steps

\* A decision is taken on the latest binding, and leaves a latest one behind.
LEMMA LatestStep ==
    TypeOK /\ CommandsFit /\ DevicesFit /\ OneLatest /\ [Next]_vars => OneLatest'
<1> SUFFICES ASSUME TypeOK, CommandsFit, DevicesFit, OneLatest, [Next]_vars, NEW k \in Index
             PROVE  (Bound(k) = {} \/ \E b \in Bindings : Latest(k, b))'
  BY DEF OneLatest
<1>0. \A o \in Bindings :
        /\ device[o].updated \in Nat /\ device[o].bound \in Nat /\ changes \in Nat /\ now \in Nat
        /\ device[o].updated <= changes /\ device[o].bound <= now
  BY DeviceAssumption DEF DevicesFit, TypeOK, Binding, Time
<1>1. ASSUME NEW c \in Commands, NEW d, Applied(c, d)
      PROVE  (Bound(k) = {} \/ \E b \in Bindings : Latest(k, b))'
  <2>0. d # "revoke" =>
          \E n \in Bindings : /\ n = command[c].binding /\ device[n] = Unbound
                            /\ device'[n] = [of |-> newest, pc |-> command[c].pc, bound |-> now,
                                             active |-> TRUE, updated |-> changes + 1]
    BY <1>1, AppliedPlace, AppliedDevices
  <2>1. CASE k # newest
    <3>1. \A o \in Bindings : device'[o].of = k \/ device[o].of = k => device'[o] = device[o]
      <4> SUFFICES ASSUME NEW o \in Bindings, device'[o].of = k \/ device[o].of = k
                   PROVE  device'[o] = device[o]
        OBVIOUS
      <4>1. Unbound.of = NoEntitlement /\ k # NoEntitlement
        BY DEF Unbound, Index, NoEntitlement
      <4>2. /\ device[o] = Unbound => device[o].of # k
            /\ device'[o] = [of |-> newest, pc |-> command[c].pc, bound |-> now, active |-> TRUE,
                             updated |-> changes + 1] => device'[o].of # k
        BY <2>1, <4>1
      <4>3. QED BY <1>1, <2>1, <4>2, AppliedDevices
    <3>2. CASE Bound(k) = {}
      BY <3>1, <3>2 DEF Bound
    <3>3. ASSUME NEW b \in Bindings, Latest(k, b) PROVE Latest(k, b)'
      BY <3>1, <3>3 DEF Latest
    <3>4. QED BY <3>2, <3>3 DEF OneLatest
  <2>2. CASE k = newest /\ d = "bind"
    <3>0. PICK n \in Bindings : /\ n = command[c].binding /\ device[n] = Unbound
                                /\ device'[n] = [of |-> newest, pc |-> command[c].pc, bound |-> now,
                                                 active |-> TRUE, updated |-> changes + 1]
      BY <2>0, <2>2
    <3>1. device'[n].of = k /\ device'[n].active
      BY <2>2, <3>0
    <3>2. \A o \in Bindings \ {n} : device[o].of # k /\ device'[o] = device[o]
      BY <1>1, <2>2, <3>0, AppliedPlace, AppliedDevices DEF Bound
    <3>3. Latest(k, n)'
      BY <3>1, <3>2 DEF Latest
    <3>4. QED BY <3>3
  <2>3. CASE k = newest /\ d = "revoke"
    <3>1. PICK l \in Bindings : Latest(k, l) /\ Current(k) = {l}
      BY <1>1, <2>3, AppliedPlace
    <3>2. device'[l].of = k /\ ~device'[l].active /\ device'[l].updated = changes + 1
          /\ device'[l].bound = device[l].bound
      BY <1>1, <2>3, <3>1, AppliedDevices
    <3>3. \A o \in Bindings \ {l} : device'[o] = device[o]
      BY <1>1, <2>3, <3>1, AppliedDevices
    <3>4. Latest(k, l)'
      BY <1>0, <3>1, <3>2, <3>3 DEF Latest
    <3>5. QED BY <3>4
  <2>4. CASE k = newest /\ d \notin {"bind", "revoke"}
    <3>1. PICK l \in Bindings : Latest(k, l) /\ Current(k) = {l}
      BY <1>1, <2>4, AppliedPlace
    <3>0. PICK n \in Bindings : /\ n = command[c].binding /\ device[n] = Unbound
                                /\ device'[n] = [of |-> newest, pc |-> command[c].pc, bound |-> now,
                                                 active |-> TRUE, updated |-> changes + 1]
      BY <2>0, <2>4
    <3>2. device'[n].of = k /\ device'[n].active /\ device'[n].bound = now
      BY <2>4, <3>0
    <3>3. \A o \in Bindings \ {n} : device'[o].of = k =>
              /\ device[o].of = k /\ ~device'[o].active /\ device'[o].bound = device[o].bound
      BY <1>1, <2>4, <3>0, <3>1, AppliedDevices DEF Latest
    <3>4. Latest(k, n)'
      BY <1>0, <3>2, <3>3 DEF Latest
    <3>5. QED BY <3>4
  <2>5. QED BY <2>1, <2>2, <2>3, <2>4
<1>2. CASE device' = device
  BY <1>2 DEF OneLatest, Bound, Latest
<1>3. QED BY <1>1, <1>2, Steps

-----------------------------------------------------------------------------
(***************************************************************************)
(* Commands                                                                *)
(***************************************************************************)
\* A command is sent with an unused binding of its own, and loses that only with a result.
LEMMA CommandsStep ==
    TypeOK /\ CommandsFit /\ OneLatest /\ [Next]_vars => CommandsFit'
<1> SUFFICES ASSUME TypeOK, CommandsFit, OneLatest, [Next]_vars PROVE CommandsFit'
  OBVIOUS
<1>0. /\ \A o \in Commands : CommandFits(o)
      /\ command \in [Commands -> Command] /\ result \in [Commands -> Result \cup {None}]
      /\ newest \in 0 .. MaxEntitlements /\ MaxEntitlements \in Nat \ {0}
  BY DeviceAssumption DEF CommandsFit, TypeOK
<1> DEFINE Fit(o) ==
        /\ command'[o].at = "unused" => command'[o] = Unused
        /\ command'[o].at # "unused" => newest' \in Index
        /\ command'[o].kind \in {"bind", "transfer"} => command'[o].binding \in Bindings
        /\ command'[o].binding \in Bindings =>
              /\ result'[o] = None => device'[command'[o].binding] = Unbound
              /\ \A p \in Commands : command'[p].binding = command'[o].binding => p = o
<1>1. ASSUME NEW c \in Commands, NEW kind \in Kinds, NEW b \in Bindings \cup {None},
             NEW pc \in PCs \cup {None}, NEW e \in Exceptions \cup {None},
             Send(c, kind, b, pc, e), NEW o \in Commands
      PROVE  Fit(o)
  <2>1. /\ newest \in Index /\ newest' = newest /\ result' = result /\ device' = device
        /\ kind \in {"bind", "transfer"} => b \in Bindings
        /\ b \in Bindings /\ kind \in {"bind", "transfer"} =>
              device[b] = Unbound /\ \A p \in Commands : command[p].binding # b
        /\ kind \notin {"bind", "transfer"} => b = None
    BY <1>0, <1>1 DEF Send, Index, NoEntitlement
  <2>2. /\ command'[c].at = "sent" /\ command'[c].kind = kind /\ command'[c].binding = b
        /\ \A p \in Commands \ {c} : command'[p] = command[p]
    BY <1>0, <1>1 DEF Send
  <2>3. b \in Bindings => /\ device[b] = Unbound
                          /\ \A p \in Commands : command[p].binding # b
    BY <2>1, DeviceAssumption
  <2>4. CASE o = c
    BY <1>0, <2>1, <2>2, <2>3, <2>4
  <2>5. CASE o # c
    <3>1. command'[o] = command[o] /\ CommandFits(o)
      BY <1>0, <2>2, <2>5
    <3>2. command[o].binding \in Bindings => command[o].binding # b
      BY <2>3
    <3>3. QED BY <2>1, <2>2, <3>1, <3>2 DEF CommandFits
  <2>6. QED BY <2>4, <2>5
<1>2. ASSUME NEW c \in Commands, NEW o \in Commands,
             \/ Repeat(c)
             \/ \E r : /\ command[c].at = "sent" /\ Reply(c, r) /\ UNCHANGED <<now, newest>>
                       /\ r \in Result \cup {result[c]} /\ (result[c] # None => r = result[c])
      PROVE  Fit(o)
  <2>1. /\ command[c].at # "unused" /\ newest' = newest /\ device' = device
        /\ \A p \in Commands : result'[p] = None => result[p] = None
        /\ command' = [command EXCEPT ![c].at = "answered"]
           \/ command' = [command EXCEPT ![c].at = "sent"]
    BY <1>0, <1>2 DEF Repeat, Reply, Answered, Result, None
  <2>2. \A p \in Commands : /\ command'[p].kind = command[p].kind
                            /\ command'[p].binding = command[p].binding
                            /\ command'[p] = command[p] \/ (p = c /\ command'[p].at # "unused")
    BY <1>0, <2>1 DEF Command
  <2>3. QED BY <1>0, <2>1, <2>2 DEF CommandFits
<1>3. ASSUME NEW c \in Commands, NEW d, Applied(c, d), NEW o \in Commands
      PROVE  Fit(o)
  <2>1. /\ command[c].at = "sent" /\ newest' = newest
        /\ command' = [command EXCEPT ![c].at = "answered"] /\ result' = [result EXCEPT ![c] = "applied"]
    BY <1>3 DEF Applied, Apply, Answered
  <2>2. /\ \A p \in Commands : /\ command'[p].kind = command[p].kind
                               /\ command'[p].binding = command[p].binding
                               /\ command'[p] = command[p] \/ (p = c /\ command'[p].at # "unused")
        /\ \A p \in Commands : result'[p] = None => result[p] = None /\ p # c
    BY <1>0, <2>1 DEF Command, None
  <2>3. ASSUME command[o].binding \in Bindings, result'[o] = None
        PROVE  device'[command[o].binding] = Unbound
    <3>1. device[command[o].binding] = Unbound /\ command[o].binding # command[c].binding
      BY <1>0, <2>2, <2>3 DEF CommandFits
    <3>2. device[command[o].binding].of # newest
      BY <1>3, <3>1, AppliedPlace DEF Unbound, Index, NoEntitlement
    <3>3. QED BY <1>3, <2>3, <3>1, <3>2, AppliedDevices
  <2>4. QED BY <1>0, <2>1, <2>2, <2>3 DEF CommandFits
<1>4. ASSUME NEW o \in Commands, Others \/ UNCHANGED vars PROVE Fit(o)
  <2>1. /\ command' = command /\ result' = result /\ device' = device
        /\ newest' = newest \/ (newest' = newest + 1 /\ newest < MaxEntitlements)
    BY <1>4 DEF Others, vars, Tick, Entitle, Reconcile, IssueException, CorrectEntitlement,
                RevokeByOperator
  <2>2. newest \in Index => newest' \in Index
    BY <1>0, <2>1 DEF Index
  <2>3. QED BY <1>0, <2>1, <2>2 DEF CommandFits
<1>5. ASSUME NEW o \in Commands PROVE Fit(o)
  <2>1. ASSUME NEW c \in Commands, Client(c) PROVE Fit(o)
    <3>1. CASE Execute(c)
      BY <1>2, <1>3, <3>1, ExecuteCases
    <3>2. CASE Repeat(c)
      BY <1>2, <3>2
    <3>3. CASE \E kind \in Kinds, b \in Bindings \cup {None}, pc \in PCs \cup {None},
                  e \in Exceptions \cup {None} : Send(c, kind, b, pc, e)
      BY <1>1, <3>3
    <3>4. QED BY <2>1, <3>1, <3>2, <3>3 DEF Client
  <2>2. QED BY <1>4, <2>1 DEF Next
<1>6. QED BY <1>5 DEF CommandsFit, CommandFits

\* Versions of an entitlement that is not reconciled only grow, with every change of a binding.
LEMMA ReadsStep ==
    TypeOK /\ CommandsFit /\ ReadsFit /\ [Next]_vars => ReadsFit'
<1> SUFFICES ASSUME TypeOK, CommandsFit, ReadsFit, [Next]_vars PROVE ReadsFit'
  OBVIOUS
<1>0. /\ \A o \in Commands : ReadFits(o)
      /\ command \in [Commands -> Command] /\ changes \in Nat
      /\ newest \in 0 .. MaxEntitlements /\ MaxEntitlements \in Nat \ {0}
      /\ entitlement \in [Index -> Entitlement]
      /\ \A k \in Index : entitlement[k].version \in Nat /\ entitlement[k].base \in Nat
      /\ \A o \in Commands : /\ command[o].expects \in Nat /\ command[o].read[1] \in Nat
                             /\ command[o].read[2] \in Nat
                             /\ command[o].at # "unused" => newest \in Index
  BY DeviceAssumption DEF ReadsFit, TypeOK, Entitlement, Version, Command, CommandsFit, CommandFits
<1> DEFINE Read(o) ==
        command'[o].at # "unused" =>
            LET read == command'[o].read IN
            /\ read[1] \in Index /\ read[1] <= newest'
            /\ read[1] = newest' => read[2] <= entitlement'[newest'].base
            /\ read = <<newest', entitlement'[newest'].base>> =>
                  /\ command'[o].expects <= entitlement'[newest'].version
                  /\ command'[o].expects = entitlement'[newest'].version =>
                        command'[o].seen = changes'
<1>1. ASSUME NEW c \in Commands, NEW kind \in Kinds, NEW b \in Bindings \cup {None},
             NEW pc \in PCs \cup {None}, NEW e \in Exceptions \cup {None},
             Send(c, kind, b, pc, e), NEW o \in Commands
      PROVE  Read(o)
  <2>1. /\ newest \in Index /\ UNCHANGED <<newest, entitlement, changes>>
        /\ \A p \in Commands \ {c} : command'[p] = command[p]
        /\ command'[c].expects = entitlement[newest].version
        /\ command'[c].read = <<newest, entitlement[newest].base>> /\ command'[c].seen = changes
    BY <1>0, <1>1 DEF Send, Index, NoEntitlement
  <2>2. CASE o = c
    BY <1>0, <2>1, <2>2
  <2>3. CASE o # c
    BY <1>0, <2>1, <2>3 DEF ReadFits
  <2>4. QED BY <2>2, <2>3
<1>2. ASSUME NEW c \in Commands, NEW o \in Commands,
             \/ Repeat(c)
             \/ \E r : /\ command[c].at = "sent" /\ Reply(c, r) /\ UNCHANGED <<now, newest>>
                       /\ r \in Result \cup {result[c]} /\ (result[c] # None => r = result[c])
      PROVE  Read(o)
  <2>1. /\ command[c].at # "unused" /\ UNCHANGED <<newest, entitlement, changes>>
        /\ command' = [command EXCEPT ![c].at = "answered"]
           \/ command' = [command EXCEPT ![c].at = "sent"]
    BY <1>0, <1>2 DEF Repeat, Reply, Answered
  <2>2. /\ command'[o].read = command[o].read /\ command'[o].expects = command[o].expects
        /\ command'[o].seen = command[o].seen
        /\ command'[o].at # "unused" => command[o].at # "unused"
    BY <1>0, <2>1 DEF Command
  <2>3. QED BY <1>0, <2>1, <2>2 DEF ReadFits
<1>3. ASSUME NEW c \in Commands, NEW d, Applied(c, d), NEW o \in Commands
      PROVE  Read(o)
  <2>1. /\ command[c].at # "unused" /\ newest' = newest /\ changes' = changes + 1
        /\ command' = [command EXCEPT ![c].at = "answered"]
        /\ entitlement' = [entitlement EXCEPT ![newest].version = @ + 1]
    BY <1>0, <1>3 DEF Applied, Apply, Answered
  <2>2. /\ command'[o].read = command[o].read /\ command'[o].expects = command[o].expects
        /\ command'[o].seen = command[o].seen
        /\ command'[o].at # "unused" => command[o].at # "unused"
    BY <1>0, <2>1 DEF Command
  <2>3. newest \in Index
    BY <1>0, <2>1
  <2>4. /\ entitlement'[newest].base = entitlement[newest].base
        /\ entitlement'[newest].version = entitlement[newest].version + 1
    BY <1>0, <2>1, <2>3 DEF Entitlement
  <2>5. QED BY <1>0, <2>1, <2>2, <2>3, <2>4 DEF ReadFits
<1>4. ASSUME NEW o \in Commands, Entitle PROVE Read(o)
  <2>1. /\ UNCHANGED <<command, changes>> /\ newest' = newest + 1
    BY <1>4 DEF Entitle
  <2>2. QED BY <1>0, <2>1 DEF ReadFits
<1>5. ASSUME NEW o \in Commands, NEW status, Reconcile(status) PROVE Read(o)
  <2>1. newest \in Index
    BY <1>0, <1>5 DEF Reconcile, Index, NoEntitlement
  <2>2. /\ UNCHANGED <<command, changes, newest>>
        /\ entitlement'[newest].base = entitlement[newest].base + 1
    BY <1>0, <1>5, <2>1 DEF Reconcile
  <2>3. QED BY <1>0, <2>1, <2>2 DEF ReadFits
<1>6. ASSUME NEW o \in Commands, NEW k \in Index, CorrectEntitlement(k) PROVE Read(o)
  <2>1. /\ UNCHANGED <<command, changes, newest>>
        /\ entitlement' = [entitlement EXCEPT ![k].version = @ + 1]
    BY <1>6 DEF CorrectEntitlement
  <2>2. newest \in Index => /\ entitlement'[newest].base = entitlement[newest].base
                            /\ entitlement'[newest].version
                                  \in {entitlement[newest].version, entitlement[newest].version + 1}
                            /\ k # newest => entitlement'[newest] = entitlement[newest]
    BY <1>0, <2>1 DEF Entitlement
  <2>3. ASSUME newest \in Index, k = newest
        PROVE  entitlement'[newest].version = entitlement[newest].version + 1
    BY <1>0, <2>1, <2>3 DEF Entitlement
  <2>4. QED BY <1>0, <2>1, <2>2, <2>3 DEF ReadFits
<1>7. ASSUME NEW o \in Commands, UNCHANGED <<command, changes, newest, entitlement>> PROVE Read(o)
  BY <1>0, <1>7 DEF ReadFits
<1>8. ASSUME NEW o \in Commands PROVE Read(o)
  <2>1. ASSUME NEW c \in Commands, Client(c) PROVE Read(o)
    <3>1. CASE Execute(c)
      BY <1>2, <1>3, <3>1, ExecuteCases
    <3>2. CASE Repeat(c)
      BY <1>2, <3>2
    <3>3. CASE \E kind \in Kinds, b \in Bindings \cup {None}, pc \in PCs \cup {None},
                  e \in Exceptions \cup {None} : Send(c, kind, b, pc, e)
      BY <1>1, <3>3
    <3>4. QED BY <2>1, <3>1, <3>2, <3>3 DEF Client
  <2>2. CASE Others
    <3>1. CASE Tick \/ (\E e \in Exceptions : IssueException(e)) \/ \E b \in Bindings : RevokeByOperator(b)
      BY <1>7, <3>1 DEF Tick, IssueException, RevokeByOperator
    <3>2. QED BY <1>4, <1>5, <1>6, <2>2, <3>1 DEF Others
  <2>3. CASE UNCHANGED vars
    BY <1>7, <2>3 DEF vars
  <2>4. QED BY <2>1, <2>2, <2>3 DEF Next
<1>9. QED BY <1>8 DEF ReadsFit, ReadFits

-----------------------------------------------------------------------------
(***************************************************************************)
(* The table and the exceptions                                            *)
(***************************************************************************)
\* A command writes both records of a binding alike; an operator takes a PC from the table only.
LEMMA TablesStep ==
    TypeOK /\ CommandsFit /\ OneLatest /\ TablesAgree /\ [Next]_vars => TablesAgree'
<1> SUFFICES ASSUME TypeOK, CommandsFit, OneLatest, TablesAgree, [Next]_vars PROVE TablesAgree'
  OBVIOUS
<1>0. /\ table \subseteq {b \in Bindings : device[b].active}
      /\ interventions = 0 => table = {b \in Bindings : device[b].active}
      /\ interventions \in Nat
  BY DeviceAssumption DEF TablesAgree, TypeOK
<1>1. ASSUME NEW c \in Commands, NEW d, Applied(c, d) PROVE TablesAgree'
  <2>0. ASSUME NEW b \in Bindings, d # "revoke", b = command[c].binding PROVE device'[b].active
    <3>1. device'[b].active \/ (d # "revoke" => b # command[c].binding)
      BY <1>1, AppliedDevices
    <3>2. QED BY <2>0, <3>1
  <2> DEFINE gone == IF d = "bind" THEN {} ELSE Current(newest)
             came == IF d = "revoke" THEN {} ELSE {command[c].binding}
  <2>1. table' = (table \ gone) \cup came /\ interventions' = interventions
    BY <1>1 DEF Applied, Apply
  <2>2. came \subseteq Bindings
    BY <1>1, AppliedPlace
  <2>3. \A b \in Bindings :
            device'[b].active <=> b \in came \/ (b \notin gone /\ device[b].active)
    <3> SUFFICES ASSUME NEW b \in Bindings
                 PROVE  device'[b].active <=> b \in came \/ (b \notin gone /\ device[b].active)
      OBVIOUS
    <3>1. Unbound.active = FALSE
      BY DEF Unbound
    <3>2. CASE d # "revoke" /\ b = command[c].binding
      <4>1. device'[b].active
        BY <2>0, <3>2
      <4>2. QED BY <3>2, <4>1
    <3>3. CASE ~(d # "revoke" /\ b = command[c].binding)
      <4>1. b \notin came
        BY <3>3
      <4>2. CASE b \in gone
        BY <1>1, <3>3, <4>1, <4>2, AppliedDevices
      <4>3. CASE b \notin gone
        BY <1>1, <3>3, <4>1, <4>3, AppliedDevices
      <4>4. QED BY <4>2, <4>3
    <3>4. QED BY <3>2, <3>3
  <2> HIDE DEF gone, came
  <2>4. QED BY <1>0, <2>1, <2>2, <2>3 DEF TablesAgree
<1>2. ASSUME NEW b \in Bindings, RevokeByOperator(b) PROVE TablesAgree'
  BY <1>0, <1>2 DEF RevokeByOperator, Intervene, TablesAgree
<1>3. ASSUME table' = table, device' = device,
             interventions' = interventions \/ interventions' = interventions + 1
      PROVE  TablesAgree'
  BY <1>0, <1>3 DEF TablesAgree
<1>4. CASE \E c \in Commands : Client(c)
  <2>1. PICK c \in Commands : Client(c)
    BY <1>4
  <2>2. CASE Execute(c)
    BY <1>1, <1>3, <2>2, ExecuteCases DEF Reply
  <2>3. CASE ~Execute(c)
    BY <1>3, <2>1, <2>3 DEF Client, Send, Repeat
  <2>4. QED BY <2>2, <2>3
<1>5. CASE Others
  <2>1. CASE \E b \in Bindings : RevokeByOperator(b)
    BY <1>2, <2>1
  <2>2. CASE ~\E b \in Bindings : RevokeByOperator(b)
    BY <1>3, <1>5, <2>2 DEF Others, Tick, Entitle, Reconcile, IssueException, CorrectEntitlement,
                            Intervene
  <2>3. QED BY <2>1, <2>2
<1>6. CASE UNCHANGED vars
  BY <1>3, <1>6 DEF vars
<1>7. QED BY <1>4, <1>5, <1>6 DEF Next

\* What is redeemed is not spent yet, and is spent then.
LEMMA ExceptionsStep == TypeOK /\ ExceptionOnce /\ [Next]_vars => ExceptionOnce'
<1> SUFFICES ASSUME TypeOK, ExceptionOnce, [Next]_vars, NEW e \in Exceptions
             PROVE  redeemed'[e] <= 1 /\ (redeemed'[e] = 1 => exception'[e].consumed)
  BY DEF ExceptionOnce
<1>0. /\ exception \in [Exceptions -> Exception] /\ redeemed \in [Exceptions -> Nat]
      /\ redeemed[e] \in Nat /\ redeemed[e] <= 1 /\ (redeemed[e] = 1 => exception[e].consumed)
  BY DEF ExceptionOnce, TypeOK
<1>1. ASSUME NEW c \in Commands, NEW d, Applied(c, d)
      PROVE  redeemed'[e] <= 1 /\ (redeemed'[e] = 1 => exception'[e].consumed)
  <2>1. CASE d = "redeem" /\ e = command[c].exception
    <3>1. /\ exception' = [exception EXCEPT ![e].consumed = TRUE]
          /\ redeemed' = [redeemed EXCEPT ![e] = @ + 1]
      BY <1>1, <2>1 DEF Applied, Apply
    <3>2. ~exception[e].consumed
      BY <1>1, <2>1, DecisionRests DEF Applied, Usable
    <3>3. redeemed'[e] = 1
      BY <1>0, <3>1, <3>2
    <3>4. exception'[e].consumed
      BY <1>0, <3>1 DEF Exception
    <3>5. QED BY <3>3, <3>4
  <2>2. CASE ~(d = "redeem" /\ e = command[c].exception)
    <3>1. redeemed'[e] = redeemed[e] /\ exception'[e] = exception[e]
      BY <1>0, <1>1, <2>2 DEF Applied, Apply
    <3>2. QED BY <1>0, <3>1
  <2>3. QED BY <2>1, <2>2
<1>2. ASSUME NEW x \in Exceptions, IssueException(x)
      PROVE  redeemed'[e] = redeemed[e] /\ exception'[e].consumed = exception[e].consumed
  BY <1>0, <1>2 DEF IssueException, Exception
<1>3. CASE \E c \in Commands : Client(c)
  <2>1. PICK c \in Commands : Client(c)
    BY <1>3
  <2>2. CASE \E d : Applied(c, d)
    BY <1>1, <2>2
  <2>3. CASE ~\E d : Applied(c, d)
    <3>1. redeemed' = redeemed /\ exception' = exception
      BY <2>1, <2>3, ExecuteCases DEF Client, Send, Repeat, Reply
    <3>2. QED BY <1>0, <3>1
  <2>4. QED BY <2>2, <2>3
<1>4. CASE Others \/ UNCHANGED vars
  <2>1. CASE \E x \in Exceptions : IssueException(x)
    BY <1>0, <1>2, <2>1
  <2>2. CASE ~\E x \in Exceptions : IssueException(x)
    <3>1. redeemed' = redeemed /\ exception' = exception
      BY <1>4, <2>2 DEF Others, vars, Tick, Entitle, Reconcile, CorrectEntitlement, RevokeByOperator
    <3>2. QED BY <1>0, <3>1
  <2>3. QED BY <2>1, <2>2
<1>5. QED BY <1>3, <1>4 DEF Next

-----------------------------------------------------------------------------
(***************************************************************************)
(* The invariant, and what it is for                                       *)
(***************************************************************************)
\* DInv holds at the start: nothing is bound, nothing sent.
LEMMA InitInv == Init => DInv
<1> SUFFICES ASSUME Init PROVE DInv
  OBVIOUS
<1>1. CommandsFit
  BY DeviceAssumption DEF Init, CommandsFit, CommandFits, Unused, None
<1>2. DevicesFit /\ TablesAgree
  BY DEF Init, DevicesFit, Unbound, NoEntitlement, TablesAgree
<1>3. OneLatest
  BY DEF Init, OneLatest, Bound, Unbound, NoEntitlement, Index
<1>4. ReadsFit
  BY DEF Init, ReadsFit, ReadFits, Unused
<1>5. ExceptionOnce
  BY DEF Init, ExceptionOnce
<1>6. QED BY <1>1, <1>2, <1>3, <1>4, <1>5, InitType DEF DInv

\* DInv is kept by every step.
LEMMA StepInv == DInv /\ [Next]_vars => DInv'
BY TypeStep, CommandsStep, DevicesStep, LatestStep, ReadsStep, TablesStep, ExceptionsStep DEF DInv

\* DInv holds of every behaviour.
THEOREM Consistent == Spec => []DInv
BY InitInv, StepInv, PTL DEF Spec

\* Every variable keeps its type: device-binding.ts and its repository.
THEOREM TypeCorrect == Spec => []TypeOK
<1>1. DInv => TypeOK
  BY DEF DInv
<1>2. QED BY <1>1, Consistent, PTL

\* A command writes both records alike, and an operator only removes from the table.
THEOREM RecordsAgreeWithoutOperators == Spec => []TablesAgree
<1>1. DInv => TablesAgree
  BY DEF DInv
<1>2. QED BY <1>1, Consistent, PTL

\* consumeDeviceException is reached once for an exception, whatever commands name it.
THEOREM ExceptionsAreSpentOnce == Spec => []ExceptionOnce
<1>1. DInv => ExceptionOnce
  BY DEF DInv
<1>2. QED BY <1>1, Consistent, PTL

\* A set within a singleton has at most one element.
LEMMA AtMostOne ==
    ASSUME NEW S, NEW b, S \subseteq {b}
    PROVE  Cardinality(S) <= 1
<1>1. S = {} \/ S = {b}
  OBVIOUS
<1>2. Cardinality({}) = 0 /\ Cardinality({b}) = 1
  BY FS_EmptySet, FS_Singleton
<1>3. QED BY <1>1, <1>2

\* decideDeviceBinding never leaves two active PCs to an entitlement, in neither record, so the
\* unique index of device_bindings refuses no insertion.
THEOREM OnePC == Spec => []OneActivePC
<1>1. ASSUME DInv, NEW k \in Index
      PROVE  Cardinality(ActiveOf(k)) <= 1 /\ Cardinality(Bound(k) \cap table) <= 1
  <2>1. \E b : ActiveOf(k) \subseteq {b}
    BY <1>1, CurrentIsLatest DEF DInv, OneLatest, ActiveOf
  <2>2. Bound(k) \cap table \subseteq ActiveOf(k)
    BY <1>1 DEF DInv, TablesAgree, Bound, ActiveOf
  <2>3. QED BY <2>1, <2>2, AtMostOne
<1>2. DInv => OneActivePC
  BY <1>1 DEF OneActivePC
<1>3. QED BY <1>2, Consistent, PTL

\* A transfer replaces the latest binding, whose cooldown bounds that of every earlier one.
THEOREM ReplacementsWait == Spec => ReplacementWaits
<1>1. ASSUME DInv, [Next]_vars, NEW b \in Bindings, device'[b].active, ~device[b].active
      PROVE  \/ \A old \in Bound(device'[b].of) : now >= device[old].bound + Cooldown
             \/ \E e \in Exceptions : redeemed'[e] = redeemed[e] + 1
  <2>0. TypeOK /\ CommandsFit /\ OneLatest
    BY <1>1 DEF DInv
  <2>1. PICK c \in Commands : \E d : Applied(c, d)
    BY <1>1, <2>0, Steps
  <2>2. PICK d : Applied(c, d)
    BY <2>1
  <2>3. device'[b].of = newest /\ d # "revoke"
    BY <1>1, <2>0, <2>2, AppliedDevices
  <2>4. CASE d = "bind"
    BY <2>0, <2>2, <2>3, <2>4, AppliedPlace
  <2>5. CASE d = "replace"
    <3>1. PICK l \in Bindings : Latest(newest, l) /\ Current(newest) = {l}
      BY <2>0, <2>2, <2>5, AppliedPlace
    <3>2. now >= device[l].bound + Cooldown
      BY <2>2, <2>5, <3>1, DecisionRests DEF Applied, Eligible
    <3>3. \A old \in Bound(newest) : device[old].bound <= device[l].bound
      BY <2>0, <3>1 DEF Latest, Bound, TypeOK, Binding, Time
    <3>4. \A old \in Bound(newest) : now >= device[old].bound + Cooldown
      BY <2>0, <3>1, <3>2, <3>3, DeviceAssumption DEF Bound, TypeOK, Binding, Time
    <3>5. QED BY <2>3, <3>4
  <2>6. CASE d = "redeem"
    <3>1. Usable(command[c].exception)
      BY <2>2, <2>6, DecisionRests DEF Applied
    <3>2. command[c].exception \in Exceptions
      BY <2>0, <3>1 DEF Usable, TypeOK, Command
    <3>3. redeemed'[command[c].exception] = redeemed[command[c].exception] + 1
      BY <2>0, <2>2, <2>6, <3>2 DEF Applied, Apply, TypeOK
    <3>4. QED BY <3>2, <3>3
  <2>7. QED BY <2>2, <2>3, <2>4, <2>5, <2>6 DEF Applied
<1>2. DInv /\ [Next]_vars =>
        [\A b \in Bindings :
            device'[b].active /\ ~device[b].active =>
                \/ \A old \in Bound(device'[b].of) : now >= device[old].bound + Cooldown
                \/ \E e \in Exceptions : redeemed'[e] = redeemed[e] + 1]_vars
  BY <1>1
<1>3. QED BY <1>2, Consistent, PTL DEF Spec, ReplacementWaits

\* Of the decisions, only a revocation puts nothing in the place of the active binding.
THEOREM NobodyIsStranded == Spec => NeverStranded
<1>1. ASSUME DInv, [Next]_vars, NEW k \in Index, ActiveOf(k) # {},
             {b \in Bindings : device'[b].of = k /\ device'[b].active} = {}
      PROVE  \E c \in Commands : command[c].kind = "revoke" /\ command[c].at = "sent"
                                 /\ command'[c].at = "answered"
  <2>0. TypeOK /\ CommandsFit /\ OneLatest
    BY <1>1 DEF DInv
  <2>1. PICK a \in Bindings : device[a].of = k /\ device[a].active
    BY <1>1 DEF ActiveOf, Bound
  <2>2. device'[a] # device[a]
    BY <1>1, <2>1
  <2>3. PICK c \in Commands : \E d : Applied(c, d)
    BY <2>0, <1>1, <2>2, Steps
  <2>4. PICK d : Applied(c, d)
    BY <2>3
  <2>5. a \in Current(newest) /\ k = newest
    BY <2>0, <2>1, <2>2, <2>4, AppliedDevices DEF Unbound
  <2>6. d = "revoke"
    <3>1. SUFFICES ASSUME d # "revoke" PROVE FALSE
      OBVIOUS
    <3>2. /\ command[c].binding \in Bindings
          /\ device'[command[c].binding].of = newest /\ device'[command[c].binding].active
      <4>1. command[c].binding \in Bindings
        BY <2>0, <2>4, <3>1, AppliedPlace
      <4>2. device'[command[c].binding] =
                [of |-> newest, pc |-> command[c].pc, bound |-> now, active |-> TRUE,
                 updated |-> changes + 1]
        BY <2>0, <2>4, <3>1, <4>1, AppliedDevices
      <4>3. QED BY <4>1, <4>2
    <3>3. QED BY <1>1, <2>5, <3>2
  <2>7. command[c].kind = "revoke"
    BY <2>4, <2>6, DecisionRests DEF Applied
  <2>8. command[c].at = "sent" /\ command'[c].at = "answered"
    BY <2>0, <2>4 DEF Applied, Apply, Answered, TypeOK, Command
  <2>9. QED BY <2>7, <2>8
<1>2. DInv /\ [Next]_vars =>
        [\A k \in Index :
            ActiveOf(k) # {} /\ {b \in Bindings : device'[b].of = k /\ device'[b].active} = {} =>
                \E c \in Commands : command[c].kind = "revoke" /\ command[c].at = "sent"
                                    /\ command'[c].at = "answered"]_vars
  BY <1>1
<1>3. QED BY <1>2, Consistent, PTL DEF Spec, NeverStranded

\* executeDeviceMutation answers a repeated command from its result, before it looks at versions.
THEOREM CommandsAreCarriedOutOnce == Spec => CarriedOutOnce
<1>1. ASSUME DInv, [Next]_vars, NEW c \in Commands, result[c] # None, command'[c] # command[c]
      PROVE  changes' = changes /\ result'[c] = result[c]
  <2>0. TypeOK
    BY <1>1 DEF DInv
  <2>1. command' # command
    BY <1>1
  <2>2. PICK o \in Commands : Client(o)
    BY <1>1, <2>1 DEF Next, vars, Others, Tick, Entitle, Reconcile, IssueException,
                      CorrectEntitlement, RevokeByOperator
  <2>3. o = c
    BY <1>1, <2>0, <2>2 DEF Client, Send, Repeat, Execute, Reply, Apply, Answered, TypeOK
  <2>4. CASE Execute(c)
    <3>1. ~\E d : Applied(c, d)
      BY <1>1 DEF Applied
    <3>2. Reply(c, result[c])
      BY <1>1, <2>4, <3>1, ExecuteCases
    <3>3. QED BY <2>0, <3>2 DEF Reply, Answered, TypeOK
  <2>5. CASE ~Execute(c)
    BY <2>2, <2>3, <2>5 DEF Client, Send, Repeat
  <2>6. QED BY <2>4, <2>5
<1>2. DInv /\ [Next]_vars =>
        [\A c \in Commands : result[c] # None /\ command'[c] # command[c] =>
              changes' = changes /\ result'[c] = result[c]]_vars
  BY <1>1
<1>3. QED BY <1>2, Consistent, PTL DEF Spec, CarriedOutOnce

\* Between two reconciliations the expected version stands for the bindings the client had read.
THEOREM StaleCommandsNeedAReconciliation == Spec => StaleOnlyIfReconciled
<1>1. ASSUME DInv, [Next]_vars, NEW c \in Commands, changes' # changes, command'[c] # command[c],
             command[c].read = <<newest, entitlement[newest].base>>
      PROVE  command[c].seen = changes
  <2>0. TypeOK
    BY <1>1 DEF DInv
  <2>1. PICK o \in Commands : \E d : Applied(o, d)
    BY <1>1, <2>0, Steps
  <2>2. o = c
    BY <1>1, <2>0, <2>1 DEF Applied, Apply, Answered, TypeOK
  <2>3. command[c].at = "sent" /\ command[c].expects = entitlement[newest].version
    BY <2>1, <2>2 DEF Applied
  <2>4. QED BY <1>1, <2>3 DEF DInv, ReadsFit, ReadFits
<1>2. DInv /\ [Next]_vars =>
        [\A c \in Commands :
            changes' # changes /\ command'[c] # command[c]
            /\ command[c].read = <<newest, entitlement[newest].base>> =>
                command[c].seen = changes]_vars
  BY <1>1
<1>3. QED BY <1>2, Consistent, PTL DEF Spec, StaleOnlyIfReconciled

=============================================================================
