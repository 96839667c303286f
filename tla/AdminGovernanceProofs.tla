------------------------- MODULE AdminGovernanceProofs -------------------------
(***************************************************************************)
(* Proofs about AdminGovernance for every set of members, requests and     *)
(* delegations, any number of commands in progress, and any lengths of the *)
(* approval window and of a delegation.                                    *)
(*                                                                         *)
(* The strengthening GInv adds what a command in progress keeps of the     *)
(* state its authorization read: CommandsFit is about its fields, and      *)
(* ReadsFit says that a membership whose version is still the one read is  *)
(* the membership that was read.                                           *)
(***************************************************************************)
EXTENDS AdminGovernance, FiniteSetTheorems, TLAPS

CommandFits(c) ==
    /\ c.op # None => c.actor \in Members
    /\ c.op = "request" => c.assigned \notin {c.actor, c.who}
    /\ c.op \in {"activate", "expire", "offboard", "review"} => c.request = None
CommandsFit == \A s \in Slots : CommandFits(slot[s])

ReadFits(c) ==
    c.op = "change" =>
        /\ c.who \in Members
        /\ c.read.version <= membership[c.who].version
        /\ c.read.version = membership[c.who].version => membership[c.who] = c.read
ReadsFit == \A s \in Slots : ReadFits(slot[s])

GInv == TypeOK /\ CommandsFit /\ ReadsFit /\ ApproverIndependent

-----------------------------------------------------------------------------
(***************************************************************************)
(* Commands                                                                *)
(***************************************************************************)
\* Every command an actor may give is well formed and carries what its actor has read.
LEMMA OrdersFit ==
    ASSUME TypeOK, NEW m \in Members, NEW op \in Operations, NEW o \in Orders(op, m),
           op = "request" => o.assigned # o.who
    PROVE  LET c == [o EXCEPT !.read = Read(o)]
           IN  c \in Command /\ CommandFits(c) /\ ReadFits(c)
<1> DEFINE c == [o EXCEPT !.read = Read(o)]
<1>1. /\ o.op = op /\ o.actor = m /\ o.at = now
      /\ o.who \in Members \cup {None}
      /\ op \in {"change", "offboard"} => o.who \in Members
      /\ op = "request" => o.assigned # m /\ o.assigned # o.who
      /\ op \in {"activate", "expire", "offboard", "review"} => o.request = None
  BY GovernanceAssumption DEF Orders
<1>2. /\ o.functions \in SUBSET Functions /\ o.request \in Requests \cup {None}
      /\ o.subject \in Subjects \cup {None} /\ o.assigned \in Members \cup {None}
      /\ o.delegation \in Delegations \cup {None}
  BY DEF Orders
<1>3. c = [op |-> op, actor |-> m, at |-> now, read |-> Read(o), who |-> o.who,
           functions |-> o.functions, request |-> o.request, subject |-> o.subject,
           assigned |-> o.assigned, delegation |-> o.delegation]
  BY <1>1 DEF Orders
<1>4. /\ Read(o) \in Membership
      /\ op = "change" => Read(o) = membership[o.who] /\ Read(o).version \in Nat
  <2>1. \A w \in Members : membership[w] \in Membership /\ membership[w].version \in Nat
    BY DEF TypeOK, Membership
  <2>2. Stranger \in Membership
    BY DEF Stranger, Membership
  <2>3. QED BY <1>1, <2>1, <2>2 DEF Read
<1> HIDE DEF c
<1>5. now \in Time
  BY DEF TypeOK
<1>6. c \in Command
  BY <1>1, <1>2, <1>3, <1>4, <1>5 DEF Command
<1>7. CommandFits(c)
  BY <1>1, <1>3 DEF CommandFits
<1>8. ReadFits(c)
  BY <1>1, <1>3, <1>4 DEF ReadFits
<1>9. QED BY <1>6, <1>7, <1>8 DEF c

\* Idle is a command, and a good one.
LEMMA IdleFits == Idle \in Command /\ CommandFits(Idle) /\ ReadFits(Idle)
BY GovernanceAssumption
   DEF Idle, Command, CommandFits, ReadFits, None, Time, Stranger, Membership, Operations

\* A transaction frees its slot, whether it is committed or refused, and moves nothing else but
\* what it writes.
LEMMA TransactionFrees ==
    ASSUME NEW s \in Slots, Execute(s) \/ Refuse(s)
    PROVE  /\ slot' = [slot EXCEPT ![s] = Idle]
           /\ UNCHANGED <<now, issued>>
BY DEF Execute, Refuse, Commit, Activate, Change, Delegate, Expire, Request, Approve, Cancel,
       Reassign, Leave

-----------------------------------------------------------------------------
(***************************************************************************)
(* Types                                                                   *)
(***************************************************************************)
\* The open requests of a person lapse, and stay requests.
LEMMA WithdrawnType ==
    ASSUME approval \in [Requests -> Approval], NEW m
    PROVE  Withdrawn(m) \in [Requests -> Approval]
BY DEF Withdrawn, Approval

\* The delegations of a person end, and stay delegations.
LEMMA RecalledType ==
    ASSUME delegation \in [Delegations -> Delegation], NEW m
    PROVE  Recalled(m) \in [Delegations -> Delegation]
BY DEF Recalled, Delegation

\* A request that is decided or given to another is a request.
LEMMA RedecidedType ==
    ASSUME NEW p \in Approval, NEW m \in Members \cup {None}
    PROVE  /\ [p EXCEPT !.status = "approved", !.approver = m] \in Approval
           /\ [p EXCEPT !.status = "cancelled"] \in Approval
           /\ [p EXCEPT !.assigned = m] \in Approval
<1>1. [p EXCEPT !.status = "approved", !.approver = m] \in Approval
  BY DEF Approval
<1>2. [p EXCEPT !.status = "cancelled"] \in Approval
  BY DEF Approval
<1>3. [p EXCEPT !.assigned = m] \in Approval
  BY DEF Approval
<1>4. QED BY <1>1, <1>2, <1>3

\* A membership that is written again is a membership, of a later version.
LEMMA RewrittenType ==
    ASSUME NEW r \in Membership, NEW f \in SUBSET Functions,
           NEW status \in {"offboarded", "suspended"}
    PROVE  /\ [r EXCEPT !.functions = f, !.version = @ + 1] \in Membership
           /\ [r EXCEPT !.status = status, !.version = @ + 1] \in Membership
<1> DEFINE n == r.version + 1
<1>1. n \in Nat
  BY DEF Membership
<1> HIDE DEF n
<1>2. /\ [r EXCEPT !.functions = f, !.version = n] \in Membership
      /\ [r EXCEPT !.status = status, !.version = n] \in Membership
  BY <1>1 DEF Membership
<1>3. QED BY <1>2 DEF n

\* The first state is well typed: the founders' memberships, nothing asked, nothing delegated.
LEMMA InitType == Init => TypeOK
<1> SUFFICES ASSUME Init PROVE TypeOK
  OBVIOUS
<1> USE GovernanceAssumption DEF Init
<1>1. now \in Time /\ issued \in 0 .. MaxCommands
  BY DEF Time
<1>2. membership \in [Members -> Membership]
  BY DEF Membership, Stranger
<1>3. approval \in [Requests -> Approval]
  BY DEF Approval, Unasked, None
<1>4. delegation \in [Delegations -> Delegation]
  BY DEF Delegation, Undelegated, None
<1>5. slot \in [Slots -> Command]
  BY IdleFits
<1>6. QED BY <1>1, <1>2, <1>3, <1>4, <1>5 DEF TypeOK

\* A transaction leaves memberships, requests and delegations well typed.
LEMMA ExecuteType ==
    ASSUME TypeOK, NEW s \in Slots, Execute(s)
    PROVE  /\ membership' \in [Members -> Membership]
           /\ approval' \in [Requests -> Approval]
           /\ delegation' \in [Delegations -> Delegation]
<1> DEFINE c == slot[s]
<1>0. /\ membership \in [Members -> Membership]
      /\ approval \in [Requests -> Approval]
      /\ delegation \in [Delegations -> Delegation]
      /\ c \in Command
  BY DEF TypeOK
<1>c. /\ c.actor \in Members \cup {None} /\ c.who \in Members \cup {None}
      /\ c.assigned \in Members \cup {None} /\ c.subject \in Subjects \cup {None}
      /\ c.functions \in SUBSET Functions /\ c.at \in Nat
  BY <1>0, GovernanceAssumption DEF Command, Time
<1>v. Validity \in Nat /\ Window \in Nat
  BY GovernanceAssumption
<1> HIDE DEF c
<1>1. CASE Activate(s)
  BY <1>0, <1>1, <1>c DEF Activate, Membership, c
<1>2. CASE Change(s)
  <2>1. membership' \in [Members -> Membership]
BY <1>0, <1>2, <1>c, RewrittenType DEF Change, Changing, c
  <2>2. QED BY <1>0, <1>2, <2>1, WithdrawnType DEF Change
<1>3. CASE Delegate(s)
  <2>1. [status |-> "active", from |-> c.actor, to |-> c.who, expires |-> c.at + Validity]
            \in Delegation
    BY <1>c, <1>v DEF Delegation
  <2>2. QED BY <1>0, <1>3, <2>1 DEF Delegate, c
<1>4. CASE Expire(s)
  BY <1>0, <1>4 DEF Expire, Delegation
<1>5. CASE Request(s)
  <2>1. [status |-> "pending", author |-> c.actor, beneficiary |-> c.who,
         assigned |-> c.assigned, approver |-> None, subject |-> c.subject,
         expires |-> c.at + Window] \in Approval
    BY <1>c, <1>v DEF Approval
  <2>2. QED BY <1>0, <1>5, <2>1 DEF Request, c
<1>6. CASE Approve(s)
  <2>1. approval' \in [Requests -> Approval]
    BY <1>0, <1>6, <1>c, RedecidedType DEF Approve, c
  <2>2. QED BY <1>0, <1>6, <2>1 DEF Approve
<1>7. CASE Cancel(s)
  <2>1. approval' \in [Requests -> Approval]
    BY <1>0, <1>7, <1>c, RedecidedType DEF Cancel, c
  <2>2. QED BY <1>0, <1>7, <2>1 DEF Cancel
<1>8. CASE Reassign(s)
  <2>1. approval' \in [Requests -> Approval]
    BY <1>0, <1>8, <1>c, RedecidedType DEF Reassign, c
  <2>2. QED BY <1>0, <1>8, <2>1 DEF Reassign
<1>9. ASSUME NEW op, NEW status \in {"offboarded", "suspended"}, Leave(s, op, status)
      PROVE  /\ membership' \in [Members -> Membership]
             /\ approval' \in [Requests -> Approval]
             /\ delegation' \in [Delegations -> Delegation]
  <2>1. membership' \in [Members -> Membership]
    BY <1>0, <1>9, RewrittenType DEF Leave, Leaving
  <2>2. QED BY <1>0, <1>9, <2>1, WithdrawnType, RecalledType DEF Leave
<1>10. QED
  BY <1>1, <1>2, <1>3, <1>4, <1>5, <1>6, <1>7, <1>8, <1>9 DEF Execute

\* Authorizations, transactions and the clock keep the types.
LEMMA TypeStep == TypeOK /\ [Next]_vars => TypeOK'
<1> SUFFICES ASSUME TypeOK, [Next]_vars PROVE TypeOK'
  OBVIOUS
<1>1. CASE Tick
  BY <1>1, GovernanceAssumption DEF Tick, TypeOK, Time
<1>2. ASSUME NEW s \in Slots, Start(s) PROVE TypeOK'
  <2>1. PICK m \in Members, op \in Operations : \E c \in Orders(op, m) :
            /\ op = "request" => c.assigned # c.who
            /\ slot' = [slot EXCEPT ![s] = [c EXCEPT !.read = Read(c)]]
    BY <1>2 DEF Start
  <2>2. slot' \in [Slots -> Command]
    BY <2>1, OrdersFit DEF TypeOK
  <2>3. issued' \in 0 .. MaxCommands
    BY <1>2, GovernanceAssumption DEF Start, TypeOK
  <2>4. QED BY <1>2, <2>2, <2>3 DEF Start, TypeOK
<1>3. ASSUME NEW s \in Slots, Execute(s) PROVE TypeOK'
  <2>1. slot' \in [Slots -> Command]
    BY <1>3, TransactionFrees, IdleFits DEF TypeOK
  <2>2. UNCHANGED <<now, issued>>
    BY <1>3, TransactionFrees
  <2>3. QED BY <1>3, <2>1, <2>2, ExecuteType DEF TypeOK
<1>4. ASSUME NEW s \in Slots, Refuse(s) PROVE TypeOK'
  <2>1. slot' \in [Slots -> Command]
    BY <1>4, TransactionFrees, IdleFits DEF TypeOK
  <2>2. QED BY <1>4, <2>1 DEF Refuse, TypeOK
<1>5. CASE UNCHANGED vars
  BY <1>5 DEF vars, TypeOK
<1>6. QED BY <1>1, <1>2, <1>3, <1>4, <1>5 DEF Next

-----------------------------------------------------------------------------
(***************************************************************************)
(* What commands in progress have read                                     *)
(***************************************************************************)
\* A command that enters a slot is well formed, and does not change there.
LEMMA FitStep == TypeOK /\ CommandsFit /\ [Next]_vars => CommandsFit'
<1> SUFFICES ASSUME TypeOK, CommandsFit, [Next]_vars PROVE CommandsFit'
  OBVIOUS
<1> DEFINE Fit(f) == \A s \in Slots : CommandFits(f[s])
<1>1. ASSUME NEW s \in Slots, Start(s) PROVE Fit(slot')
  <2>1. PICK m \in Members, op \in Operations : \E c \in Orders(op, m) :
            /\ op = "request" => c.assigned # c.who
            /\ slot' = [slot EXCEPT ![s] = [c EXCEPT !.read = Read(c)]]
    BY <1>1 DEF Start
  <2>2. PICK n : CommandFits(n) /\ slot' = [slot EXCEPT ![s] = n]
    BY <2>1, OrdersFit
  <2>3. QED BY <2>2 DEF CommandsFit, TypeOK
<1>2. ASSUME NEW s \in Slots, Execute(s) \/ Refuse(s) PROVE Fit(slot')
  BY <1>2, TransactionFrees, IdleFits DEF CommandsFit, TypeOK
<1>3. CASE Tick \/ UNCHANGED vars
  BY <1>3 DEF Tick, vars, CommandsFit
<1>4. Fit(slot')
  BY <1>1, <1>2, <1>3 DEF Next, CommandsFit
<1>5. QED BY <1>4 DEF CommandsFit, CommandFits

\* A membership that is written gets a later version: an activation finds a stranger.
LEMMA VersionGrows ==
    ASSUME TypeOK, [Next]_vars, NEW m \in Members
    PROVE  membership'[m] = membership[m] \/ membership'[m].version > membership[m].version
<1>0. membership \in [Members -> Membership] /\ membership[m].version \in Nat
  BY DEF TypeOK, Membership
<1>1. ASSUME NEW s \in Slots, Activate(s)
      PROVE  membership'[m] = membership[m] \/ membership'[m].version > membership[m].version
  BY <1>0, <1>1 DEF Activate, Commit, Admitted, Stranger
<1>2. ASSUME NEW s \in Slots, Change(s)
      PROVE  membership'[m] = membership[m] \/ membership'[m].version > membership[m].version
  <2>1. membership'[m] = membership[m] \/ membership'[m].version = membership[m].version + 1
    BY <1>0, <1>2 DEF Change, Changing, Membership
  <2>2. QED BY <1>0, <2>1
<1>3. ASSUME NEW s \in Slots, NEW op, NEW status, Leave(s, op, status)
      PROVE  membership'[m] = membership[m] \/ membership'[m].version > membership[m].version
  <2>1. membership'[m] = membership[m] \/ membership'[m].version = membership[m].version + 1
    BY <1>0, <1>3 DEF Leave, Leaving, Membership
  <2>2. QED BY <1>0, <2>1
<1>4. ASSUME \/ UNCHANGED vars \/ Tick
             \/ \E s \in Slots : \/ Start(s) \/ Refuse(s) \/ Delegate(s) \/ Expire(s)
                                 \/ Request(s) \/ Approve(s) \/ Cancel(s) \/ Reassign(s)
      PROVE  membership'[m] = membership[m]
  BY <1>4 DEF vars, Tick, Start, Refuse, Delegate, Expire, Request, Approve, Cancel, Reassign
<1>5. QED BY <1>1, <1>2, <1>3, <1>4 DEF Next, Execute

\* What a command has read ages with the version: a transaction between them raises it.
LEMMA ReadStep == TypeOK /\ ReadsFit /\ [Next]_vars => ReadsFit'
<1> SUFFICES ASSUME TypeOK, ReadsFit, [Next]_vars, NEW s \in Slots PROVE ReadFits(slot[s])'
  BY DEF ReadsFit
<1>0. TypeOK' /\ slot[s] \in Command
  BY TypeStep DEF TypeOK
<1>1. CASE slot'[s] = slot[s]
  <2> SUFFICES ASSUME slot[s].op = "change"
               PROVE  /\ slot[s].who \in Members
                      /\ slot[s].read.version <= membership'[slot[s].who].version
                      /\ slot[s].read.version = membership'[slot[s].who].version
                            => membership'[slot[s].who] = slot[s].read
    BY <1>1 DEF ReadFits
  <2> DEFINE w == slot[s].who
  <2>1. /\ w \in Members
        /\ slot[s].read.version <= membership[w].version
        /\ slot[s].read.version = membership[w].version => membership[w] = slot[s].read
    BY DEF ReadsFit, ReadFits
  <2>2. membership'[w] = membership[w] \/ membership'[w].version > membership[w].version
    BY <2>1, VersionGrows
  <2>3. /\ membership[w].version \in Nat /\ membership'[w].version \in Nat
        /\ slot[s].read.version \in Nat
    BY <1>0, <2>1 DEF TypeOK, Membership, Command
  <2>4. QED BY <2>1, <2>2, <2>3
<1>2. CASE slot'[s] # slot[s]
  <2>1. ASSUME Tick \/ UNCHANGED vars PROVE FALSE
    BY <1>2, <2>1 DEF Tick, vars
  <2>2. ASSUME NEW t \in Slots, Execute(t) \/ Refuse(t) PROVE slot'[s] = Idle
    BY <1>2, <2>2, TransactionFrees DEF TypeOK
  <2>3. ASSUME NEW t \in Slots, Start(t) PROVE ReadFits(slot'[s]) /\ membership' = membership
    <3>1. PICK m \in Members, op \in Operations : \E c \in Orders(op, m) :
              /\ op = "request" => c.assigned # c.who
              /\ slot' = [slot EXCEPT ![t] = [c EXCEPT !.read = Read(c)]]
      BY <2>3 DEF Start
    <3>2. PICK n : ReadFits(n) /\ slot' = [slot EXCEPT ![t] = n]
      BY <3>1, OrdersFit
    <3>3. QED BY <1>2, <2>3, <3>2 DEF TypeOK, Start
  <2>4. slot'[s] = Idle \/ (ReadFits(slot'[s]) /\ membership' = membership)
    BY <1>2, <2>1, <2>2, <2>3 DEF Next
  <2>5. QED BY <2>4 DEF ReadFits, Idle, None
<1>3. QED BY <1>1, <1>2

-----------------------------------------------------------------------------
(***************************************************************************)
(* Approvals                                                               *)
(***************************************************************************)
\* What ApproverIndependent says of one request.
Separated(p) ==
    p.status # "none" =>
        /\ p.author # p.assigned /\ p.beneficiary # p.assigned
        /\ (p.status = "approved") = (p.approver # None)
        /\ p.approver # None => /\ p.approver \notin {p.author, p.beneficiary}
                                /\ p.assigned \in {None, p.approver}

\* The open requests that lapse stay separated, and a decided one is left alone.
LEMMA WithdrawnSeparated ==
    ASSUME TypeOK, NEW m, NEW r \in Requests, Separated(approval[r])
    PROVE  /\ Separated(Withdrawn(m)[r])
           /\ approval[r].status # "pending" => Withdrawn(m)[r] = approval[r]
BY DEF Withdrawn, Separated, TypeOK, Approval

\* Requests, decisions, reassignments and withdrawals keep the approver apart from the others.
LEMMA IndependentStep ==
    TypeOK /\ CommandsFit /\ ApproverIndependent /\ [Next]_vars => ApproverIndependent'
<1> SUFFICES ASSUME TypeOK, CommandsFit, ApproverIndependent, [Next]_vars, NEW r \in Requests
             PROVE  Separated(approval'[r])
  BY DEF ApproverIndependent, Separated
<1>0. approval \in [Requests -> Approval] /\ Separated(approval[r])
  BY DEF ApproverIndependent, Separated, TypeOK
<1>1. ASSUME NEW s \in Slots, Request(s) PROVE Separated(approval'[r])
  <2>1. slot[s].assigned \notin {slot[s].actor, slot[s].who}
    BY <1>1 DEF Request, Commit, CommandsFit, CommandFits
  <2>2. QED BY <1>0, <1>1, <2>1 DEF Request, Separated
<1>2. ASSUME NEW s \in Slots, Approve(s) PROVE Separated(approval'[r])
  <2>1. slot[s].actor # None
    BY <1>2, GovernanceAssumption DEF Approve, Commit, CommandsFit, CommandFits, None
  <2>2. CASE r = slot[s].request
    <3>1. /\ approval[r].status = "pending" /\ MayDecide(approval[r], slot[s].actor)
          /\ approval'[r] = [approval[r] EXCEPT !.status = "approved", !.approver = slot[s].actor]
      BY <1>0, <1>2, <2>2 DEF Approve, Commit, Admitted
    <3>2. QED BY <1>0, <2>1, <3>1 DEF MayDecide, Separated, Approval
  <2>3. CASE r # slot[s].request
    BY <1>0, <1>2, <2>3 DEF Approve
  <2>4. QED BY <2>2, <2>3
<1>3. ASSUME NEW s \in Slots, Cancel(s) PROVE Separated(approval'[r])
  BY <1>0, <1>3 DEF Cancel, Commit, Admitted, Separated, Approval
<1>4. ASSUME NEW s \in Slots, Reassign(s) PROVE Separated(approval'[r])
  BY <1>0, <1>4 DEF Reassign, Commit, Admitted, Separated, Approval
<1>5. ASSUME NEW s \in Slots, Change(s) \/ \E op, status : Leave(s, op, status)
      PROVE  Separated(approval'[r])
  <2>1. approval' = Withdrawn(slot[s].who)
    BY <1>5 DEF Change, Leave
  <2>2. QED BY <1>0, <2>1, WithdrawnSeparated
<1>6. ASSUME \/ UNCHANGED vars \/ Tick
             \/ \E s \in Slots : \/ Start(s) \/ Refuse(s) \/ Delegate(s) \/ Expire(s)
                                 \/ Activate(s)
      PROVE  Separated(approval'[r])
  BY <1>0, <1>6 DEF vars, Tick, Start, Refuse, Delegate, Expire, Activate
<1>7. QED BY <1>1, <1>2, <1>3, <1>4, <1>5, <1>6 DEF Next, Execute

-----------------------------------------------------------------------------
(***************************************************************************)
(* The invariant, and what it is for                                       *)
(***************************************************************************)
\* GInv holds at the start.
LEMMA InitInv == Init => GInv
<1> SUFFICES ASSUME Init PROVE GInv
  OBVIOUS
<1>1. CommandsFit /\ ReadsFit
  BY IdleFits DEF Init, CommandsFit, ReadsFit
<1>2. ApproverIndependent
  BY DEF Init, ApproverIndependent, Unasked
<1>3. QED BY <1>1, <1>2, InitType DEF GInv

\* GInv is kept by every step.
LEMMA StepInv == GInv /\ [Next]_vars => GInv'
BY TypeStep, FitStep, ReadStep, IndependentStep DEF GInv

\* GInv holds of every behaviour.
THEOREM Governed == Spec => []GInv
BY InitInv, StepInv, PTL DEF Spec

\* Every variable keeps its type, of every command its fields: admin-governance.ts.
THEOREM TypeCorrect == Spec => []TypeOK
<1>1. GInv => TypeOK
  BY DEF GInv
<1>2. QED BY <1>1, Governed, PTL

\* decideApproval and reassignApproval, over every order of transactions: whoever decides a
\* request or is to decide it neither made it nor gains by it.
THEOREM ApproversAreIndependent == Spec => []ApproverIndependent
<1>1. GInv => ApproverIndependent
  BY DEF GInv
<1>2. QED BY <1>1, Governed, PTL

\* A critical transaction in a slot is the transaction of that slot's command.
LEMMA SlotActs ==
    ASSUME TypeOK, [Next]_vars, NEW s \in Slots, slot'[s] # slot[s], slot[s] # Idle
    PROVE  Execute(s) \/ (Refuse(s) /\ UNCHANGED <<membership, approval, delegation>>)
<1>1. ASSUME NEW t \in Slots, Execute(t) \/ Refuse(t) PROVE t = s
  BY <1>1, TransactionFrees DEF TypeOK
<1>2. ASSUME NEW t \in Slots PROVE ~Start(t)
  <2>1. SUFFICES ASSUME Start(t) PROVE FALSE
    OBVIOUS
  <2>2. slot[t] = Idle /\ \E n : slot' = [slot EXCEPT ![t] = n]
    BY <2>1 DEF Start
  <2>3. QED BY <2>2 DEF TypeOK
<1>3. ~Tick /\ ~UNCHANGED vars
  BY DEF Tick, vars
<1>4. QED BY <1>1, <1>2, <1>3 DEF Next, Refuse

\* applyPermissionChange and createDelegation consume an approval of a third person, granted for
\* their kind of change, whatever other commands ran between authorization and transaction.
THEOREM CriticalChangesTakeTwoPeople == Spec => TwoPeople
<1> DEFINE Two(s) ==
        slot'[s] # slot[s] /\ slot[s].request # None
        /\ (membership' # membership \/ delegation' # delegation) =>
            ByAnother(approval[slot[s].request], slot[s])
<1>1. ASSUME GInv, [Next]_vars, NEW s \in Slots PROVE Two(s)
  <2> SUFFICES ASSUME slot'[s] # slot[s], slot[s].request # None,
                      membership' # membership \/ delegation' # delegation
               PROVE  ByAnother(approval[slot[s].request], slot[s])
    OBVIOUS
  <2> DEFINE p == approval[slot[s].request]
  <2>1. slot[s] # Idle
    BY DEF Idle
  <2>2. Execute(s)
    BY <1>1, <2>1, SlotActs DEF GInv
  <2>3. slot[s].op \notin {"activate", "expire", "offboard", "review"}
    BY <1>1 DEF GInv, CommandsFit, CommandFits
  <2>4. Change(s) \/ Delegate(s)
    BY <2>2, <2>3 DEF Execute, Activate, Expire, Leave, Commit, Request, Approve, Cancel, Reassign
  <2>5. PICK subject : Independent(slot[s], subject)
    BY <2>4 DEF Change, Delegate, Commit, Admitted, Granted
  <2>6. /\ p.status = "approved"
        /\ p.approver \notin {slot[s].actor, slot[s].who, p.author}
    BY <2>5 DEF Independent
  <2>7. slot[s].request \in Requests
    BY <1>1 DEF GInv, TypeOK, Command
  <2>8. p.approver # p.beneficiary
    BY <1>1, <2>6, <2>7, Zenon DEF GInv, ApproverIndependent
  <2>9. Cardinality({p.approver, slot[s].actor}) = 2
    <3>1. Cardinality({p.approver}) = 1 /\ IsFiniteSet({p.approver})
      BY FS_Singleton
    <3>2. {p.approver, slot[s].actor} = {p.approver} \cup {slot[s].actor}
      OBVIOUS
    <3>3. slot[s].actor \notin {p.approver}
      BY <2>6
    <3>4. Cardinality({p.approver} \cup {slot[s].actor}) = Cardinality({p.approver}) + 1
      BY <3>1, <3>3, FS_AddElement
    <3>5. QED BY <3>1, <3>2, <3>4
  <2>10. QED BY <2>6, <2>8, <2>9 DEF ByAnother
<1>2. ASSUME GInv, [Next]_vars PROVE \A s \in Slots : Two(s)
  BY <1>1, <1>2
<1>3. GInv /\ [Next]_vars => [\A s \in Slots : Two(s)]_vars
  BY <1>2
<1>4. QED BY <1>3, Governed, PTL DEF Spec, TwoPeople

\* applyPermissionChange carries out what its preview showed: the version it expects stands for
\* the whole membership, the status as well as the functions.
THEOREM PreviewsAreCurrent == Spec => PreviewedIsCurrent
<1>1. ASSUME GInv, [Next]_vars, NEW s \in Slots,
             slot[s].op = "change", slot'[s] # slot[s], membership' # membership
      PROVE  membership[slot[s].who] = slot[s].read
  <2>1. Execute(s)
    BY <1>1, SlotActs DEF GInv, Idle, None
  <2>2. Change(s)
    BY <1>1, <2>1 DEF Execute, Commit, Activate, Delegate, Expire, Request, Approve, Cancel,
                      Reassign, Leave
  <2>3. membership[slot[s].who].version = slot[s].read.version
    BY <1>1, <2>2 DEF Change, Commit, Admitted, Fresh
  <2>4. QED BY <1>1, <2>3 DEF GInv, ReadsFit, ReadFits
<1>2. GInv /\ [Next]_vars =>
        [\A s \in Slots :
            slot[s].op = "change" /\ slot'[s] # slot[s] /\ membership' # membership =>
                membership[slot[s].who] = slot[s].read]_vars
  BY <1>1
<1>3. QED BY <1>2, Governed, PTL DEF Spec, PreviewedIsCurrent

\* decideApproval, cancelApproval, reassignApproval and the withdrawals write open requests only:
\* a decision stands as it was taken.
THEOREM RequestsAreDecidedOnce == Spec => DecidedOnce
<1>1. ASSUME GInv, [Next]_vars, NEW r \in Requests,
             approval[r].status \in {"approved", "cancelled", "expired"}
      PROVE  approval'[r] = approval[r]
  <2>0. TypeOK /\ approval \in [Requests -> Approval] /\ Separated(approval[r])
    BY <1>1 DEF GInv, TypeOK, ApproverIndependent, Separated
  <2>1. ASSUME NEW s \in Slots, Request(s) \/ Approve(s) \/ Cancel(s) \/ Reassign(s)
        PROVE  approval'[r] = approval[r]
    <3>1. CASE r = slot[s].request
      <4>1. CASE Request(s)
        BY <1>1, <3>1, <4>1 DEF Request, Commit, Admitted, Unasked
      <4>2. CASE Approve(s)
        BY <1>1, <3>1, <4>2 DEF Approve, Commit, Admitted
      <4>3. CASE Cancel(s) \/ Reassign(s)
        BY <1>1, <3>1, <4>3 DEF Cancel, Reassign, Commit, Admitted
      <4>4. QED BY <2>1, <4>1, <4>2, <4>3
    <3>2. CASE r # slot[s].request
      BY <2>0, <2>1, <3>2 DEF Request, Approve, Cancel, Reassign
    <3>3. QED BY <3>1, <3>2
  <2>2. ASSUME NEW s \in Slots, Change(s) \/ \E op, status : Leave(s, op, status)
        PROVE  approval'[r] = approval[r]
    BY <1>1, <2>0, <2>2, WithdrawnSeparated DEF Change, Leave
  <2>3. ASSUME \/ UNCHANGED vars \/ Tick
               \/ \E s \in Slots : \/ Start(s) \/ Refuse(s) \/ Delegate(s) \/ Expire(s)
                                   \/ Activate(s)
        PROVE  approval'[r] = approval[r]
    BY <2>3 DEF vars, Tick, Start, Refuse, Delegate, Expire, Activate
  <2>4. QED BY <1>1, <2>1, <2>2, <2>3 DEF Next, Execute
<1>2. GInv /\ [Next]_vars =>
        [\A r \in Requests :
            approval[r].status \in {"approved", "cancelled", "expired"} =>
                approval'[r] = approval[r]]_vars
  BY <1>1
<1>3. QED BY <1>2, Governed, PTL DEF Spec, DecidedOnce

\* offboardPerson and the suspension of a review end, in the transaction that ends the access,
\* every open request and every active delegation that names the person.
THEOREM OffboardingCloses == Spec => NothingOutlivesAccess
<1> DEFINE Closed(m) ==
        membership[m].status = "active" /\ membership'[m].status # "active" =>
            /\ \A r \in Requests : approval'[r].status = "pending" =>
                  m \notin {approval'[r].author, approval'[r].beneficiary, approval'[r].assigned}
            /\ \A d \in Delegations : delegation'[d].status = "active" =>
                  m \notin {delegation'[d].from, delegation'[d].to}
<1>1. ASSUME GInv, [Next]_vars, NEW m \in Members PROVE Closed(m)
  <2> SUFFICES ASSUME membership[m].status = "active", membership'[m].status # "active"
               PROVE  /\ \A r \in Requests : approval'[r].status = "pending" =>
                            m \notin {approval'[r].author, approval'[r].beneficiary,
                                      approval'[r].assigned}
                      /\ \A d \in Delegations : delegation'[d].status = "active" =>
                            m \notin {delegation'[d].from, delegation'[d].to}
    OBVIOUS
  <2>0. /\ membership \in [Members -> Membership]
        /\ approval \in [Requests -> Approval]
        /\ delegation \in [Delegations -> Delegation]
    BY <1>1 DEF GInv, TypeOK
  <2>1. ASSUME NEW s \in Slots, Activate(s) PROVE FALSE
    BY <2>0, <2>1 DEF Activate, Commit, Admitted, Stranger
  <2>2. ASSUME NEW s \in Slots, Change(s) PROVE FALSE
    BY <2>0, <2>2 DEF Change, Changing, Membership
  <2>3. ASSUME \/ UNCHANGED vars \/ Tick
               \/ \E s \in Slots : \/ Start(s) \/ Refuse(s) \/ Delegate(s) \/ Expire(s)
                                   \/ Request(s) \/ Approve(s) \/ Cancel(s) \/ Reassign(s)
        PROVE  FALSE
    BY <2>3 DEF vars, Tick, Start, Refuse, Delegate, Expire, Request, Approve, Cancel, Reassign
  <2>4. PICK s \in Slots : \E op, status : Leave(s, op, status)
    BY <1>1, <2>1, <2>2, <2>3 DEF Next, Execute
  <2>5. m = slot[s].who
    BY <2>0, <2>4 DEF Leave
  <2>6. approval' = Withdrawn(m) /\ delegation' = Recalled(m)
    BY <2>4, <2>5 DEF Leave
  <2>7. ASSUME NEW r \in Requests, approval'[r].status = "pending"
        PROVE  m \notin {approval'[r].author, approval'[r].beneficiary, approval'[r].assigned}
    BY <2>0, <2>6, <2>7 DEF Withdrawn, Approval
  <2>8. ASSUME NEW d \in Delegations, delegation'[d].status = "active"
        PROVE  m \notin {delegation'[d].from, delegation'[d].to}
    BY <2>0, <2>6, <2>8 DEF Recalled, Delegation
  <2>9. QED BY <2>7, <2>8
<1>2. GInv /\ [Next]_vars => [\A m \in Members : Closed(m)]_vars
  BY <1>1
<1>3. QED BY <1>2, Governed, PTL DEF Spec, NothingOutlivesAccess

=============================================================================
