---------------------------- MODULE AdminGovernance ----------------------------
(***************************************************************************)
(* Access of the administrators (manage-admin-access.ts over the           *)
(* repository of admin-governance.ts): memberships, permission changes,    *)
(* approvals by a second person, delegations, reviews and offboarding.     *)
(*                                                                         *)
(* A use case authorizes its actor and reads the clock, then opens a       *)
(* serializable transaction: a command is two steps, and other commands    *)
(* run between them.  The evidence of the step-up is fresh when the        *)
(* command starts; reasons, scopes and capabilities stand behind the       *)
(* functions, a list of approvals behind one of them.  A repeated command  *)
(* finds its result and changes nothing, a review that retains access and  *)
(* a reveal change no access: they are left out, and so are the sessions.  *)
(***************************************************************************)
EXTENDS Naturals, FiniteSets

CONSTANTS Members,      \* identities
          Founders,     \* those with a membership at the start
          Functions,    \* ADMIN_FUNCTIONS in use
          Requests,     \* identifiers of approval requests
          Delegations,  \* identifiers of delegations
          Slots,        \* commands in progress
          Window,       \* APPROVAL_WINDOW_MS in ticks
          Validity,     \* DELEGATION_MAX_MS in ticks
          MaxTime,      \* bound: the clock
          MaxCommands   \* bound: commands

None == "none"

ASSUME GovernanceAssumption ==
    /\ Founders \subseteq Members /\ None \notin Members
    /\ Functions \subseteq {"support", "operations", "security", "audit"}
    /\ Window \in Nat \ {0} /\ Validity \in Nat \ {0}
    /\ MaxTime \in Nat /\ MaxCommands \in Nat

VARIABLES now,         \* the clock
          membership,  \* admin_governance_memberships and their functions
          approval,    \* admin_approval_requests with their decisions
          delegation,  \* admin_delegations
          slot,        \* commands between their authorization and their transaction
          issued       \* commands authorized

vars == <<now, membership, approval, delegation, slot, issued>>

Time == 0 .. MaxTime
Subjects == {"permissions", "delegation"}
Operations == {"activate", "change", "delegate", "expire", "request", "approve", "cancel",
               "reassign", "offboard", "review"}

Membership == [status : {"none", "active", "suspended", "offboarded"},
               functions : SUBSET Functions, version : Nat]
Stranger == [status |-> "none", functions |-> {}, version |-> 0]

Approval == [status : {"none", "pending", "approved", "cancelled", "expired"},
             author : Members \cup {None}, beneficiary : Members \cup {None},
             assigned : Members \cup {None}, approver : Members \cup {None},
             subject : Subjects \cup {None}, expires : Nat]
Unasked == [status |-> "none", author |-> None, beneficiary |-> None, assigned |-> None,
            approver |-> None, subject |-> None, expires |-> 0]

Delegation == [status : {"none", "active", "expired", "revoked"},
               from : Members \cup {None}, to : Members \cup {None}, expires : Nat]
Undelegated == [status |-> "none", from |-> None, to |-> None, expires |-> 0]

\* who is the person a command is about, read what its actor knew of that person's membership.
Command == [op : Operations \cup {None}, actor : Members \cup {None}, at : Time,
            who : Members \cup {None}, functions : SUBSET Functions, read : Membership,
            request : Requests \cup {None}, subject : Subjects \cup {None},
            assigned : Members \cup {None}, delegation : Delegations \cup {None}]
Idle == [op |-> None, actor |-> None, at |-> 0, who |-> None, functions |-> {},
         read |-> Stranger, request |-> None, subject |-> None, assigned |-> None,
         delegation |-> None]

Init ==
    /\ now = 0
    /\ membership = [m \in Members |->
                        IF m \in Founders
                        THEN [status |-> "active", functions |-> Functions, version |-> 1]
                        ELSE Stranger]
    /\ approval = [r \in Requests |-> Unasked]
    /\ delegation = [d \in Delegations |-> Undelegated]
    /\ slot = [s \in Slots |-> Idle]
    /\ issued = 0

-----------------------------------------------------------------------------
(***************************************************************************)
(* Authorization, before the transaction                                   *)
(***************************************************************************)
\* What a function may do, of the operations that change access.
Capabilities(f) ==
    CASE f = "security" -> Operations
      [] f = "operations" -> {"delegate", "expire", "review"}
      [] f = "audit" -> {"review"}
      [] OTHER -> {}

Authorized(actor, op) ==
    /\ membership[actor].status = "active"
    /\ \E f \in membership[actor].functions : op \in Capabilities(f)

\* The commands an actor may give, dated when they are authorized.  A critical change and a
\* delegation that is not routine name an approval.
Orders(op, actor) ==
    [op : {op}, actor : {actor}, at : {now}, read : {Stranger},
     who : CASE op \in {"expire", "approve", "cancel"} -> {None}
             [] op = "delegate" -> Members \ {actor}
             [] OTHER -> Members,
     functions : IF op \in {"activate", "change"} THEN SUBSET Functions \ {{}} ELSE {{}},
     request : CASE op \in {"request", "approve", "cancel", "reassign"} -> Requests
                 [] op \in {"change", "delegate"} -> Requests \cup {None}
                 [] OTHER -> {None},
     subject : IF op = "request" THEN Subjects ELSE {None},
     assigned : IF op = "request" THEN (Members \ {actor}) \cup {None} ELSE {None},
     delegation : IF op \in {"delegate", "expire"} THEN Delegations ELSE {None}]

\* What the actor has read: a change carries what its preview showed, an offboarding a version.
Read(c) == IF c.op \in {"change", "offboard"} THEN membership[c.who] ELSE Stranger

Start(s) ==
    /\ slot[s] = Idle /\ issued < MaxCommands
    /\ \E m \in Members, op \in Operations :
          /\ Authorized(m, op)
          /\ \E c \in Orders(op, m) :
                /\ op = "request" => c.assigned # c.who
                /\ slot' = [slot EXCEPT ![s] = [c EXCEPT !.read = Read(c)]]
    /\ issued' = issued + 1
    /\ UNCHANGED <<now, membership, approval, delegation>>

Tick ==
    /\ now < MaxTime
    /\ now' = now + 1
    /\ UNCHANGED <<membership, approval, delegation, slot, issued>>

-----------------------------------------------------------------------------
(***************************************************************************)
(* What a transaction finds                                                *)
(***************************************************************************)
\* Mutant: the approver may carry the change out.
IndependentOfBeneficiary(c, subject) ==
    LET p == approval[c.request] IN
    /\ p.status = "approved" /\ p.approver \notin {c.who, p.author}
    /\ p.subject = subject /\ c.at < p.expires

\* The approval was given by a third person, for this kind of change, and still counts.
Independent(c, subject) ==
    LET p == approval[c.request] IN
    /\ p.status = "approved" /\ p.approver \notin {c.actor, c.who, p.author}
    /\ p.subject = subject /\ c.at < p.expires

\* Who may decide a request.
MayDecide(p, m) == m \notin {p.author, p.beneficiary} /\ p.assigned \in {None, m}

\* The open requests that name a person lapse.
Withdrawn(m) ==
    [r \in Requests |->
        IF /\ approval[r].status = "pending"
           /\ m \in {approval[r].author, approval[r].beneficiary, approval[r].assigned}
        THEN [approval[r] EXCEPT !.status = "expired"] ELSE approval[r]]

\* The active delegations a person gave or received end.
Recalled(m) ==
    [d \in Delegations |->
        IF delegation[d].status = "active" /\ m \in {delegation[d].from, delegation[d].to}
        THEN [delegation[d] EXCEPT !.status = "revoked"] ELSE delegation[d]]

\* Mutant: a suspension keeps the version.
LeavingSilently(m, status) == [membership[m] EXCEPT !.status = status]

\* Access ends: the status and the version move together.
Leaving(m, status) == [membership[m] EXCEPT !.status = status, !.version = @ + 1]

\* Permissions change: the status is left as it is, whatever it is.
Changing(m, functions) == [membership[m] EXCEPT !.functions = functions, !.version = @ + 1]

\* The version a command expects, and a membership it finds.
Fresh(c) ==
    /\ membership[c.who].status # "none"
    /\ membership[c.who].version = c.read.version

\* No approval is needed, or it is independent.
Granted(c, subject) == c.request # None => Independent(c, subject)

\* What each operation requires of the state its transaction finds.
Admitted(c) ==
    CASE c.op = "activate" -> membership[c.who] = Stranger
      [] c.op = "change" -> /\ Fresh(c) /\ Granted(c, "permissions")
                            /\ membership[c.who].functions = c.read.functions
      [] c.op = "delegate" -> delegation[c.delegation] = Undelegated /\ Granted(c, "delegation")
      [] c.op = "expire" -> /\ delegation[c.delegation].status = "active"
                            /\ c.at >= delegation[c.delegation].expires
      [] c.op = "request" -> approval[c.request] = Unasked
      [] c.op = "approve" -> /\ approval[c.request].status = "pending"
                             /\ c.at < approval[c.request].expires
                             /\ MayDecide(approval[c.request], c.actor)
      [] c.op = "cancel" -> approval[c.request].status = "pending"
      [] c.op = "reassign" -> LET p == approval[c.request] IN
                              /\ p.status = "pending" /\ c.at < p.expires
                              /\ c.who \notin {p.author, p.beneficiary}
      [] c.op = "offboard" -> Fresh(c)
      [] c.op = "review" -> membership[c.who].status \in {"active", "suspended"}
      [] OTHER -> FALSE

-----------------------------------------------------------------------------
(***************************************************************************)
(* The transactions                                                        *)
(***************************************************************************)
Commit(s, op) ==
    /\ slot[s].op = op /\ Admitted(slot[s])
    /\ slot' = [slot EXCEPT ![s] = Idle]
    /\ UNCHANGED <<now, issued>>

Refuse(s) ==
    /\ slot[s] # Idle /\ ~Admitted(slot[s])
    /\ slot' = [slot EXCEPT ![s] = Idle]
    /\ UNCHANGED <<now, membership, approval, delegation, issued>>

Activate(s) ==
    /\ Commit(s, "activate")
    /\ membership' = [membership EXCEPT ![slot[s].who] =
                         [status |-> "active", functions |-> slot[s].functions, version |-> 1]]
    /\ UNCHANGED <<approval, delegation>>

Change(s) ==
    /\ Commit(s, "change")
    /\ membership' = [membership EXCEPT ![slot[s].who] = Changing(slot[s].who, slot[s].functions)]
    /\ approval' = Withdrawn(slot[s].who)
    /\ UNCHANGED delegation

Delegate(s) ==
    /\ Commit(s, "delegate")
    /\ delegation' = [delegation EXCEPT ![slot[s].delegation] =
                         [status |-> "active", from |-> slot[s].actor, to |-> slot[s].who,
                          expires |-> slot[s].at + Validity]]
    /\ UNCHANGED <<membership, approval>>

Expire(s) ==
    /\ Commit(s, "expire")
    /\ delegation' = [delegation EXCEPT ![slot[s].delegation].status = "expired"]
    /\ UNCHANGED <<membership, approval>>

Request(s) ==
    /\ Commit(s, "request")
    /\ approval' = [approval EXCEPT ![slot[s].request] =
                       [status |-> "pending", author |-> slot[s].actor,
                        beneficiary |-> slot[s].who, assigned |-> slot[s].assigned,
                        approver |-> None, subject |-> slot[s].subject,
                        expires |-> slot[s].at + Window]]
    /\ UNCHANGED <<membership, delegation>>

Approve(s) ==
    /\ Commit(s, "approve")
    /\ approval' = [approval EXCEPT ![slot[s].request] =
                       [@ EXCEPT !.status = "approved", !.approver = slot[s].actor]]
    /\ UNCHANGED <<membership, delegation>>

Cancel(s) ==
    /\ Commit(s, "cancel")
    /\ approval' = [approval EXCEPT ![slot[s].request].status = "cancelled"]
    /\ UNCHANGED <<membership, delegation>>

Reassign(s) ==
    /\ Commit(s, "reassign")
    /\ approval' = [approval EXCEPT ![slot[s].request].assigned = slot[s].who]
    /\ UNCHANGED <<membership, delegation>>

Leave(s, op, status) ==
    /\ Commit(s, op)
    /\ membership' = [membership EXCEPT ![slot[s].who] = Leaving(slot[s].who, status)]
    /\ delegation' = Recalled(slot[s].who)
    /\ approval' = Withdrawn(slot[s].who)

Execute(s) ==
    \/ Activate(s) \/ Change(s) \/ Delegate(s) \/ Expire(s)
    \/ Request(s) \/ Approve(s) \/ Cancel(s) \/ Reassign(s)
    \/ Leave(s, "offboard", "offboarded") \/ Leave(s, "review", "suspended")

Next ==
    \/ Tick
    \/ \E s \in Slots : Start(s) \/ Execute(s) \/ Refuse(s)

Spec == Init /\ [][Next]_vars

-----------------------------------------------------------------------------
(***************************************************************************)
(* Properties                                                              *)
(***************************************************************************)
TypeOK ==
    /\ now \in Time
    /\ membership \in [Members -> Membership]
    /\ approval \in [Requests -> Approval]
    /\ delegation \in [Delegations -> Delegation]
    /\ slot \in [Slots -> Command]
    /\ issued \in 0 .. MaxCommands

\* D-85: whoever decides a request, or is to decide it, neither made it nor gains by it, however
\* often it has been reassigned; a decision is the assigned person's.
ApproverIndependent ==
    \A r \in Requests : LET p == approval[r] IN
        p.status # "none" =>
            /\ p.author # p.assigned /\ p.beneficiary # p.assigned
            /\ (p.status = "approved") = (p.approver # None)
            /\ p.approver # None => /\ p.approver \notin {p.author, p.beneficiary}
                                    /\ p.assigned \in {None, p.approver}

ByAnother(p, c) ==
    /\ p.status = "approved"
    /\ Cardinality({p.approver, c.actor}) = 2
    /\ p.approver \notin {c.who, p.author, p.beneficiary}

\* D-80: a critical change is carried out by a person other than the one who approved it, and
\* neither its beneficiary nor the author of the request approved it.
TwoPeople ==
    [][\A s \in Slots :
          slot'[s] # slot[s] /\ slot[s].request # None
          /\ (membership' # membership \/ delegation' # delegation) =>
              ByAnother(approval[slot[s].request], slot[s])]_vars

\* A request is decided once: nothing later revives or withdraws a decision.
DecidedOnce ==
    [][\A r \in Requests :
          approval[r].status \in {"approved", "cancelled", "expired"} =>
              approval'[r] = approval[r]]_vars

\* D-86: permissions are changed from what the preview showed: no change, suspension or
\* offboarding has come between.
PreviewedIsCurrent ==
    [][\A s \in Slots :
          slot[s].op = "change" /\ slot'[s] # slot[s] /\ membership' # membership =>
              membership[slot[s].who] = slot[s].read]_vars

\* D-83: whoever loses access is no longer named by an open request or an active delegation.
NothingOutlivesAccess ==
    [][\A m \in Members :
          membership[m].status = "active" /\ membership'[m].status # "active" =>
              /\ \A r \in Requests : approval'[r].status = "pending" =>
                    m \notin {approval'[r].author, approval'[r].beneficiary, approval'[r].assigned}
              /\ \A d \in Delegations : delegation'[d].status = "active" =>
                    m \notin {delegation'[d].from, delegation'[d].to}]_vars

\* D-83: offboarding suspends access at once, of the commands authorized before, too.
ActsWhileActive ==
    [][\A s \in Slots :
          slot'[s] # slot[s] /\ slot[s] # Idle
          /\ <<membership, approval, delegation>>' # <<membership, approval, delegation>> =>
              membership[slot[s].actor].status = "active"]_vars
=============================================================================
