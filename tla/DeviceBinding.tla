----------------------------- MODULE DeviceBinding -----------------------------
(***************************************************************************)
(* The one-PC rule of an account: the commands that bind, revoke, transfer *)
(* and revalidate a PC (bind-device.ts, transfer-device.ts, decided by     *)
(* device-binding.ts), the PostgreSQL repository behind them, which keeps  *)
(* every binding twice (runtime_aggregates and device_bindings), and the   *)
(* parts that write the same rows: reconciliation, which replaces the      *)
(* version and the status of an entitlement, and the operator's console.   *)
(*                                                                         *)
(* Transactions are serializable and lock the newest entitlement: each     *)
(* command is one step.  A client sends a command for the version it had   *)
(* read, any time later, and repeats it when it saw no answer.  Digests,   *)
(* labels and evidence are a PC; a transfer without the customer's         *)
(* confirmation and a bind without the two confirmations change nothing    *)
(* and are left out.                                                       *)
(***************************************************************************)
EXTENDS Naturals, FiniteSets

CONSTANTS Commands,         \* identifiers of commands
          Kinds,            \* the commands used
          PCs,              \* computers, told apart by their digest
          Bindings,         \* identifiers of bindings, chosen by the client
          Exceptions,       \* reviewed exceptions of support
          MaxEntitlements,  \* bound: entitlements of the account, one per subscription
          Overlap,          \* TRUE: an entitlement may begin before the last one ended
          MaxInterventions, \* bound: what the operators do in their console
          Cooldown,         \* DEVICE_REPLACEMENT_COOLDOWN_MS in ticks
          Validity,         \* DEVICE_EXCEPTION_VALIDITY_MS in ticks
          Freshness,        \* DEVICE_STRONG_AUTH_FRESHNESS_MS in ticks
          MaxTime,          \* bound: the clock
          MaxVersion,       \* bound: versions of an entitlement
          MaxBase           \* bound: versions an entitlement gets by reconciliation

None == "none"

ASSUME DeviceAssumption ==
    /\ None \notin Bindings
    /\ MaxEntitlements \in Nat \ {0}
    /\ Kinds \subseteq {"bind", "revoke", "transfer", "revalidate"}
    /\ Overlap \in BOOLEAN /\ MaxInterventions \in Nat
    /\ Cooldown \in Nat /\ Validity \in Nat /\ Freshness \in Nat
    /\ MaxTime \in Nat /\ MaxVersion \in Nat /\ MaxBase \in 1 .. MaxVersion

VARIABLES now,           \* the clock
          newest,        \* the entitlement created last, 0 for none
          entitlement,   \* premium_entitlements of the account, by order of creation
          device,        \* runtime_aggregates 'device'
          table,         \* device_bindings: the bindings that are not revoked
          exception,     \* device_transfer_exceptions
          command,       \* the commands of clients
          result,        \* control_plane_command_results: what was remembered of a command
          changes,       \* history: commands that changed a binding
          redeemed,      \* history: replacements an exception has justified
          interventions  \* history: corrections and revocations by operators

vars == <<now, newest, entitlement, device, table, exception, command, result, changes, redeemed,
          interventions>>

NoEntitlement == 0
Index == 1 .. MaxEntitlements
Time == 0 .. MaxTime
Version == 0 .. MaxVersion

\* base is the version reconciliation counts on, in the account's subscription.
Entitlement == [status : {"none", "active", "grace", "expired"}, version : Version, base : Version]
Absent == [status |-> "none", version |-> 0, base |-> 0]

Binding == [of : 0 .. MaxEntitlements, pc : PCs \cup {None}, bound : Time,
            active : BOOLEAN, updated : Nat]
Unbound == [of |-> NoEntitlement, pc |-> None, bound |-> 0, active |-> FALSE, updated |-> 0]

Exception == [issued : BOOLEAN, at : Time, consumed : BOOLEAN]
Result == {"applied", "no-op", "noted"}
Command == [at : {"unused", "sent", "answered"}, kind : Kinds \cup {None},
            binding : Bindings \cup {None}, pc : PCs \cup {None},
            exception : Exceptions \cup {None}, expects : Version,
            read : (0 .. MaxEntitlements) \X Version, seen : Nat]
Unused == [at |-> "unused", kind |-> None, binding |-> None, pc |-> None,
           exception |-> None, expects |-> 0, read |-> <<0, 0>>, seen |-> 0]

Init ==
    /\ now = 0
    /\ newest = NoEntitlement
    /\ entitlement = [k \in Index |-> Absent]
    /\ device = [b \in Bindings |-> Unbound]
    /\ table = {}
    /\ exception = [e \in Exceptions |-> [issued |-> FALSE, at |-> 0, consumed |-> FALSE]]
    /\ command = [c \in Commands |-> Unused]
    /\ result = [c \in Commands |-> None]
    /\ changes = 0
    /\ redeemed = [e \in Exceptions |-> 0]
    /\ interventions = 0

Bound(k) == {b \in Bindings : device[b].of = k}
ActiveOf(k) == {b \in Bound(k) : device[b].active}

-----------------------------------------------------------------------------
(***************************************************************************)
(* The clock, the payment provider's news, support and the operators       *)
(***************************************************************************)
Tick ==
    /\ now < MaxTime
    /\ now' = now + 1
    /\ UNCHANGED <<newest, entitlement, device, table, exception, command, result, changes, redeemed,
                   interventions>>

\* The first reconciliation of a subscription.
Entitle ==
    /\ newest < MaxEntitlements
    /\ Overlap \/ \A k \in 1 .. newest : entitlement[k].status = "expired"
    /\ newest' = newest + 1
    /\ entitlement' = [entitlement EXCEPT ![newest + 1] =
                          [status |-> "active", version |-> 1, base |-> 1]]
    /\ UNCHANGED <<now, device, table, exception, command, result, changes, redeemed,
                   interventions>>

\* Reconciliation stores its own version, whatever the row's version was.
Reconcile(status) ==
    /\ newest # NoEntitlement
    /\ entitlement[newest].base < MaxBase
    /\ entitlement' = [entitlement EXCEPT ![newest] =
                          [status |-> status, version |-> @.base + 1, base |-> @.base + 1]]
    /\ UNCHANGED <<now, newest, device, table, exception, command, result, changes, redeemed,
                   interventions>>

\* Support issues a reviewed exception, right after the customer's strong authentication.
IssueException(e) ==
    /\ ~exception[e].issued
    /\ exception' = [exception EXCEPT ![e] = [@ EXCEPT !.issued = TRUE, !.at = now]]
    /\ UNCHANGED <<now, newest, entitlement, device, table, command, result, changes, redeemed,
                   interventions>>

Intervene ==
    /\ interventions < MaxInterventions
    /\ interventions' = interventions + 1

\* An operator corrects an entitlement: its version moves and nothing else.
CorrectEntitlement(k) ==
    /\ Intervene
    /\ entitlement[k].status # "none" /\ entitlement[k].version < MaxVersion
    /\ entitlement' = [entitlement EXCEPT ![k].version = @ + 1]
    /\ UNCHANGED <<now, newest, device, table, exception, command, result, changes, redeemed>>

\* An operator revokes a PC: the row of device_bindings, not the aggregate.
RevokeByOperator(b) ==
    /\ Intervene
    /\ b \in table
    /\ table' = table \ {b}
    /\ UNCHANGED <<now, newest, entitlement, device, exception, command, result, changes, redeemed>>

-----------------------------------------------------------------------------
(***************************************************************************)
(* decideDeviceBinding                                                     *)
(***************************************************************************)
\* Mutant: a consumed exception can be redeemed again.
UsableUnconsumed(e) ==
    /\ e # None /\ exception[e].issued
    /\ now < exception[e].at + Validity
    /\ now <= exception[e].at + Freshness

Usable(e) ==
    /\ e # None /\ exception[e].issued /\ ~exception[e].consumed
    /\ now < exception[e].at + Validity
    /\ now <= exception[e].at + Freshness

Eligible(b) == now >= device[b].bound + Cooldown

\* Mutant: after a revocation there is no binding.
CurrentActive(k) == ActiveOf(k)

\* The binding the decision is about: the active one, else the one updated last.
Current(k) ==
    IF ActiveOf(k) # {} THEN ActiveOf(k)
    ELSE {b \in Bound(k) : \A other \in Bound(k) : device[other].updated <= device[b].updated}

Premium(k) == entitlement[k].status = "active"

\* Mutant: a transfer that must wait revokes the PC at once.
DecideRevoking(k, c) ==
    IF ~Premium(k) THEN "denied"
    ELSE CASE c.kind = "bind" /\ Current(k) = {} -> "bind"
           [] c.kind = "bind" /\ \E b \in Current(k) : device[b].pc = c.pc -> "retain"
           [] c.kind = "revoke" /\ Current(k) # {} -> "revoke"
           [] c.kind = "revalidate" /\ Current(k) # {} -> "note"
           [] c.kind = "transfer" /\ \E b \in Current(k) : Eligible(b) -> "replace"
           [] c.kind = "transfer" /\ Current(k) # {} ->
                 IF Usable(c.exception) THEN "redeem" ELSE "revoke"
           [] OTHER -> "denied"

Decide(k, c) ==
    IF ~Premium(k) THEN "denied"
    ELSE CASE c.kind = "bind" /\ Current(k) = {} -> "bind"
           [] c.kind = "bind" /\ \E b \in Current(k) : device[b].pc = c.pc -> "retain"
           [] c.kind = "revoke" /\ Current(k) # {} -> "revoke"
           [] c.kind = "revalidate" /\ Current(k) # {} -> "note"
           [] c.kind = "transfer" /\ \E b \in Current(k) : Eligible(b) -> "replace"
           [] /\ c.kind = "transfer" /\ \E b \in Current(k) : ~Eligible(b)
              /\ Usable(c.exception) -> "redeem"
           [] OTHER -> "denied"

-----------------------------------------------------------------------------
(***************************************************************************)
(* executeDeviceMutation                                                   *)
(***************************************************************************)
\* A client reads the newest entitlement's version and makes a command with a fresh binding.
Send(c, kind, b, pc, e) ==
    /\ command[c].at = "unused" /\ newest # NoEntitlement
    /\ IF kind \in {"bind", "transfer"}
       THEN /\ b # None /\ pc # None /\ device[b] = Unbound
            /\ \A other \in Commands : command[other].binding # b
       ELSE b = None /\ pc = None
    /\ kind # "transfer" => e = None
    /\ command' = [command EXCEPT ![c] =
                      [at |-> "sent", kind |-> kind, binding |-> b, pc |-> pc, exception |-> e,
                       expects |-> entitlement[newest].version,
                       read |-> <<newest, entitlement[newest].base>>, seen |-> changes]]
    /\ UNCHANGED <<now, newest, entitlement, device, table, exception, result, changes, redeemed,
                   interventions>>

Answered(c, remembered) ==
    /\ command' = [command EXCEPT ![c].at = "answered"]
    /\ result' = [result EXCEPT ![c] = remembered]

\* The client saw no answer and sends the command again.
Repeat(c) ==
    /\ command[c].at = "answered"
    /\ command' = [command EXCEPT ![c].at = "sent"]
    /\ UNCHANGED <<now, newest, entitlement, device, table, exception, result, changes, redeemed,
                   interventions>>

\* A result that was remembered is found again.
Remembered(c) == result[c] # None

\* Mutant: a version the entitlement has passed is accepted.
FreshAtMost(c) == command[c].expects <= entitlement[newest].version

\* The entitlement's version still is the one the command expects.
Fresh(c) == entitlement[newest].version = command[c].expects

\* Mutant: a replaced PC stays bound.
AfterKeeping(k, d, c) ==
    [b \in Bindings |->
        IF b = command[c].binding
        THEN [of |-> k, pc |-> command[c].pc, bound |-> now, active |-> TRUE,
              updated |-> changes + 1]
        ELSE device[b]]

\* Every binding after an applied decision.
After(k, d, c) ==
    [b \in Bindings |->
        IF d # "revoke" /\ b = command[c].binding
        THEN [of |-> k, pc |-> command[c].pc, bound |-> now, active |-> TRUE,
              updated |-> changes + 1]
        ELSE IF d # "bind" /\ b \in Current(k)
        THEN [device[b] EXCEPT !.active = FALSE, !.updated = changes + 1]
        ELSE device[b]]

Apply(c, k, d) ==
    /\ entitlement[k].version < MaxVersion
    /\ entitlement' = [entitlement EXCEPT ![k].version = @ + 1]
    /\ device' = After(k, d, c)
    /\ table' = (table \ (IF d = "bind" THEN {} ELSE Current(k)))
                \cup (IF d = "revoke" THEN {} ELSE {command[c].binding})
    /\ changes' = changes + 1
    /\ IF d = "redeem"
       THEN /\ exception' = [exception EXCEPT ![command[c].exception].consumed = TRUE]
            /\ redeemed' = [redeemed EXCEPT ![command[c].exception] = @ + 1]
       ELSE UNCHANGED <<exception, redeemed>>
    /\ Answered(c, "applied")

\* Nothing is done; only an answer that is no refusal is remembered.
Reply(c, remembered) ==
    /\ Answered(c, remembered)
    /\ UNCHANGED <<entitlement, device, table, exception, changes, redeemed,
                   interventions>>

Execute(c) ==
    LET d == Decide(newest, command[c]) IN
    /\ command[c].at = "sent"
    /\ \/ Remembered(c) /\ Reply(c, result[c])
       \/ /\ ~Remembered(c)
          /\ \/ (~Fresh(c) \/ d = "denied") /\ Reply(c, result[c])
             \/ Fresh(c) /\ d = "retain" /\ Reply(c, "no-op")
             \/ Fresh(c) /\ d = "note" /\ Reply(c, "noted")
             \/ Fresh(c) /\ d \in {"bind", "revoke", "replace", "redeem"} /\ Apply(c, newest, d)
    /\ UNCHANGED <<now, newest, interventions>>

-----------------------------------------------------------------------------
Client(c) ==
    \/ \E kind \in Kinds, b \in Bindings \cup {None}, pc \in PCs \cup {None},
          e \in Exceptions \cup {None} : Send(c, kind, b, pc, e)
    \/ Repeat(c) \/ Execute(c)

Others ==
    \/ Tick \/ Entitle
    \/ \E status \in {"active", "grace", "expired"} : Reconcile(status)
    \/ \E e \in Exceptions : IssueException(e)
    \/ \E k \in Index : CorrectEntitlement(k)
    \/ \E b \in Bindings : RevokeByOperator(b)

Next == Others \/ \E c \in Commands : Client(c)
Spec == Init /\ [][Next]_vars

-----------------------------------------------------------------------------
(***************************************************************************)
(* Properties                                                              *)
(***************************************************************************)
TypeOK ==
    /\ now \in Time /\ newest \in 0 .. MaxEntitlements
    /\ entitlement \in [Index -> Entitlement]
    /\ device \in [Bindings -> Binding]
    /\ table \subseteq Bindings
    /\ exception \in [Exceptions -> Exception]
    /\ command \in [Commands -> Command]
    /\ result \in [Commands -> Result \cup {None}]
    /\ changes \in Nat
    /\ redeemed \in [Exceptions -> Nat]
    /\ interventions \in 0 .. MaxInterventions

\* IDEN-04: an entitlement has at most one PC, in the aggregates and in the table with the
\* unique index, which therefore never refuses an insertion.
OneActivePC ==
    \A k \in Index : /\ Cardinality(ActiveOf(k)) <= 1
                     /\ Cardinality(Bound(k) \cap table) <= 1

\* D-26, D-27: a PC takes the place of another one, active or revoked, only when the cooldown
\* of that one is over or an exception is redeemed in the same step.
ReplacementWaits ==
    [][\A b \in Bindings :
          device'[b].active /\ ~device[b].active =>
              \/ \A old \in Bound(device'[b].of) : now >= device[old].bound + Cooldown
              \/ \E e \in Exceptions : redeemed'[e] = redeemed[e] + 1]_vars

\* D-28: an exception justifies one replacement, and is spent when it has.
ExceptionOnce ==
    \A e \in Exceptions : redeemed[e] <= 1 /\ (redeemed[e] = 1 => exception[e].consumed)

\* D-26: only a revocation the customer asked for leaves the account without its PC.
NeverStranded ==
    [][\A k \in Index :
          ActiveOf(k) # {} /\ {b \in Bindings : device'[b].of = k /\ device'[b].active} = {} =>
              \E c \in Commands : command[c].kind = "revoke" /\ command[c].at = "sent"
                                  /\ command'[c].at = "answered"]_vars

\* The two records of a binding agree until an operator intervenes, and the table never has a
\* PC the aggregates have revoked.
TablesAgree ==
    LET active == {b \in Bindings : device[b].active} IN
    table \subseteq active /\ (interventions = 0 => table = active)

\* A command is carried out once: repeated, however late, it finds its result and changes
\* nothing, whatever the state has become.
CarriedOutOnce ==
    [][\A c \in Commands : result[c] # None /\ command'[c] # command[c] =>
          changes' = changes /\ result'[c] = result[c]]_vars

\* D-55: between two reconciliations, a command changes bindings only for the state its client
\* had read, even when the operators correct the version meanwhile.
StaleOnlyIfReconciled ==
    [][\A c \in Commands :
          changes' # changes /\ command'[c] # command[c]
          /\ command[c].read = <<newest, entitlement[newest].base>> =>
              command[c].seen = changes]_vars

-----------------------------------------------------------------------------
\* D-55: a command changes bindings only for the state its client had read.
StaleCommandRejected ==
    [][\A c \in Commands : changes' # changes /\ command'[c] # command[c] =>
          command[c].seen = changes]_vars

\* WEB-05: the PC the account shows as active is the one its owner can revoke.
Shown == {b \in Bindings : device[b].active}
ShownIsManaged ==
    newest # NoEntitlement /\ Premium(newest) => Shown \subseteq Current(newest)

\* D-52: the two records of a binding agree.
RecordsAgree == table = {b \in Bindings : device[b].active}

\* D-27: a customer's revocation of the current version is never denied while a PC is active.
TheftRevokes ==
    [][\A c \in Commands :
          command[c].at = "sent" /\ command'[c].at = "answered" /\ command[c].kind = "revoke"
          /\ Fresh(c) /\ ActiveOf(newest) # {} =>
              result'[c] # None]_vars

\* IDEN-04 for an account: one PC has Premium.
Licensed == {device[b].pc : b \in {d \in Bindings : device[d].active /\ Premium(device[d].of)}}
OneLicensedPC == Cardinality(Licensed) <= 1
=============================================================================
