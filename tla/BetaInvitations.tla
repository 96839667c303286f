---------------------------- MODULE BetaInvitations ----------------------------
(***************************************************************************)
(* Invitations to the private beta (manage-beta-invitations.ts, decided by *)
(* invitations.ts, over the repository of admin-invitations.ts): the seats *)
(* of the beta, the secret that opens an invitation and the letters that   *)
(* carry it.                                                               *)
(*                                                                         *)
(* A transaction hands its letter to the mail service before it commits;   *)
(* row locks make each command one step, which is carried out, refused, or *)
(* rolled back after the letter has left.  A client sends a command for    *)
(* the version it had read, any time later, and repeats it when it failed. *)
(* The schema of 0004_admin_invitations.sql keeps the seats in a counter   *)
(* of its own, which triggers move; a repository of the port counts the    *)
(* pending invitations, as the one of the tests does.                      *)
(*                                                                         *)
(* Authorization, templates, audit receipts, batches (jobs that nobody     *)
(* runs) and the proofs a recipient gives before an acceptance are left    *)
(* out: without them nothing changes.                                      *)
(***************************************************************************)
EXTENDS Integers, FiniteSets

CONSTANTS Invitations,    \* identifiers of invitations, fresh for every issue
          Recipients,     \* hashed addresses
          Commands,       \* identifiers of commands with their idempotency keys
          Deployments,    \* the repositories and limits under which the beta may run
          Validity,       \* BETA_INVITATION_DEFAULT_VALIDITY_MS in ticks
          FirstReminder,  \* BETA_INVITATION_FIRST_REMINDER_AFTER_MS in ticks
          FinalReminder,  \* BETA_INVITATION_FINAL_REMINDER_BEFORE_EXPIRY_MS in ticks
          MaxTime,        \* bound: the clock
          MaxSecrets,     \* bound: secrets issued
          MaxFailures     \* bound: transactions rolled back by a failure

None == "none"

ASSUME InvitationAssumption ==
    /\ None \notin Invitations /\ None \notin Recipients
    /\ IsFiniteSet(Invitations) /\ Deployments \subseteq [postgres : BOOLEAN, limit : Nat]
    /\ Validity \in Nat \ {0}
    /\ FirstReminder \in Nat /\ FinalReminder \in 0 .. Validity
    /\ MaxTime \in Nat /\ MaxSecrets \in Nat /\ MaxFailures \in Nat

VARIABLES deployment,  \* the one in use, which stays
          now,         \* the clock
          invitation,  \* admin_invitations with the active digest of admin_invitation_secrets
          counter,     \* admin_invitation_capacity.active_beta_count
          secrets,     \* secrets issued so far, numbered
          letters,     \* what the recipients hold
          command,     \* the commands of clients
          remembered,  \* admin_invitation_commands
          mailed,      \* history: the secret in the last letter of a command carried out
          failures     \* transactions a failure rolled back

stored == <<deployment, invitation, counter, remembered>>
vars == <<now, stored, secrets, letters, command, mailed, failures>>

Postgres == deployment.postgres   \* TRUE: 0004_admin_invitations.sql; FALSE: the port
Limit == deployment.limit         \* BETA_INVITATION_ACTIVE_LIMIT

Time == 0 .. MaxTime
Secret == 1 .. MaxSecrets
NoSecret == 0
MaxReminders == 2   \* BETA_INVITATION_MAX_REMINDERS
Open == {"queued", "pending"}
Closed == {"accepted", "expired", "declined", "revoked"}
Closings == {"accept", "expire", "decline", "revoke"}
Operations == Closings \cup {"issue", "preserve", "restart", "remind"}

\* expires is 0 for an invitation that was never pending; opened is the secret an
\* acceptance consumed.
Invitation == [status : {"absent"} \cup Open \cup Closed, version : Nat,
               to : Recipients \cup {None}, expires : Nat, window : Time,
               reminders : 0 .. MaxReminders, secret : Secret \cup {NoSecret},
               opened : Secret \cup {NoSecret}]
Absent == [status |-> "absent", version |-> 0, to |-> None, expires |-> 0, window |-> 0,
           reminders |-> 0, secret |-> NoSecret, opened |-> NoSecret]

Letter == [to : Recipients, of : Invitations, secret : Secret]
Command == [at : {"unused", "sent", "answered"}, op : Operations \cup {None},
            of : Invitations \cup {None}, to : Recipients \cup {None},
            expects : Nat, secret : Secret \cup {NoSecret}]
Unused == [at |-> "unused", op |-> None, of |-> None, to |-> None, expects |-> 0,
           secret |-> NoSecret]

Pending == {i \in Invitations : invitation[i].status = "pending"}

Init ==
    /\ deployment \in Deployments
    /\ now = 0
    /\ invitation = [i \in Invitations |-> Absent]
    /\ counter = 0
    /\ secrets = 0
    /\ letters = {}
    /\ command = [c \in Commands |-> Unused]
    /\ remembered = {}
    /\ mailed = [i \in Invitations |-> NoSecret]
    /\ failures = 0

-----------------------------------------------------------------------------
(***************************************************************************)
(* Clients                                                                 *)
(***************************************************************************)
Tick ==
    /\ now < MaxTime
    /\ now' = now + 1
    /\ UNCHANGED <<stored, secrets, letters, command, mailed, failures>>

Put(c, order) ==
    /\ command[c].at = "unused"
    /\ command' = [command EXCEPT ![c] = order]
    /\ UNCHANGED <<now, stored, secrets, letters, mailed, failures>>

\* An administrator invites somebody, under an identifier of its own.
AskIssue(c, i, r) ==
    /\ \A other \in Commands : command[other].of # i
    /\ Put(c, [at |-> "sent", op |-> "issue", of |-> i, to |-> r, expects |-> 0,
               secret |-> NoSecret])

\* Somebody acts on an invitation as it was shown.
Ask(c, op, i) ==
    /\ invitation[i].status # "absent"
    /\ Put(c, [at |-> "sent", op |-> op, of |-> i, to |-> None,
               expects |-> invitation[i].version, secret |-> NoSecret])

\* The holder of a letter accepts, for the version the link was validated at.
AskAccept(c, l) ==
    Put(c, [at |-> "sent", op |-> "accept", of |-> l.of, to |-> None,
            expects |-> invitation[l.of].version, secret |-> l.secret])

\* The client was told of a failure, or of nothing, and sends the command again.
Repeat(c) ==
    /\ command[c].at = "answered"
    /\ command' = [command EXCEPT ![c].at = "sent"]
    /\ UNCHANGED <<now, stored, secrets, letters, mailed, failures>>

-----------------------------------------------------------------------------
(***************************************************************************)
(* decideBetaInvitationAdmission, decideBetaInvitationTransition           *)
(***************************************************************************)
\* countActiveBetaInvitations: an invitation past its expiry keeps its seat until it is closed.
Taken == IF Postgres THEN counter ELSE Cardinality(Pending)

\* The beta is full: an invitation is queued, without a letter.
Full == Taken = Limit

Live(v) == v.status = "pending" /\ now < v.expires

\* findActiveRecipient
Invited(r) == \E i \in Invitations : /\ invitation[i].to = r
                                     /\ invitation[i].status \in Open

Due(v) == IF v.reminders = 0 THEN now >= v.window + FirstReminder
          ELSE now + FinalReminder >= v.expires

\* Mutant: the secret of an acceptance is not compared with the active one.
AdmitsAnySecret(c) ==
    LET order == command[c]  v == invitation[order.of] IN
    /\ v.version = order.expects
    /\ CASE order.op = "issue" -> ~Invited(order.to) /\ Taken <= Limit
         [] order.op = "expire" -> v.status = "pending" /\ now >= v.expires
         [] order.op = "remind" -> Live(v) /\ v.reminders < MaxReminders /\ Due(v)
         [] OTHER -> Live(v)

\* The state a command finds lets it be carried out.
Admits(c) ==
    LET order == command[c]  v == invitation[order.of] IN
    /\ v.version = order.expects
    /\ CASE order.op = "issue" -> ~Invited(order.to) /\ Taken <= Limit
         [] order.op = "expire" -> v.status = "pending" /\ now >= v.expires
         [] order.op = "remind" -> Live(v) /\ v.reminders < MaxReminders /\ Due(v)
         [] order.op = "accept" -> Live(v) /\ v.secret = order.secret
         [] OTHER -> Live(v)

Issues(c) == command[c].op \in {"preserve", "restart"} \/ (command[c].op = "issue" /\ ~Full)

\* A validity of its own begins.
Starts(c) == command[c].op = "restart" \/ (command[c].op = "issue" /\ ~Full)

ClosedBy(op) == CASE op = "accept" -> "accepted" [] op = "expire" -> "expired"
                  [] op = "decline" -> "declined" [] OTHER -> "revoked"

\* The invitation a command saves, with the digest that is active afterwards.  Closing one
\* leaves its expiry as it was.
After(c) ==
    LET order == command[c]  op == order.op  v == invitation[order.of] IN
    [status    |-> CASE op = "issue" -> IF Full THEN "queued" ELSE "pending"
                     [] op \in Closings -> ClosedBy(op)
                     [] OTHER -> v.status,
     version   |-> v.version + 1,
     to        |-> IF op = "issue" THEN order.to ELSE v.to,
     expires   |-> IF Starts(c) THEN now + Validity ELSE v.expires,
     window    |-> IF op \in {"issue", "restart"} THEN now ELSE v.window,
     reminders |-> CASE op = "restart" -> 0
                     [] op = "remind" -> v.reminders + 1
                     [] OTHER -> v.reminders,
     secret    |-> IF Issues(c) THEN secrets + 1
                   ELSE IF op \in Closings THEN NoSecret ELSE v.secret,
     opened    |-> IF op = "accept" THEN order.secret ELSE v.opened]

-----------------------------------------------------------------------------
(***************************************************************************)
(* The transaction                                                         *)
(***************************************************************************)
\* What the schema lets saveInvitation write.  The upsert fires the trigger of an insertion
\* for every state it saves, so that a pending one needs a free seat; an invitation that is
\* not pending has no expiry.
Storable(new) ==
    Postgres => /\ (new.status = "pending") = (new.expires # 0)
                /\ new.status = "pending" => counter < Limit

\* Mutant: the trigger fires for updates only.
CountedByUpdate(old, new) ==
    IF Postgres /\ old.status = "pending" /\ new.status # "pending" THEN counter - 1 ELSE counter

\* enforce_admin_beta_invitation_capacity: the insertion counts a pending invitation, the
\* update that follows it uncounts one that is closed.
Counted(old, new) ==
    IF ~Postgres THEN counter
    ELSE IF new.status = "pending" THEN counter + 1
    ELSE IF old.status = "pending" THEN counter - 1 ELSE counter

LetterOf(c) == [to |-> After(c).to, of |-> command[c].of, secret |-> secrets + 1]

Hear(c) == command' = [command EXCEPT ![c].at = "answered"]

\* The result of a command that was carried out is found, and given once more.
AnswerAgain(c) ==
    /\ command[c].at = "sent" /\ c \in remembered
    /\ Hear(c)
    /\ UNCHANGED <<now, stored, secrets, letters, mailed, failures>>

Refuse(c) ==
    /\ command[c].at = "sent" /\ c \notin remembered
    /\ ~Admits(c)
    /\ Hear(c)
    /\ UNCHANGED <<now, stored, secrets, letters, mailed, failures>>

CarryOut(c) ==
    /\ command[c].at = "sent" /\ c \notin remembered
    /\ Admits(c) /\ Storable(After(c))
    /\ Issues(c) => secrets < MaxSecrets
    /\ LET i == command[c].of IN
       /\ invitation' = [invitation EXCEPT ![i] = After(c)]
       /\ counter' = Counted(invitation[i], After(c))
       /\ remembered' = remembered \cup {c}
       /\ IF Issues(c)
          THEN /\ secrets' = secrets + 1
               /\ letters' = letters \cup {LetterOf(c)}
               /\ mailed' = [mailed EXCEPT ![i] = secrets + 1]
          ELSE UNCHANGED <<secrets, letters, mailed>>
    /\ Hear(c)
    /\ UNCHANGED <<deployment, now, failures>>

\* The schema, the mail service or a conflict with another transaction makes it fail:
\* nothing is stored, but the letter may have left.
RollBack(c) ==
    /\ command[c].at = "sent" /\ c \notin remembered
    /\ Admits(c)
    /\ IF Storable(After(c))
       THEN failures < MaxFailures /\ failures' = failures + 1
       ELSE UNCHANGED failures
    /\ \/ /\ Issues(c) /\ secrets < MaxSecrets
          /\ secrets' = secrets + 1
          /\ letters' = letters \cup {LetterOf(c)}
       \/ UNCHANGED <<secrets, letters>>
    /\ Hear(c)
    /\ UNCHANGED <<now, stored, mailed>>

Next ==
    \/ Tick
    \/ \E c \in Commands :
          \/ \E i \in Invitations :
                \/ \E r \in Recipients : AskIssue(c, i, r)
                \/ \E op \in Operations \ {"issue", "accept"} : Ask(c, op, i)
          \/ \E l \in letters : AskAccept(c, l)
          \/ Repeat(c)
          \/ AnswerAgain(c) \/ Refuse(c) \/ CarryOut(c) \/ RollBack(c)

Spec == Init /\ [][Next]_vars

-----------------------------------------------------------------------------
(***************************************************************************)
(* Properties                                                              *)
(***************************************************************************)
TypeOK ==
    /\ deployment \in Deployments /\ now \in Time
    /\ invitation \in [Invitations -> Invitation]
    /\ counter \in Nat /\ secrets \in 0 .. MaxSecrets /\ failures \in 0 .. MaxFailures
    /\ letters \subseteq Letter
    /\ command \in [Commands -> Command]
    /\ remembered \subseteq Commands
    /\ mailed \in [Invitations -> Secret \cup {NoSecret}]

\* D-88, D-95: whatever was repeated, refused or rolled back, no more invitations are open
\* than the beta has seats, and the counter of the schema never misses one of them.
SeatsAreLimited ==
    /\ Cardinality(Pending) <= Limit
    /\ Postgres => Cardinality(Pending) <= counter

\* D-91: an invitation opens, and an accepted one was opened, with the secret of the last
\* letter of a command that was carried out; its recipient holds that letter.  A letter of
\* a transaction that was rolled back opens nothing.
LastLetterOpens ==
    \A i \in Invitations :
       LET v == invitation[i] IN
       /\ v.status = "pending" =>
             v.secret = mailed[i] /\ [to |-> v.to, of |-> i, secret |-> v.secret] \in letters
       /\ v.status = "accepted" =>
             v.opened = mailed[i] /\ [to |-> v.to, of |-> i, secret |-> v.opened] \in letters

\* D-89: nobody has two open invitations, however many administrators invite at once.
OneOpenPerRecipient ==
    \A i, j \in Invitations :
       /\ invitation[i].status \in Open /\ invitation[j].status \in Open
       /\ invitation[i].to = invitation[j].to
       => i = j

\* D-94: a closed invitation is a historical record; a late or repeated command changes
\* nothing of it.
ClosedIsFinal ==
    [][\A i \in Invitations :
          invitation[i].status \in Closed => invitation'[i] = invitation[i]]_vars

\* D-88, D-94: the revocation of an open invitation, sent for its current version and met by
\* no failure, ends it.
RevocationEnds ==
    [][\A c \in Commands :
          /\ command[c].at = "sent" /\ command[c].op = "revoke" /\ Admits(c)
          /\ command'[c].at = "answered" /\ failures' = failures
          => invitation'[command[c].of].status = "revoked"]_vars

\* D-94, D-95: the counter of the schema is the number of open invitations.
SeatsAreCounted == Postgres => counter = Cardinality(Pending)

\* D-91: the newest letter of an open invitation is the one that opens it.
NewestLetterOpens ==
    \A i \in Pending, l \in letters : l.of = i => l.secret <= invitation[i].secret

\* D-95: whoever waits in the queue has received nothing.
QueuedHoldNothing ==
    \A i \in Invitations, l \in letters : invitation[i].status = "queued" => l.of # i
=============================================================================
