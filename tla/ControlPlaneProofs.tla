--------------------------- MODULE ControlPlaneProofs ---------------------------
(***************************************************************************)
(* Proofs about two independent parts of the control plane.                *)
(*                                                                         *)
(* BetaInvitations, for every finite set of invitations, any recipients    *)
(* and commands, any limit, validity and reminders, under the schema and   *)
(* under the port: the strengthening IInv adds that a stored invitation    *)
(* has a version, that a command of an issue expects none, and that the    *)
(* counter of the schema stays within the limit.                           *)
(*                                                                         *)
(* DiagnosticStream, for any set of streams and any bound: once the types  *)
(* are known (TypeCorrect), StreamInv relates the steps of one stream:     *)
(* what opening it has fixed, what a suspended read rests on, and how old  *)
(* a snapshot may be.                                                      *)
(***************************************************************************)
EXTENDS BetaInvitations, DiagnosticStream, FiniteSetTheorems, TLAPS

-----------------------------------------------------------------------------
(***************************************************************************)
(* Invitations: the inductive invariant                                    *)
(***************************************************************************)
CommandFits(o) ==
    o.at # "unused" =>
       /\ o.op \in Operations /\ o.of \in Invitations
       /\ o.op = "issue" => o.to \in Recipients /\ o.expects = 0
       /\ o.op = "accept" => o.secret \in Secret
CommandsFit == \A c \in Commands : CommandFits(command[c])

StoredHaveVersion == \A i \in Invitations : invitation[i].status # "absent" => invitation[i].version > 0

IInv == /\ TypeOK /\ CommandsFit /\ StoredHaveVersion
        /\ Postgres => counter <= Limit
        /\ SeatsAreLimited /\ LastLetterOpens /\ OneOpenPerRecipient

\* A deployment keeps its repository and its limit.
LEMMA Deployed ==
    ASSUME deployment \in Deployments
    PROVE  /\ Postgres \in BOOLEAN /\ Limit \in Nat
           /\ deployment' = deployment => Postgres' = Postgres /\ Limit' = Limit
BY InvitationAssumption DEF Postgres, Limit

-----------------------------------------------------------------------------
(***************************************************************************)
(* A transaction that is carried out                                       *)
(***************************************************************************)
\* What a command that is carried out saves, in the terms the invariants need.
LEMMA SavedFits ==
    ASSUME IInv, NEW c \in Commands, command[c].at = "sent", Admits(c),
           Issues(c) => secrets < MaxSecrets
    PROVE  LET v == invitation[command[c].of]  new == After(c) IN
           /\ new \in Invitation /\ new.version > 0
           /\ command[c].op = "issue" =>
                 /\ v.status = "absent" /\ new.to \in Recipients /\ ~Invited(new.to)
                 /\ Full => new.status = "queued"
                 /\ ~Full => new.status = "pending" /\ new.secret = secrets + 1
           /\ command[c].op # "issue" =>
                 /\ v.status = "pending" /\ new.to = v.to
                 /\ command[c].op \notin Closings => new.status = "pending"
                 /\ command[c].op \in Closings => new.status \in Closed
                 /\ new.status = "accepted" => new.opened = v.secret
                 /\ new.secret = IF Issues(c) THEN secrets + 1
                                 ELSE IF command[c].op \in Closings THEN NoSecret ELSE v.secret
<1> DEFINE v == invitation[command[c].of]  op == command[c].op  new == After(c)
<1>1. /\ op \in Operations /\ command[c].of \in Invitations /\ v \in Invitation
      /\ op = "issue" => command[c].to \in Recipients /\ command[c].expects = 0
      /\ op = "accept" => command[c].secret \in Secret
      /\ now \in Time /\ secrets \in 0 .. MaxSecrets
  BY DEF IInv, TypeOK, CommandsFit, CommandFits
<1>2. /\ v.status \in {"absent"} \cup Open \cup Closed
      /\ v.version \in Nat /\ v.to \in Recipients \cup {None} /\ v.expires \in Nat
      /\ v.window \in Time /\ v.reminders \in 0 .. MaxReminders
      /\ v.secret \in Secret \cup {NoSecret} /\ v.opened \in Secret \cup {NoSecret}
  BY <1>1 DEF Invitation
<1>3. op = "issue" => v.status = "absent" /\ ~Invited(command[c].to)
  BY <1>1, <1>2 DEF Admits, IInv, StoredHaveVersion
<1>4. op # "issue" => v.status = "pending"
  BY <1>1 DEF Admits, Live, Operations, Closings
<1>5. op = "remind" => v.reminders < MaxReminders
  BY DEF Admits
<1>6. op = "accept" => v.secret = command[c].secret
  BY DEF Admits
<1>7. Issues(c) => secrets + 1 \in Secret
  BY <1>1, InvitationAssumption DEF Secret
<1>8. now + Validity \in Nat
  BY <1>1, InvitationAssumption DEF Time
<1>9. new = [status    |-> CASE op = "issue" -> IF Full THEN "queued" ELSE "pending"
                             [] op \in Closings -> ClosedBy(op)
                             [] OTHER -> v.status,
             version   |-> v.version + 1,
             to        |-> IF op = "issue" THEN command[c].to ELSE v.to,
             expires   |-> IF Starts(c) THEN now + Validity ELSE v.expires,
             window    |-> IF op \in {"issue", "restart"} THEN now ELSE v.window,
             reminders |-> CASE op = "restart" -> 0
                             [] op = "remind" -> v.reminders + 1
                             [] OTHER -> v.reminders,
             secret    |-> IF Issues(c) THEN secrets + 1
                           ELSE IF op \in Closings THEN NoSecret ELSE v.secret,
             opened    |-> IF op = "accept" THEN command[c].secret ELSE v.opened]
  BY Zenon DEF After
<1> HIDE DEF new, op, v
<1>10. /\ op = "issue" => new.status \in Open /\ (Full => new.status = "queued")
                                              /\ (~Full => new.status = "pending")
       /\ op # "issue" /\ op \in Closings => new.status \in Closed
       /\ op # "issue" /\ op \notin Closings => new.status = "pending"
       /\ new.status = "accepted" => op = "accept"
  BY <1>1, <1>4, <1>9 DEF ClosedBy, Open, Closed, Closings, Operations
<1>11. new.status \in {"absent"} \cup Open \cup Closed
  BY <1>10 DEF Open
<1>12. new.version \in Nat /\ new.version > 0
  BY <1>2, <1>9
<1>13. new.to \in Recipients \cup {None} /\ new.expires \in Nat /\ new.window \in Time
  BY <1>1, <1>2, <1>8, <1>9
<1>14. new.reminders \in 0 .. MaxReminders
  BY <1>2, <1>5, <1>9 DEF MaxReminders
<1>15. new.secret \in Secret \cup {NoSecret} /\ new.opened \in Secret \cup {NoSecret}
  BY <1>1, <1>2, <1>7, <1>9
<1>16. new \in Invitation
  BY <1>9, <1>11, <1>12, <1>13, <1>14, <1>15 DEF Invitation
<1>17. op = "issue" => new.to \in Recipients /\ ~Invited(new.to)
  BY <1>1, <1>3, <1>9
<1>18. op = "issue" /\ ~Full => new.secret = secrets + 1
  BY <1>9 DEF Issues, op
<1>19. new.status = "accepted" /\ op # "issue" => new.opened = v.secret
  BY <1>6, <1>9, <1>10
<1>20. op # "issue" => new.to = v.to
  BY <1>9
<1>21. QED
  BY <1>3, <1>4, <1>9, <1>10, <1>12, <1>16, <1>17, <1>18, <1>19, <1>20 DEF new, op, v

\* The seats: a command that is carried out moves one invitation into the pending ones or
\* out of them, and the counter of the schema at least as far.
LEMMA SeatsMove ==
    ASSUME IInv, NEW c \in Commands, CarryOut(c)
    PROVE  /\ SeatsAreLimited' /\ counter' \in Nat
           /\ (Postgres => counter <= Limit)'
<1> DEFINE i == command[c].of  v == invitation[i]  new == After(c)
<1>1. /\ i \in Invitations /\ new \in Invitation /\ command[c].at = "sent" /\ Admits(c)
      /\ command[c].op = "issue" => v.status = "absent" /\ (Full => new.status = "queued")
      /\ command[c].op # "issue" => v.status = "pending"
  BY SavedFits DEF CarryOut, IInv, CommandsFit, CommandFits
<1>2. /\ invitation' = [invitation EXCEPT ![i] = new]
      /\ counter' = Counted(v, new) /\ Storable(new)
      /\ Postgres \in BOOLEAN /\ Postgres' = Postgres /\ Limit' = Limit
  BY Deployed DEF CarryOut, IInv, TypeOK
<1>3. /\ IsFiniteSet(Pending) /\ Cardinality(Pending) \in Nat
      /\ counter \in Nat /\ Cardinality(Pending) <= Limit /\ Limit \in Nat
      /\ Postgres => Cardinality(Pending) <= counter /\ counter <= Limit
  BY FS_Subset, FS_CardinalityType, InvitationAssumption, Deployed
     DEF IInv, TypeOK, SeatsAreLimited, Pending
<1>4. \A j \in Invitations : invitation'[j] = IF j = i THEN new ELSE invitation[j]
  BY <1>1, <1>2 DEF IInv, TypeOK
<1> HIDE DEF i, v, new
<1>5. CASE new.status = "pending"
  <2>1. Pending' = Pending \cup {i}
    BY <1>1, <1>4, <1>5 DEF Pending
  <2>2. Cardinality(Pending') = IF i \in Pending THEN Cardinality(Pending) ELSE Cardinality(Pending) + 1
    BY <1>3, <2>1, FS_AddElement
  <2>3. Postgres => counter' = counter + 1 /\ counter < Limit
    BY <1>2, <1>5 DEF Counted, Storable
  <2>4. ~Postgres => counter' = counter
    BY <1>2 DEF Counted
  <2>5. ~Postgres /\ i \notin Pending => Cardinality(Pending) < Limit
    <3>1. SUFFICES ASSUME ~Postgres, i \notin Pending PROVE Cardinality(Pending) < Limit
      OBVIOUS
    <3>2. ~Full
      BY <1>1, <1>5, <3>1 DEF Pending, v
    <3>3. QED BY <1>3, <3>1, <3>2 DEF Full, Taken
  <2>6. QED BY <1>2, <1>3, <2>2, <2>3, <2>4, <2>5, InvitationAssumption DEF SeatsAreLimited
<1>6. CASE new.status # "pending"
  <2>1. Pending' = Pending \ {i}
    BY <1>1, <1>4, <1>6 DEF Pending
  <2>2. Cardinality(Pending') = IF i \in Pending THEN Cardinality(Pending) - 1 ELSE Cardinality(Pending)
    BY <1>3, <2>1, FS_RemoveElement
  <2>3. i \in Pending <=> v.status = "pending"
    BY <1>1 DEF Pending, v
  <2>4. i \in Pending => Cardinality(Pending) > 0
    <3>1. i \in Pending => Cardinality(Pending \ {i}) \in Nat
      BY <1>3, FS_RemoveElement, FS_CardinalityType
    <3>2. QED BY <1>3, <2>1, <2>2, <3>1
  <2>5. /\ Postgres /\ i \in Pending => counter' = counter - 1
        /\ ~Postgres \/ i \notin Pending => counter' = counter
    BY <1>2, <1>6, <2>3 DEF Counted
  <2>6. QED BY <1>2, <1>3, <2>2, <2>4, <2>5, InvitationAssumption DEF SeatsAreLimited
<1>7. QED BY <1>5, <1>6

\* The letter of a command that issues a secret is one.
LEMMA LetterFits ==
    ASSUME IInv, NEW c \in Commands, command[c].at = "sent", Admits(c), Issues(c),
           secrets < MaxSecrets
    PROVE  LetterOf(c) \in Letter /\ secrets + 1 \in Secret
<1>1. secrets + 1 \in Secret /\ command[c].of \in Invitations
  BY InvitationAssumption DEF IInv, TypeOK, Secret, CommandsFit, CommandFits
<1>2. After(c).to \in Recipients
  <2>1. CASE command[c].op = "issue"
    BY <2>1, SavedFits
  <2>2. CASE command[c].op # "issue"
    <3>1. /\ invitation[command[c].of].status = "pending"
          /\ After(c).to = invitation[command[c].of].to
      BY <2>2, SavedFits
    <3>2. QED BY <1>1, <3>1 DEF IInv, TypeOK, LastLetterOpens, Letter
  <2>3. QED BY <2>1, <2>2
<1>3. QED BY <1>1, <1>2 DEF LetterOf, Letter

\* The invariants of the invitations survive a command that is carried out.
LEMMA CarryOutPreserves ==
    ASSUME IInv, NEW c \in Commands, CarryOut(c)
    PROVE  IInv'
<1> DEFINE i == command[c].of  v == invitation[i]  new == After(c)  op == command[c].op
<1>1. /\ command[c].at = "sent" /\ Admits(c) /\ (Issues(c) => secrets < MaxSecrets)
      /\ i \in Invitations /\ op \in Operations
      /\ invitation' = [invitation EXCEPT ![i] = new]
      /\ remembered' = remembered \cup {c}
      /\ command' = [command EXCEPT ![c].at = "answered"]
      /\ now' = now /\ failures' = failures /\ deployment' = deployment
      /\ IF Issues(c)
         THEN /\ secrets' = secrets + 1
              /\ letters' = letters \cup {LetterOf(c)}
              /\ mailed' = [mailed EXCEPT ![i] = secrets + 1]
         ELSE UNCHANGED <<secrets, letters, mailed>>
  BY DEF CarryOut, Hear, IInv, CommandsFit, CommandFits
<1>2. /\ new \in Invitation /\ new.version > 0
      /\ op = "issue" =>
            /\ v.status = "absent" /\ new.to \in Recipients /\ ~Invited(new.to)
            /\ Full => new.status = "queued"
            /\ ~Full => new.status = "pending" /\ new.secret = secrets + 1
      /\ op # "issue" =>
            /\ v.status = "pending" /\ new.to = v.to
            /\ op \notin Closings => new.status = "pending"
            /\ op \in Closings => new.status \in Closed
            /\ new.status = "accepted" => new.opened = v.secret
            /\ new.secret = IF Issues(c) THEN secrets + 1
                            ELSE IF op \in Closings THEN NoSecret ELSE v.secret
  BY <1>1, SavedFits
<1>3. Issues(c) => LetterOf(c) \in Letter /\ secrets + 1 \in Secret
  BY <1>1, LetterFits
<1>4. LetterOf(c) = [to |-> new.to, of |-> i, secret |-> secrets + 1]
  BY DEF LetterOf
<1>5. Issues(c) <=> op \in {"preserve", "restart"} \/ (op = "issue" /\ ~Full)
  BY DEF Issues
<1>6. \A j \in Invitations : invitation'[j] = IF j = i THEN new ELSE invitation[j]
  BY <1>1 DEF IInv, TypeOK
<1>7. \A j \in Invitations : mailed'[j] = IF j = i /\ Issues(c) THEN secrets + 1 ELSE mailed[j]
  BY <1>1 DEF IInv, TypeOK
<1> HIDE DEF i, v, new, op
<1>8. letters \subseteq letters'
  BY <1>1
<1>9. TypeOK'
  <2>1. command' \in [Commands -> Command]
    BY <1>1 DEF IInv, TypeOK, Command
  <2>2. invitation' \in [Invitations -> Invitation]
    BY <1>1, <1>2 DEF IInv, TypeOK
  <2>3. mailed' \in [Invitations -> Secret \cup {NoSecret}]
    BY <1>1, <1>3 DEF IInv, TypeOK
  <2>4. letters' \subseteq Letter /\ secrets' \in 0 .. MaxSecrets
    BY <1>1, <1>3 DEF IInv, TypeOK, Secret
  <2>5. QED BY <1>1, <2>1, <2>2, <2>3, <2>4, SeatsMove DEF IInv, TypeOK
<1>10. CommandsFit'
  <2>1. \A d \in Commands : /\ command'[d].op = command[d].op /\ command'[d].of = command[d].of
                            /\ command'[d].to = command[d].to
                            /\ command'[d].expects = command[d].expects
                            /\ command'[d].secret = command[d].secret
                            /\ command'[d].at # "unused" => command[d].at # "unused"
    BY <1>1 DEF IInv, TypeOK, Command
  <2>2. QED BY <2>1 DEF IInv, CommandsFit, CommandFits
<1>11. StoredHaveVersion'
  BY <1>2, <1>6 DEF IInv, StoredHaveVersion
<1>12. (Postgres => counter <= Limit)' /\ SeatsAreLimited'
  BY SeatsMove
<1>13. LastLetterOpens'
  <2> SUFFICES ASSUME NEW j \in Invitations
               PROVE  /\ invitation'[j].status = "pending" =>
                            /\ invitation'[j].secret = mailed'[j]
                            /\ [to |-> invitation'[j].to, of |-> j,
                                secret |-> invitation'[j].secret] \in letters'
                      /\ invitation'[j].status = "accepted" =>
                            /\ invitation'[j].opened = mailed'[j]
                            /\ [to |-> invitation'[j].to, of |-> j,
                                secret |-> invitation'[j].opened] \in letters'
    BY DEF LastLetterOpens
  <2>1. CASE j # i
    BY <1>6, <1>7, <1>8, <2>1 DEF IInv, LastLetterOpens
  <2>2. CASE j = i /\ Issues(c)
    <3>1. new.status # "accepted" /\ (new.status = "pending" => new.secret = secrets + 1)
      BY <1>2, <1>5, <2>2 DEF Closings
    <3>2. LetterOf(c) \in letters' /\ mailed'[j] = secrets + 1 /\ invitation'[j] = new
      BY <1>1, <1>6, <1>7, <2>2
    <3>3. QED BY <1>4, <2>2, <3>1, <3>2
  <2>3. CASE j = i /\ ~Issues(c)
    <3>1. /\ mailed'[j] = mailed[j] /\ invitation'[j] = new /\ letters' = letters
      BY <1>1, <1>6, <1>7, <2>3
    <3>2. CASE op = "issue"
      BY <1>2, <1>5, <2>3, <3>1, <3>2
    <3>3. CASE op # "issue"
      <4>1. v.secret = mailed[i] /\ [to |-> v.to, of |-> i, secret |-> v.secret] \in letters
        BY <1>1, <1>2, <3>3 DEF IInv, LastLetterOpens, v
      <4>2. /\ new.to = v.to
            /\ new.status = "pending" => new.secret = v.secret
            /\ new.status = "accepted" => new.opened = v.secret
        BY <1>2, <2>3, <3>3 DEF Closed
      <4>3. QED BY <2>3, <3>1, <4>1, <4>2
    <3>4. QED BY <3>2, <3>3
  <2>4. QED BY <2>1, <2>2, <2>3
<1>14. OneOpenPerRecipient'
  <2> SUFFICES ASSUME NEW j \in Invitations, NEW k \in Invitations, j # k,
                      invitation'[j].status \in Open, invitation'[k].status \in Open,
                      invitation'[j].to = invitation'[k].to
               PROVE  FALSE
    BY DEF OneOpenPerRecipient
  <2>1. CASE op = "issue"
    BY <1>2, <1>6, <2>1 DEF IInv, OneOpenPerRecipient, Invited
  <2>2. CASE op # "issue"
    <3>1. \A m \in Invitations : invitation'[m].to = invitation[m].to
      BY <1>2, <1>6, <2>2 DEF v
    <3>2. \A m \in Invitations : invitation'[m].status \in Open => invitation[m].status \in Open
      BY <1>2, <1>6, <2>2 DEF v, Open
    <3>3. QED BY <3>1, <3>2 DEF IInv, OneOpenPerRecipient
  <2>3. QED BY <2>1, <2>2
<1>15. QED BY <1>9, <1>10, <1>11, <1>12, <1>13, <1>14 DEF IInv

-----------------------------------------------------------------------------
(***************************************************************************)
(* Every step                                                              *)
(***************************************************************************)
\* What the steps share that store nothing: they read commands, and letters may leave.
LEMMA StoresNothing ==
    ASSUME IInv, TypeOK', CommandsFit', UNCHANGED <<stored, mailed>>, letters \subseteq letters'
    PROVE  IInv'
<1>1. /\ invitation' = invitation /\ counter' = counter /\ mailed' = mailed /\ Pending' = Pending
      /\ Postgres' = Postgres /\ Limit' = Limit
  BY Deployed DEF IInv, TypeOK, stored, Pending
<1>2. StoredHaveVersion' /\ (Postgres => counter <= Limit)' /\ SeatsAreLimited'
  BY <1>1 DEF IInv, StoredHaveVersion, SeatsAreLimited
<1>3. LastLetterOpens' /\ OneOpenPerRecipient'
  BY <1>1 DEF IInv, LastLetterOpens, OneOpenPerRecipient
<1>4. QED BY <1>2, <1>3 DEF IInv

\* A command that is answered or sent again keeps what it says.
LEMMA CommandsKeep ==
    ASSUME IInv, NEW c \in Commands, command[c].at # "unused",
           NEW where \in {"sent", "answered"},
           command' = [command EXCEPT ![c].at = where]
    PROVE  command' \in [Commands -> Command] /\ CommandsFit'
<1>1. command' \in [Commands -> Command]
  BY DEF IInv, TypeOK, Command
<1>2. \A d \in Commands : /\ command'[d].op = command[d].op /\ command'[d].of = command[d].of
                          /\ command'[d].to = command[d].to
                          /\ command'[d].expects = command[d].expects
                          /\ command'[d].secret = command[d].secret
                          /\ command'[d].at # "unused" => command[d].at # "unused"
  BY DEF IInv, TypeOK, Command
<1>3. CommandsFit'
  BY <1>2 DEF IInv, CommandsFit, CommandFits
<1>4. QED BY <1>1, <1>3

\* A new command is one the program can receive.
LEMMA CommandsArrive ==
    ASSUME IInv, NEW c \in Commands, NEW order \in Command, CommandFits(order), Put(c, order)
    PROVE  IInv'
<1>1. command' \in [Commands -> Command]
  BY DEF IInv, TypeOK, Put
<1>2. TypeOK'
  BY <1>1 DEF IInv, TypeOK, Put, stored
<1>3. \A d \in Commands : command'[d] = IF d = c THEN order ELSE command[d]
  BY DEF IInv, TypeOK, Put
<1>4. CommandsFit'
  BY <1>3 DEF IInv, CommandsFit, CommandFits
<1>5. QED BY <1>2, <1>4, StoresNothing DEF Put, stored

LEMMA Initial == Init => IInv
<1> SUFFICES ASSUME Init PROVE IInv
  OBVIOUS
<1>1. Absent \in Invitation
  BY InvitationAssumption DEF Absent, Invitation, Time, NoSecret, MaxReminders
<1>2. Unused \in Command
  BY DEF Unused, Command
<1>3. TypeOK
  BY <1>1, <1>2, InvitationAssumption DEF Init, TypeOK, Time
<1>4. CommandsFit /\ StoredHaveVersion
  BY DEF Init, CommandsFit, CommandFits, Unused, StoredHaveVersion, Absent
<1>5. \A i \in Invitations : invitation[i].status = "absent"
  BY DEF Init, Absent
<1>6. SeatsAreLimited /\ (Postgres => counter <= Limit)
  <2>1. Pending = {}
    BY <1>5 DEF Pending
  <2>2. QED BY <2>1, FS_EmptySet, Deployed DEF Init, SeatsAreLimited
<1>7. LastLetterOpens /\ OneOpenPerRecipient
  BY <1>5 DEF LastLetterOpens, OneOpenPerRecipient, Open
<1>8. QED BY <1>3, <1>4, <1>6, <1>7 DEF IInv

LEMMA Inductive == IInv /\ [Next]_vars => IInv'
<1> SUFFICES ASSUME IInv, [Next]_vars PROVE IInv'
  OBVIOUS
<1>1. CASE Tick
  <2>1. TypeOK' /\ CommandsFit'
    BY <1>1, InvitationAssumption DEF Tick, stored, IInv, TypeOK, Time, CommandsFit
  <2>2. QED BY <1>1, <2>1, StoresNothing DEF Tick, stored
<1>2. ASSUME NEW c \in Commands, NEW i \in Invitations, NEW r \in Recipients, AskIssue(c, i, r)
      PROVE  IInv'
  <2> DEFINE order == [at |-> "sent", op |-> "issue", of |-> i, to |-> r, expects |-> 0,
                       secret |-> NoSecret]
  <2>1. order \in Command /\ CommandFits(order)
    BY DEF Command, CommandFits, Operations
  <2>2. QED BY <1>2, <2>1, CommandsArrive DEF AskIssue
<1>3. ASSUME NEW c \in Commands, NEW i \in Invitations,
             NEW op \in Operations \ {"issue", "accept"}, Ask(c, op, i)
      PROVE  IInv'
  <2> DEFINE order == [at |-> "sent", op |-> op, of |-> i, to |-> None,
                       expects |-> invitation[i].version, secret |-> NoSecret]
  <2>1. invitation[i].version \in Nat
    BY DEF IInv, TypeOK, Invitation
  <2>2. order \in Command /\ CommandFits(order)
    BY <2>1 DEF Command, CommandFits
  <2>3. QED BY <1>3, <2>2, CommandsArrive DEF Ask
<1>4. ASSUME NEW c \in Commands, NEW l \in letters, AskAccept(c, l)
      PROVE  IInv'
  <2> DEFINE order == [at |-> "sent", op |-> "accept", of |-> l.of, to |-> None,
                       expects |-> invitation[l.of].version, secret |-> l.secret]
  <2>1. l.of \in Invitations /\ l.secret \in Secret
    BY DEF IInv, TypeOK, Letter
  <2>2. invitation[l.of].version \in Nat
    BY <2>1 DEF IInv, TypeOK, Invitation
  <2>3. order \in Command /\ CommandFits(order)
    BY <2>1, <2>2 DEF Command, CommandFits, Operations, Closings
  <2>4. QED BY <1>4, <2>3, CommandsArrive DEF AskAccept
<1>5. ASSUME NEW c \in Commands, Repeat(c) \/ AnswerAgain(c) \/ Refuse(c)
      PROVE  IInv'
  <2>1. command' \in [Commands -> Command] /\ CommandsFit'
    BY <1>5, CommandsKeep DEF Repeat, AnswerAgain, Refuse, Hear
  <2>2. UNCHANGED <<now, stored, secrets, letters, mailed, failures>>
    BY <1>5 DEF Repeat, AnswerAgain, Refuse
  <2>3. TypeOK'
    BY <2>1, <2>2 DEF IInv, TypeOK, stored
  <2>4. QED BY <2>1, <2>2, <2>3, StoresNothing DEF stored
<1>6. ASSUME NEW c \in Commands, CarryOut(c)
      PROVE  IInv'
  BY <1>6, CarryOutPreserves
<1>7. ASSUME NEW c \in Commands, RollBack(c)
      PROVE  IInv'
  <2>1. command' \in [Commands -> Command] /\ CommandsFit'
    BY <1>7, CommandsKeep DEF RollBack, Hear
  <2>2. letters \subseteq letters' /\ letters' \subseteq Letter /\ secrets' \in 0 .. MaxSecrets
    <3>1. CASE Issues(c) /\ secrets < MaxSecrets /\ secrets' = secrets + 1
                         /\ letters' = letters \cup {LetterOf(c)}
      BY <1>7, <3>1, LetterFits DEF RollBack, IInv, TypeOK, Secret
    <3>2. CASE UNCHANGED <<secrets, letters>>
      BY <3>2 DEF IInv, TypeOK
    <3>3. QED BY <1>7, <3>1, <3>2 DEF RollBack
  <2>3. failures' \in 0 .. MaxFailures
    BY <1>7, InvitationAssumption DEF RollBack, IInv, TypeOK
  <2>4. UNCHANGED <<now, stored, mailed>>
    BY <1>7 DEF RollBack
  <2>5. TypeOK'
    BY <2>1, <2>2, <2>3, <2>4 DEF IInv, TypeOK, stored
  <2>6. QED BY <2>1, <2>2, <2>4, <2>5, StoresNothing DEF stored
<1>8. CASE UNCHANGED vars
  <2>1. TypeOK' /\ CommandsFit'
    BY <1>8 DEF vars, stored, IInv, TypeOK, CommandsFit
  <2>2. QED BY <1>8, <2>1, StoresNothing DEF vars, stored
<1>9. QED BY <1>1, <1>2, <1>3, <1>4, <1>5, <1>6, <1>7, <1>8 DEF Next

\* The strengthening holds in every reachable state.
THEOREM InvitationsInductive == Spec => []IInv
<1>1. QED BY Initial, Inductive, PTL DEF Spec

\* Type correctness of the invitations, their secrets and letters, and the commands, for
\* any parameters (the columns of admin_invitations and the bounds of its CHECKs).
THEOREM InvitationsTyped == Spec => []TypeOK
<1>1. IInv => TypeOK
  BY DEF IInv
<1>2. QED BY <1>1, InvitationsInductive, PTL

\* No more invitations are open than the beta has seats, under the schema and under the
\* port (decideBetaInvitationAdmission, enforce_admin_beta_invitation_capacity).
THEOREM SeatsAlwaysLimited == Spec => []SeatsAreLimited
<1>1. IInv => SeatsAreLimited
  BY DEF IInv
<1>2. QED BY <1>1, InvitationsInductive, PTL

\* The last letter of a command that was carried out is the one that opens an invitation,
\* and its recipient holds it (invalidateSecretDigest, saveSecretDigest, handoff).
THEOREM LastLetterAlwaysOpens == Spec => []LastLetterOpens
<1>1. IInv => LastLetterOpens
  BY DEF IInv
<1>2. QED BY <1>1, InvitationsInductive, PTL

\* Nobody has two open invitations (findActiveRecipient).
THEOREM OneOpenInvitation == Spec => []OneOpenPerRecipient
<1>1. IInv => OneOpenPerRecipient
  BY DEF IInv
<1>2. QED BY <1>1, InvitationsInductive, PTL

\* A closed invitation never changes again (decideBetaInvitationTransition).
THEOREM ClosedStaysClosed == Spec => ClosedIsFinal
<1>1. IInv /\ [Next]_vars => [\A i \in Invitations :
          invitation[i].status \in Closed => invitation'[i] = invitation[i]]_vars
  <2> SUFFICES ASSUME IInv, Next, NEW i \in Invitations, invitation[i].status \in Closed
               PROVE  invitation'[i] = invitation[i]
    OBVIOUS
  <2>1. ASSUME NEW c \in Commands, CarryOut(c)
        PROVE  invitation'[i] = invitation[i]
    <3>1. /\ invitation[command[c].of].status \in {"absent", "pending"}
          /\ invitation' = [invitation EXCEPT ![command[c].of] = After(c)]
      BY <2>1, SavedFits DEF CarryOut
    <3>2. QED BY <3>1 DEF IInv, TypeOK, Closed
  <2>2. CASE \A c \in Commands : ~CarryOut(c)
    BY <2>2 DEF Next, Tick, AskIssue, Ask, AskAccept, Put, Repeat, AnswerAgain, Refuse,
                RollBack, stored
  <2>3. QED BY <2>1, <2>2
<1>2. QED BY <1>1, InvitationsInductive, PTL DEF Spec, ClosedIsFinal

-----------------------------------------------------------------------------
(***************************************************************************)
(* Diagnostic streams: the inductive invariant                             *)
(***************************************************************************)
\* Before it starts, a stream has nothing to close; once it has a version, the version is
\* one of a consent; an open stream has its receipt, and only an open stream is read.
Opened ==
    \A s \in Streams :
        /\ at[s] \in {"idle", "asking", "storing"} => closed[s] = "no" /\ reader[s] = "none"
        /\ at[s] \in {"storing", "receipting", "open"} => expected[s] # NoVersion
        /\ at[s] = "open" => receipts[s] = expected[s]
        /\ reading[s] # "none" => at[s] = "open"

\* Only a stream that has started has a listener.
Listening ==
    \A s \in Streams :
        subscribed[s] \/ rung[s] => at[s] \notin {"idle", "asking", "storing"}

\* An active consent has a version, in the authority and in every snapshot.
Versioned ==
    /\ consent.state = "active" => consent.version # NoVersion
    /\ \A s \in Streams : seen[s].state = "active" => seen[s].version # NoVersion

\* Bytes that came late stay late, and the snapshot taken after them shows it.
LateIsSeen ==
    \A s \in Streams :
        late[s] => /\ Ended
                   /\ reading[s] = "after" => seen[s].state # "active" \/ lapsed

StreamInv == Opened /\ Listening /\ Versioned /\ LateIsSeen /\ ReadersAreListening

\* What terminate leaves: streams other than s are as before, and a reader that is still
\* held belongs to a stream that has not been touched.
LEMMA TerminateEffect ==
    ASSUME StreamTypeOK, NEW s \in Streams, NEW reason \in AbortReasons \cup {"complete"},
           Terminate(s, reason)
    PROVE  /\ closed' \in [Streams -> AbortReasons \cup {"no", "complete"}]
           /\ reader' \in [Streams -> {"none", "held", "disposed"}]
           /\ buffers' \in [Streams -> Nat]
           /\ subscribed' \in [Streams -> BOOLEAN]
           /\ \A t \in Streams :
                 /\ t # s => closed'[t] = closed[t] /\ reader'[t] = reader[t]
                 /\ buffers'[t] <= buffers[t]
                 /\ subscribed'[t] => subscribed[t]
                 /\ reader'[t] = "held" => /\ reader[t] = "held"
                                           /\ closed'[t] = closed[t]
                                           /\ subscribed'[t] = subscribed[t]
           /\ closed'[s] # "no"
           /\ closed[s] = "no" => reader'[s] = "disposed"
  <1>1. CASE closed[s] # "no"
    BY <1>1 DEF Terminate, StreamTypeOK, ending
  <1>2. CASE closed[s] = "no"
    <2>1. /\ closed' = [closed EXCEPT ![s] = reason]
          /\ buffers' = [buffers EXCEPT ![s] = 0]
          /\ subscribed' = [subscribed EXCEPT ![s] = FALSE]
          /\ reader' = [reader EXCEPT ![s] = "disposed"]
      BY <1>2 DEF Terminate
    <2> QED
      BY <1>2, <2>1 DEF StreamTypeOK, AbortReasons
  <1> QED
    BY <1>1, <1>2

LEMMA VerdictType ==
    ASSUME NEW snapshot \in Snapshot, NEW version \in Nat
    PROVE  /\ Verdict(snapshot, version) \in Verdicts
           /\ Verdict(snapshot, version) # "granted" =>
                 AbortReason(Verdict(snapshot, version)) \in AbortReasons
           /\ Verdict(snapshot, version) = "granted" =>
                 /\ snapshot.state = "active" /\ ~lapsed
                 /\ version # NoVersion => snapshot.version = version
  BY DEF Verdict, AbortReason, Verdicts, AbortReasons, Snapshot, States, NoVersion

LEMMA ReadConsentEffect ==
    ASSUME StreamTypeOK, NEW s \in Streams, ReadConsent(s)
    PROVE  /\ seen' \in [Streams -> Snapshot]
           /\ \A t \in Streams : t # s => seen'[t] = seen[t]
           /\ seen'[s] = consent \/ seen'[s] = Unavailable
  <1>1. consent \in Snapshot /\ Unavailable \in Snapshot
    BY DEF StreamTypeOK, Snapshot, Unavailable
  <1>2. PICK answer \in {consent, Unavailable} : seen' = [seen EXCEPT ![s] = answer]
    BY DEF ReadConsent
  <1> QED
    BY <1>1, <1>2 DEF StreamTypeOK

\* What a terminated or resumed read leaves of its stream's types.
LEMMA AbortTypes ==
    ASSUME StreamTypeOK, NEW s \in Streams, NEW reason \in AbortReasons \cup {"complete"},
           Abort(s, reason)
    PROVE  /\ closed' \in [Streams -> AbortReasons \cup {"no", "complete"}]
           /\ reader' \in [Streams -> {"none", "held", "disposed"}]
           /\ buffers' \in [Streams -> Nat]
           /\ subscribed' \in [Streams -> BOOLEAN]
           /\ reading' = [reading EXCEPT ![s] = "none"]
  BY TerminateEffect DEF Abort, Suspend

LEMMA InitTypes == StreamInit => StreamTypeOK
  <1>1. Unavailable \in Snapshot
    BY DEF Unavailable, Snapshot
  <1>2. [state |-> "active", version |-> 1] \in [state : States, version : Nat]
    BY DEF States
  <1>3. StreamInit => seen \in [Streams -> Snapshot]
    BY <1>1 DEF StreamInit
  <1>4. StreamInit => /\ subscribed \in [Streams -> BOOLEAN] /\ rung \in [Streams -> BOOLEAN]
                /\ late \in [Streams -> BOOLEAN] /\ lapsed \in BOOLEAN
                /\ unpublished \in BOOLEAN
    <2>1. [s \in Streams |-> FALSE] \in [Streams -> BOOLEAN]
      OBVIOUS
    <2> QED
      BY <2>1, Zenon DEF StreamInit
  <1>5. StreamInit => /\ expected \in [Streams -> Nat] /\ buffers \in [Streams -> Nat]
                /\ receipts \in [Streams -> Nat]
    BY DEF StreamInit, NoVersion
  <1>6. StreamInit => closed \in [Streams -> AbortReasons \cup {"no", "complete"}]
    BY DEF StreamInit
  <1> QED
    BY <1>2, <1>3, <1>4, <1>5, <1>6 DEF StreamInit, StreamTypeOK

\* The consent's own steps keep the types.
LEMMA AuthorityTypes ==
    ASSUME StreamTypeOK, Lapse \/ Revoke \/ Expire \/ ReopenCase \/ EraseAccount \/ Publish
    PROVE  StreamTypeOK'
  <1>1. CASE Lapse
    BY <1>1 DEF Lapse, StreamTypeOK, ending
  <1>2. ASSUME NEW state \in States, NEW notify \in BOOLEAN, EndAs(state, notify)
        PROVE  StreamTypeOK'
    <2>1. consent' \in [state : States, version : Nat]
      BY <1>2 DEF EndAs, StreamTypeOK
    <2> QED
      BY <1>2, <2>1 DEF EndAs, StreamTypeOK, ending
  <1>3. CASE Revoke
    BY <1>2, <1>3 DEF Revoke, States
  <1>4. CASE Expire
    BY <1>2, <1>4 DEF Expire, States
  <1>5. CASE ReopenCase
    BY <1>2, <1>5 DEF ReopenCase, States
  <1>6. CASE EraseAccount
    <2>1. consent' \in [state : States, version : Nat]
      BY <1>6 DEF EraseAccount, States
    <2> QED
      BY <1>6, <2>1 DEF EraseAccount, StreamTypeOK, ending
  <1>7. CASE Publish
    BY <1>7 DEF Publish, StreamTypeOK, ending
  <1> QED
    BY <1>1, <1>3, <1>4, <1>5, <1>6, <1>7

\* So do the steps that open a stream.
LEMMA OpeningTypes ==
    ASSUME StreamTypeOK, NEW s \in Streams, Opening(s)
    PROVE  StreamTypeOK'
  <1>1. CASE AskAuthority(s)
    <2>1. seen' \in [Streams -> Snapshot]
      BY <1>1, ReadConsentEffect DEF AskAuthority
    <2> QED
      BY <1>1, <2>1 DEF AskAuthority, StreamTypeOK, authority, ending
  <1>2. CASE Admit(s)
    <2>1. seen[s].version \in Nat
      BY DEF StreamTypeOK, Snapshot
    <2>2. expected' \in [Streams -> Nat] /\ at' \in [Streams -> {"idle", "asking", "storing",
                                                            "receipting", "open", "denied"}]
      BY <1>2, <2>1 DEF Admit, Deny, StreamTypeOK
    <2> QED
      BY <1>2, <2>2 DEF Admit, StreamTypeOK, authority, ending
  <1>3. CASE StoreFails(s)
    BY <1>3 DEF StoreFails, Deny, StreamTypeOK, authority, ending
  <1>4. CASE StartFails(s)
    BY <1>4 DEF StartFails, Deny, StreamTypeOK, authority
  <1>5. CASE Start(s)
    BY <1>5 DEF Start, StreamTypeOK, authority
  <1>6. CASE AppendReceipt(s)
    BY <1>6 DEF AppendReceipt, StreamTypeOK, authority, ending
  <1>7. CASE ReceiptFails(s)
    <2>1. /\ closed' \in [Streams -> AbortReasons \cup {"no", "complete"}]
          /\ reader' \in [Streams -> {"none", "held", "disposed"}]
          /\ buffers' \in [Streams -> Nat]
          /\ subscribed' \in [Streams -> BOOLEAN]
      BY <1>7, TerminateEffect DEF ReceiptFails
    <2> QED
      BY <1>7, <2>1 DEF ReceiptFails, Deny, StreamTypeOK, authority
  <1> QED
    BY <1>1, <1>2, <1>3, <1>4, <1>5, <1>6, <1>7 DEF Opening

\* And the steps of an open stream.
LEMMA OpenTypes ==
    ASSUME StreamTypeOK, NEW s \in Streams, Read(s) \/ Suspended(s) \/ Notified(s) \/ Close(s)
    PROVE  StreamTypeOK'
  <1> DEFINE EndingTypes == /\ closed' \in [Streams -> AbortReasons \cup {"no", "complete"}]
                            /\ reader' \in [Streams -> {"none", "held", "disposed"}]
                            /\ buffers' \in [Streams -> Nat]
                            /\ subscribed' \in [Streams -> BOOLEAN]
             ReadingType == reading' \in [Streams -> {"none", "before", "storage", "inspecting",
                                                     "after"}]
  <1>a. seen[s] \in Snapshot /\ expected[s] \in Nat
    BY DEF StreamTypeOK
  <1>b. UNCHANGED ending => EndingTypes
    BY DEF StreamTypeOK, ending
  <1>c. ASSUME NEW reason \in AbortReasons \cup {"complete"}, Abort(s, reason)
        PROVE  EndingTypes /\ ReadingType
    BY <1>c, AbortTypes DEF StreamTypeOK
  <1>d. ASSUME NEW where \in {"none", "before", "storage", "inspecting", "after"},
               Suspend(s, where)
        PROVE  ReadingType
    BY <1>d DEF Suspend, StreamTypeOK
  <1>1. CASE Read(s)
    <2>1. seen' \in [Streams -> Snapshot] /\ ReadingType /\ EndingTypes
      BY <1>1, <1>b, <1>d, ReadConsentEffect DEF Read
    <2> QED
      BY <1>1, <2>1 DEF Read, StreamTypeOK, authority
  <1>2. CASE CheckBefore(s)
    <2>1. EndingTypes /\ ReadingType
      BY <1>2, <1>a, <1>b, <1>c, <1>d, VerdictType DEF CheckBefore
    <2> QED
      BY <1>2, <2>1 DEF CheckBefore, StreamTypeOK, authority
  <1>3. CASE StorageAnswers(s)
    <2>1. EndingTypes /\ ReadingType
      BY <1>3, <1>b, <1>c, <1>d DEF StorageAnswers, AbortReasons
    <2>2. late' \in [Streams -> BOOLEAN]
      BY <1>3 DEF StorageAnswers, StreamTypeOK, Ended
    <2> QED
      BY <1>3, <2>1, <2>2 DEF StorageAnswers, StreamTypeOK, authority
  <1>4. CASE StorageEnds(s)
    <2>1. EndingTypes /\ ReadingType
      BY <1>4, <1>c DEF StorageEnds, AbortReasons
    <2> QED
      BY <1>4, <2>1 DEF StorageEnds, StreamTypeOK, authority
  <1>5. CASE Inspect(s)
    <2>1. seen' \in [Streams -> Snapshot] /\ ReadingType /\ EndingTypes
      BY <1>5, <1>b, <1>d, ReadConsentEffect DEF Inspect
    <2> QED
      BY <1>5, <2>1 DEF Inspect, StreamTypeOK, authority
  <1>6. CASE Reject(s)
    <2>1. EndingTypes /\ ReadingType
      BY <1>6, <1>c DEF Reject, AbortReasons
    <2> QED
      BY <1>6, <2>1 DEF Reject, StreamTypeOK, authority
  <1>7. CASE Release(s)
    <2>1. CASE Verdict(seen[s], expected[s]) # "granted"
      <3>1. EndingTypes /\ ReadingType
        BY <1>7, <2>1, <1>a, <1>c, VerdictType DEF Release
      <3> QED
        BY <1>7, <3>1 DEF Release, StreamTypeOK, authority
    <2>2. CASE Verdict(seen[s], expected[s]) = "granted"
      <3>1. /\ buffers' = [buffers EXCEPT ![s] = @ + 1]
            /\ UNCHANGED <<closed, subscribed, reader>>
            /\ Suspend(s, "none")
        BY <1>7, <2>2 DEF Release
      <3>2. EndingTypes /\ ReadingType
        <4>1. buffers' \in [Streams -> Nat]
          BY <3>1 DEF StreamTypeOK
        <4>2. EndingTypes
          BY <3>1, <4>1 DEF StreamTypeOK
        <4> QED
          BY <3>1, <4>2, <1>d
      <3> QED
        BY <1>7, <3>2 DEF Release, StreamTypeOK, authority
    <2> QED
      BY <2>1, <2>2
  <1>8. CASE Notified(s)
    <2>1. ASSUME NEW answer \in {consent, Unavailable}
          PROVE  LET verdict == Verdict(answer, expected[s]) IN
                 (IF verdict = "granted" THEN UNCHANGED ending
                  ELSE Terminate(s, AbortReason(verdict))) => EndingTypes
      <3>1. answer \in Snapshot
        BY DEF StreamTypeOK, Snapshot, Unavailable
      <3> QED
        BY <3>1, <1>a, <1>b, VerdictType, TerminateEffect
    <2>2. EndingTypes
      BY <1>8, <2>1 DEF Notified
    <2>3. rung' \in [Streams -> BOOLEAN]
      BY <1>8 DEF Notified, StreamTypeOK
    <2> QED
      BY <1>8, <2>2, <2>3 DEF Notified, StreamTypeOK, authority
  <1>9. CASE Close(s)
    <2>1. EndingTypes
      BY <1>9, TerminateEffect DEF Close
    <2> QED
      BY <1>9, <2>1 DEF Close, StreamTypeOK, authority
  <1> QED
    BY <1>1, <1>2, <1>3, <1>4, <1>5, <1>6, <1>7, <1>8, <1>9 DEF Suspended

LEMMA NextTypes == StreamTypeOK /\ [StreamNext]_streamVars => StreamTypeOK'
  <1>1. CASE UNCHANGED streamVars
    BY <1>1 DEF streamVars, authority, ending, StreamTypeOK
  <1>2. CASE StreamNext
    BY <1>2, AuthorityTypes, OpeningTypes, OpenTypes DEF StreamNext
  <1> QED
    BY <1>1, <1>2

\* Every variable keeps its type, for any streams and any bound.
THEOREM TypeCorrect == StreamSpec => []StreamTypeOK
  BY InitTypes, NextTypes, PTL DEF StreamSpec

-----------------------------------------------------------------------------
(***************************************************************************)
(* The invariant                                                           *)
(***************************************************************************)
LEMMA InitInv == StreamInit => StreamInv
  <1>1. StreamInit => Opened /\ Versioned /\ LateIsSeen /\ ReadersAreListening
    BY DEF StreamInit, Opened, Versioned, LateIsSeen, ReadersAreListening, Unavailable, NoVersion
  <1>2. StreamInit => Listening
    BY DEF StreamInit, Listening
  <1> QED
    BY <1>1, <1>2 DEF StreamInv

\* The consent's own steps end it for good and touch no stream but its listeners.
LEMMA AuthorityInv ==
    ASSUME StreamTypeOK, StreamInv, Lapse \/ Revoke \/ Expire \/ ReopenCase \/ EraseAccount \/ Publish
    PROVE  StreamInv'
  <1>1. /\ UNCHANGED <<at, seen, expected, reading, ending, receipts, late>>
        /\ Ended => Ended'
        /\ lapsed => lapsed'
        /\ consent'.state = "active" => consent' = consent
    BY DEF Lapse, Revoke, Expire, ReopenCase, EraseAccount, EndAs, Publish, Ended, StreamTypeOK
  <1>2. Opened' /\ ReadersAreListening'
    BY <1>1 DEF StreamInv, Opened, ReadersAreListening, ending
  <1>3. Versioned' /\ LateIsSeen'
    BY <1>1 DEF StreamInv, Versioned, LateIsSeen
  <1>4. \A s \in Streams : rung'[s] => rung[s] \/ subscribed[s]
    BY DEF Lapse, Revoke, Expire, ReopenCase, EraseAccount, EndAs, Publish, StreamTypeOK
  <1>5. Listening'
    BY <1>1, <1>4 DEF StreamInv, Listening, ending
  <1> QED
    BY <1>2, <1>3, <1>5 DEF StreamInv

LEMMA OpeningInv ==
    ASSUME StreamTypeOK, StreamInv, NEW s \in Streams, Opening(s)
    PROVE  StreamInv'
  <1>a. UNCHANGED authority /\ UNCHANGED <<reading, late>>
    BY DEF Opening, AskAuthority, Admit, StoreFails, StartFails, Start, AppendReceipt, ReceiptFails
  <1>b. UNCHANGED Ended
    BY <1>a DEF Ended, authority
  <1>c. at[s] \in {"idle", "asking", "storing", "receipting"} /\ reading[s] = "none"
    BY DEF Opening, AskAuthority, Admit, StoreFails, StartFails, Start, AppendReceipt, ReceiptFails,
           StreamInv, Opened, StreamTypeOK
  <1> DEFINE Rest == Opened' /\ ReadersAreListening'
  <1>1. ASSUME AskAuthority(s)
        PROVE  Versioned' /\ LateIsSeen' /\ Rest
    <2>1. /\ seen' \in [Streams -> Snapshot]
          /\ \A t \in Streams : t # s => seen'[t] = seen[t]
          /\ seen'[s] = consent \/ seen'[s] = Unavailable
      BY <1>1, ReadConsentEffect DEF AskAuthority
    <2>2. Versioned'
      BY <1>a, <2>1 DEF StreamInv, Versioned, Unavailable, authority
    <2>3. LateIsSeen'
      BY <1>a, <1>b, <1>c, <2>1 DEF StreamInv, LateIsSeen, authority
    <2>4. Opened' /\ ReadersAreListening'
      BY <1>1, <1>a DEF AskAuthority, StreamInv, Opened, ReadersAreListening, ending, StreamTypeOK
    <2>5. Versioned' /\ LateIsSeen' /\ Rest
      BY <2>2, <2>3, <2>4
    <2> QED
      BY <2>5
  <1>2. ASSUME ~AskAuthority(s)
        PROVE  UNCHANGED seen
    BY <1>2 DEF Opening, Admit, StoreFails, StartFails, Start, AppendReceipt, ReceiptFails
  <1>3. ASSUME ~AskAuthority(s)
        PROVE  Versioned' /\ LateIsSeen'
    BY <1>3, <1>2, <1>a, <1>b DEF StreamInv, Versioned, LateIsSeen, authority
  <1>4. ASSUME Admit(s)
        PROVE  Rest
    <2>1. UNCHANGED <<closed, reader, subscribed, receipts, reading>>
      BY <1>4 DEF Admit, ending
    <2>2. CASE Verdict(seen[s], NoVersion) = "granted"
      <3>1. seen[s] \in Snapshot
        BY DEF StreamTypeOK
      <3>2. seen[s].version # NoVersion
        BY <2>2, <3>1, VerdictType DEF StreamInv, Versioned, NoVersion
      <3>3. /\ at[s] = "asking" /\ at' = [at EXCEPT ![s] = "storing"]
            /\ expected' = [expected EXCEPT ![s] = seen[s].version]
        BY <1>4, <2>2 DEF Admit
      <3> QED
        BY <2>1, <3>2, <3>3 DEF StreamInv, Opened, ReadersAreListening, StreamTypeOK
    <2>3. CASE Verdict(seen[s], NoVersion) # "granted"
      <3>1. at[s] = "asking" /\ at' = [at EXCEPT ![s] = "denied"] /\ UNCHANGED expected
        BY <1>4, <2>3 DEF Admit, Deny
      <3> QED
        BY <2>1, <3>1 DEF StreamInv, Opened, ReadersAreListening, StreamTypeOK
    <2> QED
      BY <2>2, <2>3
  <1>5. ASSUME StoreFails(s)
        PROVE  Rest
    BY <1>5 DEF StoreFails, Deny, StreamInv, Opened, ReadersAreListening, ending, StreamTypeOK
  <1>6. ASSUME StartFails(s)
        PROVE  Rest
    BY <1>6 DEF StartFails, Deny, StreamInv, Opened, ReadersAreListening, StreamTypeOK
  <1>7. ASSUME Start(s)
        PROVE  Rest
    BY <1>7 DEF Start, StreamInv, Opened, ReadersAreListening, StreamTypeOK
  <1>8. ASSUME AppendReceipt(s)
        PROVE  Rest
    BY <1>8 DEF AppendReceipt, StreamInv, Opened, ReadersAreListening, ending, StreamTypeOK
  <1>9. ASSUME ReceiptFails(s)
        PROVE  Rest
    <2>1. /\ at[s] = "receipting" /\ at' = [at EXCEPT ![s] = "denied"]
          /\ UNCHANGED <<expected, receipts, reading>>
      BY <1>9 DEF ReceiptFails, Deny
    <2>2. Terminate(s, "complete")
      BY <1>9 DEF ReceiptFails
    <2>3. Opened'
      BY <2>1, <2>2, TerminateEffect DEF StreamInv, Opened, StreamTypeOK
    <2>4. reader'[s] # "held"
      BY <2>2, TerminateEffect DEF StreamInv, ReadersAreListening
    <2>5. ReadersAreListening'
      BY <2>1, <2>2, <2>4, TerminateEffect DEF StreamInv, ReadersAreListening, StreamTypeOK
    <2> QED
      BY <2>3, <2>5
  <1>10. ~AskAuthority(s) => Rest
    BY <1>4, <1>5, <1>6, <1>7, <1>8, <1>9 DEF Opening
  <1>l. Listening'
    <2>1. \A t \in Streams : t # s => at'[t] = at[t]
      BY DEF Opening, AskAuthority, Admit, StoreFails, StartFails, Start, AppendReceipt, ReceiptFails,
             Deny, StreamTypeOK
    <2>2. (~subscribed[s] /\ ~rung[s]) \/ at[s] = "receipting"
      BY <1>c DEF StreamInv, Listening
    <2>3. at[s] = "receipting" => at'[s] \notin {"idle", "asking", "storing"}
      BY DEF Opening, AskAuthority, Admit, StoreFails, StartFails, Start, AppendReceipt, ReceiptFails,
             Deny, StreamTypeOK
    <2>4. \A t \in Streams : rung'[t] => rung[t]
      BY DEF Opening, AskAuthority, Admit, StoreFails, StartFails, Start, AppendReceipt, ReceiptFails
    <2>5. \/ \A t \in Streams : subscribed'[t] => subscribed[t]
          \/ Start(s)
      <3>1. CASE ReceiptFails(s)
        BY <3>1, TerminateEffect DEF ReceiptFails
      <3>2. CASE ~ReceiptFails(s) /\ ~Start(s)
        BY <3>2 DEF Opening, AskAuthority, Admit, StoreFails, StartFails, AppendReceipt, ending
      <3> QED
        BY <3>1, <3>2
    <2>6. CASE \A t \in Streams : subscribed'[t] => subscribed[t]
      BY <2>1, <2>2, <2>3, <2>4, <2>6 DEF StreamInv, Listening
    <2>7. CASE Start(s)
      <3>1. at'[s] = "receipting" /\ \A t \in Streams : t # s => subscribed'[t] = subscribed[t]
        BY <2>7 DEF Start, StreamTypeOK
      <3> QED
        BY <2>1, <2>4, <3>1 DEF StreamInv, Listening
    <2> QED
      BY <2>5, <2>6, <2>7
  <1> QED
    BY <1>1, <1>3, <1>10, <1>l DEF StreamInv

\* What an end of stream s, or none, leaves of the invariant's part about opening.
LEMMA EndingInv ==
    ASSUME StreamTypeOK, StreamInv, NEW s \in Streams,
           at[s] \notin {"idle", "asking", "storing"},
           UNCHANGED <<at, expected, receipts>>, \A t \in Streams : rung'[t] => rung[t],
           \/ UNCHANGED <<closed, subscribed, reader>>
           \/ \E reason \in AbortReasons \cup {"complete"} : Terminate(s, reason),
           \A t \in Streams : reading'[t] # "none" => reading[t] # "none" \/ at[t] = "open"
    PROVE  Opened' /\ Listening' /\ ReadersAreListening'
  <1>1. CASE UNCHANGED <<closed, subscribed, reader>>
    <2>1. Opened' /\ ReadersAreListening'
      BY <1>1 DEF StreamInv, Opened, ReadersAreListening
    <2>2. Listening'
      BY <1>1 DEF StreamInv, Listening
    <2> QED
      BY <2>1, <2>2
  <1>2. ASSUME NEW reason \in AbortReasons \cup {"complete"}, Terminate(s, reason)
        PROVE  Opened' /\ Listening' /\ ReadersAreListening'
    <2>1. \A t \in Streams :
             /\ t # s => closed'[t] = closed[t] /\ reader'[t] = reader[t]
             /\ subscribed'[t] => subscribed[t]
             /\ reader'[t] = "held" => /\ reader[t] = "held"
                                       /\ closed'[t] = closed[t]
                                       /\ subscribed'[t] = subscribed[t]
      BY <1>2, TerminateEffect
    <2>2. Opened' /\ ReadersAreListening'
      BY <2>1 DEF StreamInv, Opened, ReadersAreListening
    <2>3. Listening'
      BY <2>1 DEF StreamInv, Listening
    <2> QED
      BY <2>2, <2>3
  <1> QED
    BY <1>1, <1>2

LEMMA OpenInv ==
    ASSUME StreamTypeOK, StreamInv, NEW s \in Streams,
           Read(s) \/ Suspended(s) \/ Notified(s) \/ Close(s)
    PROVE  StreamInv'
  <1>a. UNCHANGED authority /\ UNCHANGED <<at, expected, receipts>> /\ UNCHANGED Ended
    BY DEF Read, Suspended, CheckBefore, StorageAnswers, StorageEnds, Inspect, Reject, Release,
           Notified, Close, Ended, authority
  <1>b. seen[s] \in Snapshot /\ expected[s] \in Nat
    BY DEF StreamTypeOK
  <1> DEFINE Rest == Opened' /\ Listening' /\ ReadersAreListening'
             Judged == Versioned' /\ LateIsSeen'
             Ends == \/ UNCHANGED <<closed, subscribed, reader>>
                     \/ \E reason \in AbortReasons \cup {"complete"} : Terminate(s, reason)
             Reads == \A t \in Streams : reading'[t] # "none" => reading[t] # "none" \/ at[t] = "open"
  <1>c. ASSUME at[s] = "open", NEW where, Suspend(s, where)
        PROVE  Reads
    BY <1>c DEF Suspend, StreamTypeOK
  <1>d. ASSUME NEW reason \in AbortReasons \cup {"complete"}, Abort(s, reason)
        PROVE  Ends /\ Suspend(s, "none")
    BY <1>d DEF Abort
  <1>e. ASSUME NEW where, where # "after", UNCHANGED <<seen, late>>, Suspend(s, where)
        PROVE  Judged
    BY <1>a, <1>e DEF Suspend, StreamInv, Versioned, LateIsSeen, authority, StreamTypeOK
  <1>r. \A t \in Streams : rung'[t] => rung[t]
    BY DEF Read, Suspended, CheckBefore, StorageAnswers, StorageEnds, Inspect, Reject, Release,
           Notified, Close, StreamTypeOK
  <1>f. ASSUME at[s] \notin {"idle", "asking", "storing"}, Ends, Reads
        PROVE  Rest
    BY <1>a, <1>f, <1>r, EndingInv
  <1>g. reading[s] # "none" => at[s] = "open"
    BY DEF StreamInv, Opened
  <1>1. CASE Read(s)
    <2>1. /\ UNCHANGED late /\ at[s] = "open" /\ Ends
          /\ Suspend(s, "before") /\ ReadConsent(s)
      BY <1>1 DEF Read, ending
    <2>2. Rest
      BY <2>1, <1>c, <1>f
    <2>3. Versioned'
      BY <2>1, <1>a, ReadConsentEffect DEF StreamInv, Versioned, Unavailable, authority
    <2>4. LateIsSeen'
      BY <2>1, <1>a, ReadConsentEffect DEF Suspend, StreamInv, LateIsSeen, authority, StreamTypeOK
    <2> QED
      BY <2>2, <2>3, <2>4 DEF StreamInv
  <1>2. CASE CheckBefore(s)
    <2>1. UNCHANGED <<seen, late>> /\ at[s] = "open"
      BY <1>2, <1>g DEF CheckBefore
    <2>2. \E where \in {"none", "storage"} : Suspend(s, where) /\ Ends
      BY <1>2, <1>b, <1>d, VerdictType DEF CheckBefore, ending
    <2>3. Rest /\ Judged
      BY <2>1, <2>2, <1>c, <1>e, <1>f
    <2> QED
      BY <2>3 DEF StreamInv
  <1>3. CASE StorageAnswers(s)
    <2>1. UNCHANGED seen /\ at[s] = "open" /\ late' = [late EXCEPT ![s] = Ended]
      BY <1>3, <1>g DEF StorageAnswers
    <2>2. \E where \in {"none", "inspecting"} : Suspend(s, where) /\ Ends
      BY <1>3, <1>d DEF StorageAnswers, ending, AbortReasons
    <2>3. Rest
      BY <2>1, <2>2, <1>c, <1>f
    <2>4. Judged
      BY <2>1, <2>2, <1>a DEF Suspend, StreamInv, Versioned, LateIsSeen, authority, StreamTypeOK
    <2> QED
      BY <2>3, <2>4 DEF StreamInv
  <1>4. CASE StorageEnds(s)
    <2>1. UNCHANGED <<seen, late>> /\ at[s] = "open" /\ Suspend(s, "none") /\ Ends
      BY <1>4, <1>d, <1>g DEF StorageEnds, AbortReasons
    <2>2. Rest /\ Judged
      BY <2>1, <1>c, <1>e, <1>f
    <2> QED
      BY <2>2 DEF StreamInv
  <1>5. CASE Inspect(s)
    <2>1. /\ UNCHANGED late /\ at[s] = "open" /\ Ends
          /\ Suspend(s, "after") /\ ReadConsent(s)
      BY <1>5, <1>g DEF Inspect, ending
    <2>2. Rest
      BY <2>1, <1>c, <1>f
    <2>3. Versioned'
      BY <2>1, <1>a, ReadConsentEffect DEF StreamInv, Versioned, Unavailable, authority
    <2>4. late[s] => seen'[s].state # "active" \/ lapsed
      BY <2>1, ReadConsentEffect DEF StreamInv, LateIsSeen, Ended, Unavailable
    <2>5. LateIsSeen'
      BY <2>1, <2>4, <1>a, ReadConsentEffect DEF Suspend, StreamInv, LateIsSeen, authority, StreamTypeOK
    <2> QED
      BY <2>2, <2>3, <2>5 DEF StreamInv
  <1>6. CASE Reject(s)
    <2>1. UNCHANGED <<seen, late>> /\ at[s] = "open" /\ Suspend(s, "none") /\ Ends
      BY <1>6, <1>d, <1>g DEF Reject, AbortReasons
    <2>2. Rest /\ Judged
      BY <2>1, <1>c, <1>e, <1>f
    <2> QED
      BY <2>2 DEF StreamInv
  <1>7. CASE Release(s)
    <2>1. UNCHANGED <<seen, late>> /\ at[s] = "open"
      BY <1>7, <1>g DEF Release
    <2>2. Suspend(s, "none") /\ Ends
      BY <1>7, <1>b, <1>d, VerdictType DEF Release
    <2>3. Rest /\ Judged
      BY <2>1, <2>2, <1>c, <1>e, <1>f
    <2> QED
      BY <2>3 DEF StreamInv
  <1>h. ASSUME UNCHANGED <<seen, late, reading>>
        PROVE  Judged /\ Reads
    BY <1>a, <1>h DEF StreamInv, Versioned, LateIsSeen, authority
  <1>8. CASE Notified(s)
    <2>1. UNCHANGED <<seen, late, reading>> /\ at[s] \notin {"idle", "asking", "storing"}
      BY <1>8 DEF Notified, StreamInv, Listening
    <2>2. ASSUME NEW answer \in {consent, Unavailable},
                 IF Verdict(answer, expected[s]) = "granted" THEN UNCHANGED ending
                 ELSE Terminate(s, AbortReason(Verdict(answer, expected[s])))
          PROVE  Ends
      <3>1. answer \in Snapshot
        BY DEF StreamTypeOK, Snapshot, Unavailable
      <3> QED
        BY <2>2, <3>1, <1>b, VerdictType DEF ending
    <2>3. Ends
      BY <1>8, <2>2 DEF Notified
    <2> QED
      BY <2>1, <2>3, <1>f, <1>h DEF StreamInv
  <1>9. CASE Close(s)
    <2>1. UNCHANGED <<seen, late, reading>> /\ at[s] = "open" /\ Ends
      BY <1>9 DEF Close
    <2> QED
      BY <2>1, <1>f, <1>h DEF StreamInv
  <1> QED
    BY <1>1, <1>2, <1>3, <1>4, <1>5, <1>6, <1>7, <1>8, <1>9 DEF Suspended

LEMMA NextInv == StreamTypeOK /\ StreamInv /\ [StreamNext]_streamVars => StreamInv'
  <1>1. CASE StreamTypeOK /\ StreamInv /\ UNCHANGED streamVars
    <2>1. UNCHANGED <<authority, at, seen, expected, reading, ending, rung, receipts, late>>
      BY <1>1 DEF streamVars
    <2>2. Opened' /\ ReadersAreListening'
      BY <1>1, <2>1 DEF StreamInv, Opened, ReadersAreListening, ending
    <2>3. Listening'
      BY <1>1, <2>1 DEF StreamInv, Listening, ending
    <2>4. Versioned' /\ LateIsSeen'
      BY <1>1, <2>1 DEF StreamInv, Versioned, LateIsSeen, Ended, authority
    <2> QED
      BY <2>2, <2>3, <2>4 DEF StreamInv
  <1>2. CASE StreamTypeOK /\ StreamInv /\ StreamNext
    BY <1>2, AuthorityInv, OpeningInv, OpenInv DEF StreamNext
  <1> QED
    BY <1>1, <1>2

\* The steps of one stream stay related as above, for any streams and any bound.
THEOREM Invariance == StreamSpec => []StreamInv
  BY InitInv, NextInv, TypeCorrect, PTL, InitTypes DEF StreamSpec

\* A storage reader that is held belongs to a stream that is still told of the end of its
\* consent (ReadersAreListening), for any streams: terminate disposes of the reader and
\* unsubscribes together, and every failure while opening disposes of the reader.
THEOREM ReadersListen == StreamSpec => []ReadersAreListening
  <1>1. StreamInv => ReadersAreListening
    BY DEF StreamInv
  <1> QED
    BY <1>1, Invariance, PTL

-----------------------------------------------------------------------------
(***************************************************************************)
(* What a release rests on                                                 *)
(***************************************************************************)
\* Only the last step of a read releases a chunk, and only on a snapshot that is granted.
LEMMA OnlyRelease ==
    ASSUME StreamTypeOK, StreamInv, [StreamNext]_streamVars, NEW t \in Streams, Released(t)
    PROVE  /\ reading[t] = "after"
           /\ seen[t].state = "active" /\ ~lapsed
           /\ expected[t] # NoVersion => seen[t].version = expected[t]
  <1>1. buffers[t] \in Nat /\ buffers'[t] > buffers[t]
    BY DEF StreamTypeOK, Released
  <1>2. buffers' # buffers
    BY <1>1
  <1>3. PICK s \in Streams : Opening(s) \/ Read(s) \/ Suspended(s) \/ Notified(s) \/ Close(s)
    BY <1>2 DEF streamVars, StreamNext, Lapse, Revoke, Expire, ReopenCase, EraseAccount, EndAs, Publish, ending
  <1>4. seen[s] \in Snapshot /\ expected[s] \in Nat
    BY DEF StreamTypeOK
  <1>5. ASSUME NEW reason \in AbortReasons \cup {"complete"}, Terminate(s, reason)
        PROVE  FALSE
    <2>1. buffers' \in [Streams -> Nat] /\ buffers'[t] <= buffers[t]
      BY <1>5, TerminateEffect
    <2> QED
      BY <1>1, <2>1
  <1>6. ASSUME Notified(s)
        PROVE  FALSE
    <2>1. PICK answer \in {consent, Unavailable} :
             IF Verdict(answer, expected[s]) = "granted" THEN UNCHANGED ending
             ELSE Terminate(s, AbortReason(Verdict(answer, expected[s])))
      BY <1>6 DEF Notified
    <2>2. answer \in Snapshot
      BY DEF StreamTypeOK, Snapshot, Unavailable
    <2> QED
      BY <1>2, <1>4, <1>5, <2>1, <2>2, VerdictType DEF ending
  <1>7. ~(Opening(s) \/ Read(s) \/ Close(s))
    BY <1>2, <1>5 DEF Opening, AskAuthority, Admit, StoreFails, StartFails, Start, AppendReceipt,
                      ReceiptFails, Read, Close, ending
  <1>8. ~(StorageAnswers(s) \/ StorageEnds(s) \/ Inspect(s) \/ Reject(s))
    BY <1>2, <1>5 DEF StorageAnswers, StorageEnds, Inspect, Reject, Abort, AbortReasons, ending
  <1>9. ~CheckBefore(s)
    BY <1>2, <1>4, <1>5, VerdictType DEF CheckBefore, Abort, ending
  <1>10. Release(s)
    BY <1>3, <1>6, <1>7, <1>8, <1>9 DEF Suspended
  <1>11. Verdict(seen[s], expected[s]) = "granted"
    BY <1>4, <1>5, <1>10, VerdictType DEF Release, Abort
  <1>12. buffers' = [buffers EXCEPT ![s] = @ + 1]
    BY <1>10, <1>11 DEF Release
  <1>13. s = t
    BY <1>1, <1>12 DEF StreamTypeOK
  <1> QED
    BY <1>4, <1>10, <1>11, <1>13, VerdictType DEF Release

\* Bytes read after the consent ended are not released (NothingReadLateIsReleased), for any
\* streams: the snapshot that the release judges was taken after the storage had answered.
THEOREM LateBytesStay == StreamSpec => NothingReadLateIsReleased
  <1>1. StreamTypeOK /\ StreamInv /\ [StreamNext]_streamVars =>
          [\A s \in Streams : Released(s) => ~late[s]]_streamVars
    <2> SUFFICES ASSUME StreamTypeOK, StreamInv, [StreamNext]_streamVars, NEW s \in Streams, Released(s)
                 PROVE  ~late[s]
      OBVIOUS
    <2> QED
      BY OnlyRelease DEF StreamInv, LateIsSeen
  <1> QED
    BY <1>1, TypeCorrect, Invariance, PTL DEF StreamSpec, NothingReadLateIsReleased

\* A chunk is released only under an access receipt that names the version found by the last
\* re-read (AccessIsReceipted), for any streams: the receipt is appended before the stream is
\* handed out, and a version that has changed is no longer granted.
THEOREM AccessHasReceipt == StreamSpec => AccessIsReceipted
  <1>1. StreamTypeOK /\ StreamInv /\ [StreamNext]_streamVars =>
          [\A s \in Streams : Released(s) =>
              receipts[s] # NoVersion /\ receipts[s] = seen[s].version]_streamVars
    <2> SUFFICES ASSUME StreamTypeOK, StreamInv, [StreamNext]_streamVars, NEW s \in Streams, Released(s)
                 PROVE  receipts[s] # NoVersion /\ receipts[s] = seen[s].version
      OBVIOUS
    <2>1. at[s] = "open"
      BY OnlyRelease DEF StreamInv, Opened
    <2> QED
      BY <2>1, OnlyRelease DEF StreamInv, Opened
  <1> QED
    BY <1>1, TypeCorrect, Invariance, PTL DEF StreamSpec, AccessIsReceipted
=============================================================================
