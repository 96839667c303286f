---------------------------- MODULE RecoveryJournal ----------------------------
(***************************************************************************)
(* The durable journal of the desktop application                          *)
(* (apps/desktop/src-tauri/src/recovery_store): a SQLite table of rows     *)
(* chained by a keyed MAC, and a head of that chain kept in a separate     *)
(* custody, the Windows credential store.  The two are written one after   *)
(* the other, so a crash or an outage of the custody can fall between      *)
(* them; the next assessment of the journal repairs a lag of one row and   *)
(* locks the journal on anything else.                                     *)
(*                                                                         *)
(* Two handles append to the same chain in one process: the executor's     *)
(* RecoveryStore, whose verdict on the chain is cached in mutation_state,  *)
(* and the AdvancedPreferenceStore, which opens a verifying RecoveryStore  *)
(* before each of its appends.                                             *)
(*                                                                         *)
(* A MAC is a collision-free digest of everything up to its row, so the    *)
(* MAC of the last row is modelled by the sequence of the rows themselves: *)
(* two heads are equal exactly when they protect the same rows.            *)
(***************************************************************************)
EXTENDS Integers, Sequences, SequencesExt

CONSTANTS Docs,            \* record ids of the documents the executor appends
          MaxPreferences,  \* bound: preference events appended
          MaxRotations,    \* bound: key rotations
          MaxRestores      \* bound: times an older database file is put back

ASSUME BoundsAssumption ==
    /\ MaxPreferences \in Nat
    /\ MaxRotations \in Nat
    /\ MaxRestores \in Nat

VARIABLES created,   \* the metadata row, with the database id, is in the database
          rows,      \* the table journal_events, in sequence order
          head,      \* the protected head in custody
          keys,      \* the epochs whose MAC key is in custody
          custody,   \* the credential store answers
          store,     \* mutation_state of the executor's handle, or "closed"
          seen,      \* preference events the preference handle knows, or NotOpen
          step,      \* the durable effect of the running call, until it returns
          acked,     \* history: the rows whose append returned Ok
          restores   \* bound counter

vars == <<created, rows, head, keys, custody, store, seen, step, acked, restores>>
InitialEpoch == 1
NoHead == [epoch |-> 0, chain |-> <<>>]
NotOpen == -1

Writable == "Writable"
AnchorUnavailable == "ReadOnlyIntegrityAnchorUnavailable"
AnchorMismatch == "ReadOnlyAnchorMismatch"
MutationState == {Writable, AnchorUnavailable, AnchorMismatch}

Steps == {"idle", "keyed", "protected",
          "document", "preference", "rotation", "installed"}

Row == [kind : {"document"}, id : Docs, epoch : Nat]
         \cup [kind : {"preference", "rotation"}, id : Nat, epoch : Nat]
AnchorHead == [epoch : Nat, chain : Seq(Row)]

-----------------------------------------------------------------------------
(***************************************************************************)
(* The assessment of the journal against its protected head.               *)
(***************************************************************************)
IsRotation(row) == row.kind = "rotation"

\* The head that protects rs: a rotation row carries the old epoch and opens the new one.
HeadOf(rs) ==
    [epoch |-> IF rs = <<>> THEN InitialEpoch
               ELSE IF IsRotation(Last(rs)) THEN Last(rs).id ELSE Last(rs).epoch,
     chain |-> rs]

KeysPresent(rs) == \A i \in DOMAIN rs : rs[i].epoch \in keys

\* Mutant: compares the epoch of the head and not its MAC.
ExactHeadByEpoch ==
    head.epoch = HeadOf(rows).epoch /\ (rows = <<>> => InitialEpoch \in keys)

ExactHead == head = HeadOf(rows) /\ (rows = <<>> => InitialEpoch \in keys)

\* Mutant: does not compare the head with the row before the last.
OneRowLagByEpoch ==
    rows # <<>> /\ ~IsRotation(Last(rows)) /\ head.epoch = Last(rows).epoch

\* Mutant: leaves the lag of one row for an operator to repair.
OneRowLagNeverRepaired == FALSE

OneRowLag ==
    /\ rows # <<>>
    /\ ~IsRotation(Last(rows))
    /\ head = [epoch |-> Last(rows).epoch, chain |-> Front(rows)]

\* assess_integrity: the verdict it returns and the head it leaves in custody.
Assess(verdict, newHead) ==
    \/ /\ ~custody \/ head = NoHead \/ ~KeysPresent(rows)
       /\ verdict = AnchorUnavailable
       /\ newHead = head
    \/ /\ custody /\ head # NoHead /\ KeysPresent(rows)
       /\ \/ verdict = Writable /\ ExactHead /\ newHead = head
          \/ verdict = Writable /\ ~ExactHead /\ OneRowLag /\ newHead = HeadOf(rows)
          \/ verdict = AnchorMismatch /\ ~ExactHead /\ ~OneRowLag /\ newHead = head

Verdicts == MutationState \X {head, HeadOf(rows)}

PreferenceRows(rs) == {i \in DOMAIN rs : rs[i].kind = "preference"}
RotationRows(rs) == {i \in DOMAIN rs : rs[i].kind = "rotation"}
Stored(kind, id) == \E i \in DOMAIN rows : rows[i].kind = kind /\ rows[i].id = id
-----------------------------------------------------------------------------
(***************************************************************************)
(* First start: key, protected head and metadata are three durable writes. *)
(***************************************************************************)
Init ==
    /\ created = FALSE
    /\ rows = <<>>
    /\ head = NoHead
    /\ keys = {}
    /\ custody \in BOOLEAN
    /\ store = "closed"
    /\ seen = NotOpen
    /\ step = "idle"
    /\ acked = {}
    /\ restores = 0

InitializeKey ==
    /\ store = "closed" /\ step = "idle" /\ ~created
    /\ custody /\ head = NoHead
    /\ keys' = keys \cup {InitialEpoch}
    /\ step' = "keyed"
    /\ UNCHANGED <<created, rows, head, custody, store, seen, acked, restores>>

InitializeHead ==
    /\ step = "keyed"
    /\ IF custody THEN head' = HeadOf(<<>>) /\ step' = "protected"
                  ELSE head' = head /\ step' = "idle"
    /\ UNCHANGED <<created, rows, keys, custody, store, seen, acked, restores>>

InitializeMetadata ==
    /\ step = "protected"
    /\ created' = TRUE
    /\ step' = "idle"
    /\ UNCHANGED <<rows, head, keys, custody, store, seen, acked, restores>>

\* RecoveryStore::open of an initialised database; a lag of one row is repaired here.
Open ==
    /\ store = "closed" /\ step = "idle" /\ created
    /\ \E v \in Verdicts :
          /\ Assess(v[1], v[2])
          /\ store' = v[1]
          /\ head' = v[2]
    /\ UNCHANGED <<created, rows, keys, custody, seen, step, acked, restores>>

\* AdvancedPreferenceStore::open refuses a journal that is not writable.
OpenPreference ==
    /\ store # "closed" /\ step = "idle" /\ seen = NotOpen
    /\ \E v \in Verdicts :
          /\ Assess(v[1], v[2])
          /\ v[1] = Writable
          /\ head' = v[2]
    /\ seen' = Cardinality(PreferenceRows(rows))
    /\ UNCHANGED <<created, rows, keys, custody, store, step, acked, restores>>

-----------------------------------------------------------------------------
(***************************************************************************)
(* The executor's appends.  append_document assesses the journal again     *)
(* before it writes, whatever the cached mutation_state says.              *)
(***************************************************************************)
\* Mutant: trusts the cached mutation_state and the head it finds.
AppendCommitUnassessed(d) ==
    /\ store = Writable /\ step = "idle"
    /\ ~Stored("document", d)
    /\ rows' = Append(rows, [kind |-> "document", id |-> d, epoch |-> head.epoch])
    /\ step' = "document"
    /\ UNCHANGED <<created, head, keys, custody, store, seen, acked, restores>>

AppendCommit(d) ==
    /\ store = Writable /\ step = "idle"
    /\ ~Stored("document", d)
    /\ \E v \in Verdicts :
          /\ Assess(v[1], v[2])
          /\ v[1] = Writable
          /\ head' = v[2]
          /\ rows' = Append(rows, [kind |-> "document", id |-> d, epoch |-> v[2].epoch])
    /\ step' = "document"
    /\ UNCHANGED <<created, keys, custody, store, seen, acked, restores>>

\* The append fails before its commit: the new verdict refuses it, the record id is
\* taken, or SQLite is full or busy.  A repair made by the assessment stays.
AppendFails ==
    /\ store = Writable /\ step = "idle"
    /\ \E v \in Verdicts :
          /\ Assess(v[1], v[2])
          /\ store' = v[1]
          /\ head' = v[2]
    /\ UNCHANGED <<created, rows, keys, custody, seen, step, acked, restores>>

\* The compare-and-swap of the head after the commit; when the custody is out the
\* append reports an error although its row is durable.
AppendAnchor ==
    /\ step = "document"
    /\ step' = "idle"
    /\ IF custody
         THEN /\ head' = HeadOf(rows)
              /\ acked' = acked \cup {Last(rows)}
              /\ store' = store
         ELSE /\ store' = AnchorUnavailable
              /\ UNCHANGED <<head, acked>>
    /\ UNCHANGED <<created, rows, keys, custody, seen, restores>>

-----------------------------------------------------------------------------
(***************************************************************************)
(* Key rotation: a row under the old key, the new key, the new head.       *)
(***************************************************************************)
RotateCommit ==
    /\ store = Writable /\ step = "idle"
    /\ Cardinality(RotationRows(rows)) < MaxRotations
    /\ \E v \in Verdicts :
          /\ Assess(v[1], v[2])
          /\ v[1] = Writable
          /\ head' = v[2]
          /\ ~Stored("rotation", v[2].epoch + 1)
          /\ rows' = Append(rows, [kind |-> "rotation", id |-> v[2].epoch + 1,
                                   epoch |-> v[2].epoch])
    /\ step' = "rotation"
    /\ UNCHANGED <<created, keys, custody, store, seen, acked, restores>>

\* install_key returns early on an error and leaves mutation_state as it was.
RotateInstallKey ==
    /\ step = "rotation"
    /\ IF custody THEN keys' = keys \cup {Last(rows).id} /\ step' = "installed"
                  ELSE keys' = keys /\ step' = "idle"
    /\ UNCHANGED <<created, rows, head, custody, store, seen, acked, restores>>

RotateAnchor ==
    /\ step = "installed"
    /\ step' = "idle"
    /\ IF custody
         THEN /\ head' = HeadOf(rows)
              /\ acked' = acked \cup {Last(rows)}
              /\ store' = store
         ELSE /\ store' = AnchorUnavailable
              /\ UNCHANGED <<head, acked>>
    /\ UNCHANGED <<created, rows, keys, custody, seen, restores>>

-----------------------------------------------------------------------------
(***************************************************************************)
(* The preference handle's appends, behind a verifier opened for each one. *)
(***************************************************************************)
\* It takes the epoch of the last row, so it refuses to append right after a rotation.
LatestRowIsHead(h) ==
    IF rows = <<>> THEN h = HeadOf(<<>>)
    ELSE h = [epoch |-> Last(rows).epoch, chain |-> rows]

PreferenceCommit ==
    /\ seen # NotOpen /\ step = "idle"
    /\ Cardinality(PreferenceRows(rows)) < MaxPreferences
    /\ \E v \in Verdicts :
          /\ Assess(v[1], v[2])
          /\ v[1] = Writable
          /\ head' = v[2]
          /\ seen = Cardinality(PreferenceRows(rows))
          /\ LatestRowIsHead(v[2])
          /\ rows' = Append(rows, [kind |-> "preference", id |-> seen,
                                   epoch |-> v[2].epoch])
    /\ step' = "preference"
    /\ UNCHANGED <<created, keys, custody, store, seen, acked, restores>>

\* Refused by the verifier, by a projection behind the journal, or by SQLite.
PreferenceFails ==
    /\ seen # NotOpen /\ step = "idle"
    /\ \E v \in Verdicts : Assess(v[1], v[2]) /\ head' = v[2]
    /\ UNCHANGED <<created, rows, keys, custody, store, seen, step, acked, restores>>

\* The projection in memory moves only after the compare-and-swap.
PreferenceAnchor ==
    /\ step = "preference"
    /\ step' = "idle"
    /\ IF custody
         THEN /\ head' = HeadOf(rows)
              /\ acked' = acked \cup {Last(rows)}
              /\ seen' = seen + 1
         ELSE UNCHANGED <<head, acked, seen>>
    /\ UNCHANGED <<created, rows, keys, custody, store, restores>>

-----------------------------------------------------------------------------
(***************************************************************************)
(* The environment: the process stops anywhere, the custody comes and      *)
(* goes, an older database file is put back while the process is stopped.  *)
(***************************************************************************)
Crash ==
    /\ store # "closed" \/ step # "idle"
    /\ store' = "closed"
    /\ seen' = NotOpen
    /\ step' = "idle"
    /\ UNCHANGED <<created, rows, head, keys, custody, acked, restores>>

CustodyChange ==
    /\ custody' = ~custody
    /\ UNCHANGED <<created, rows, head, keys, store, seen, step, acked, restores>>

RestoreOlderDatabase ==
    /\ store = "closed" /\ step = "idle" /\ created
    /\ restores < MaxRestores
    /\ \E n \in 0 .. Len(rows) - 1 : rows' = SubSeq(rows, 1, n)
    /\ restores' = restores + 1
    /\ UNCHANGED <<created, head, keys, custody, store, seen, step, acked>>

Next ==
    \/ InitializeKey \/ InitializeHead \/ InitializeMetadata
    \/ Open \/ OpenPreference
    \/ \E d \in Docs : AppendCommit(d)
    \/ AppendFails \/ AppendAnchor
    \/ RotateCommit \/ RotateInstallKey \/ RotateAnchor
    \/ PreferenceCommit \/ PreferenceFails \/ PreferenceAnchor
    \/ Crash \/ CustodyChange \/ RestoreOlderDatabase

Spec == Init /\ [][Next]_vars
-----------------------------------------------------------------------------
(***************************************************************************)
(* Properties                                                              *)
(***************************************************************************)
\* Every variable stays in its type: rows carry an epoch, a handle a verdict, and a
\* preference row the sequence its handle had projected (RecoveryStore's fields).
TypeOK ==
    /\ created \in BOOLEAN
    /\ rows \in Seq(Row)
    /\ head \in AnchorHead
    /\ keys \subseteq Nat
    /\ custody \in BOOLEAN
    /\ store \in MutationState \cup {"closed"}
    /\ seen \in Nat \cup {NotOpen}
    /\ step \in Steps
    /\ acked \subseteq Row
    /\ restores \in Nat

\* A handle that reports Writable sits on a database that holds every row whose append
\* ever returned Ok: putting an older database back is always noticed, whatever crash
\* or custody outage came before (assess_integrity, open).
AckedDurable == store = Writable => acked \subseteq ToSet(rows)

\* The protected head only moves forward, one row at a time, and an acknowledged row
\* is a protected row, also when a repair and not the append moved the head
\* (compare_and_swap in append_document, rotate_key, append_event, assess_integrity).
Log == INSTANCE AppendOnlyLog WITH Entry <- Row, log <- head.chain, acked <- acked
ProtectedLogGrows == Log!Spec

\* Whichever handle appends, the new row is chained to the protected head and keyed
\* with its epoch: no row is written over a lag, a rolled-back table or a torn
\* rotation, although the cached mutation_state may be stale (current_verified_head).
ChainedOnProtectedHead ==
    [][Len(rows') > Len(rows) => /\ head'.chain = rows
                                 /\ Last(rows').epoch = head'.epoch
                                 /\ head'.epoch \in keys]_vars

\* The only things that lock an initialised journal while the custody answers: a lost
\* protected row, or a rotation whose new head was not written.  A crash or an outage
\* between the commit of any other row and its head never does.
LostRow == ~IsPrefix(head.chain, rows)
TornRotation == rows # <<>> /\ IsRotation(Last(rows)) /\ head.chain = Front(rows)
LocksOnlyOnLossOrTornRotation ==
    (created /\ custody) =>
       ((\E v \in Verdicts : v[1] = Writable /\ Assess(v[1], v[2]))
          <=> ~LostRow /\ ~TornRotation)
=============================================================================
