------------------------- MODULE RecoveryJournalProofs -------------------------
(***************************************************************************)
(* Proofs about RecoveryJournal for every set of documents and all bounds. *)
(*                                                                         *)
(* AckedDurable is not inductive: a handle that reports Writable says      *)
(* nothing of the rows on its own.  The strengthening JInv adds what the   *)
(* code keeps true between its two writes: acknowledged rows are protected *)
(* rows, a writable handle sits on a table that extends the protected      *)
(* chain, and between a commit and its compare-and-swap the table is the   *)
(* protected chain and exactly one row more.                               *)
(***************************************************************************)
EXTENDS RecoveryJournal, SequenceTheorems, FiniteSetTheorems, TLAPS

Anchoring == {"document", "preference", "rotation", "installed"}

\* The table starts with the protected rows.
Covered ==
    /\ Len(head.chain) <= Len(rows)
    /\ \A i \in 1 .. Len(head.chain) : head.chain[i] = rows[i]

\* Acknowledged rows are protected (append_document, rotate_key, append_event).
AckedProtected == acked \subseteq ToSet(head.chain)

WritableCovered == store = Writable => Covered

\* The commit that waits for its compare-and-swap is the only unprotected row.
OnePending ==
    step \in Anchoring => /\ rows # <<>>
                          /\ head.chain = Front(rows)

\* The key of the epoch that the head opens is in custody.
HeadKeyed ==
    /\ head # NoHead => head.epoch \in keys
    /\ step = "keyed" => head = NoHead /\ InitialEpoch \in keys
    /\ step \in {"document", "preference"} =>
          ~IsRotation(Last(rows)) /\ Last(rows).epoch \in keys
    /\ step \in {"rotation", "installed"} => IsRotation(Last(rows))
    /\ step = "installed" => Last(rows).id \in keys

JInv == TypeOK /\ AckedProtected /\ WritableCovered /\ OnePending /\ HeadKeyed
-----------------------------------------------------------------------------
(***************************************************************************)
(* Lemmas about sequences and heads.                                       *)
(***************************************************************************)
LEMMA FrontLast ==
    ASSUME NEW S, NEW s \in Seq(S), s # <<>>
    PROVE  /\ Len(s) \in Nat \ {0}
           /\ Front(s) \in Seq(S)
           /\ Len(Front(s)) = Len(s) - 1
           /\ \A i \in 1 .. Len(s) - 1 : Front(s)[i] = s[i]
           /\ Last(s) \in S
           /\ Last(s) = s[Len(s)]
           /\ s = Append(Front(s), Last(s))
<1>1. Len(s) \in Nat \ {0} /\ \A i \in 1 .. Len(s) : s[i] \in S
  BY EmptySeq, LenProperties, ElementOfSeq
<1>2. /\ Front(s) \in Seq(S)
      /\ Len(Front(s)) = Len(s) - 1
      /\ \A i \in 1 .. Len(s) - 1 : Front(s)[i] = s[i]
  <2> DEFINE n == Len(s) - 1
             f == SubSeq(s, 1, n)
  <2>1. n \in Nat /\ \A i \in 1 .. n : s[i] \in S
    BY <1>1
  <2>2. Front(s) = f
    BY DEF Front
  <2> HIDE DEF n
  <2>3. /\ f \in Seq(S)
        /\ Len(f) = IF 1 <= n THEN n - 1 + 1 ELSE 0
        /\ \A i \in 1 .. n - 1 + 1 : f[i] = s[1 + i - 1]
    BY <2>1, SubSeqProperties
  <2> HIDE DEF f
  <2>4. Len(f) = n
    BY <2>1, <2>3
  <2>5. ASSUME NEW i \in 1 .. n
        PROVE  f[i] = s[i]
    <3>1. i \in 1 .. n - 1 + 1 /\ 1 + i - 1 = i
      BY <2>1
    <3> QED
      BY <2>3, <3>1
  <2> QED
    BY <2>2, <2>3, <2>4, <2>5 DEF n
<1>3. Last(s) = s[Len(s)] /\ Last(s) \in S
  BY <1>1 DEF Last
<1>4. s = Append(Front(s), Last(s))
  <2> DEFINE t == Append(Front(s), Last(s))
  <2>1. /\ t \in Seq(S)
        /\ Len(t) = Len(s)
        /\ \A i \in 1 .. Len(s) - 1 : t[i] = s[i]
        /\ t[Len(s)] = s[Len(s)]
    BY <1>1, <1>2, <1>3, AppendProperties
  <2>2. \A i \in 1 .. Len(s) : s[i] = t[i]
    BY <1>1, <2>1
  <2> HIDE DEF t
  <2>3. s = t
    BY <2>1, <2>2, SeqEqual
  <2> QED
    BY <2>3 DEF t
<1> QED
  BY <1>1, <1>2, <1>3, <1>4

\* The elements of a sequence are those of its front and its last one.
LEMMA FrontLastRange ==
    ASSUME NEW S, NEW s \in Seq(S), s # <<>>
    PROVE  ToSet(Front(s)) \subseteq ToSet(s) /\ Last(s) \in ToSet(s)
<1>1. /\ Front(s) \in Seq(S) /\ Len(s) \in Nat \ {0} /\ Len(Front(s)) = Len(s) - 1
      /\ \A i \in 1 .. Len(s) - 1 : Front(s)[i] = s[i]
      /\ Last(s) = s[Len(s)]
  BY FrontLast
<1>2. DOMAIN s = 1 .. Len(s) /\ DOMAIN Front(s) = 1 .. Len(s) - 1
  BY <1>1, LenProperties
<1> QED
  BY <1>1, <1>2 DEF ToSet

\* The fields of a row that heads depend on.
LEMMA RowFields ==
    ASSUME NEW r \in Row
    PROVE  r.epoch \in Nat /\ (IsRotation(r) => r.id \in Nat)
BY DEF Row, IsRotation

\* The head of a sequence of rows is a head, and chains them all.
LEMMA HeadOfType ==
    ASSUME NEW rs \in Seq(Row)
    PROVE  HeadOf(rs) \in AnchorHead /\ HeadOf(rs).chain = rs
<1>1. CASE rs = <<>>
  BY <1>1 DEF HeadOf, AnchorHead, InitialEpoch
<1>2. CASE rs # <<>>
  <2>1. Last(rs) \in Row
    BY <1>2, FrontLast
  <2> QED
    BY <1>2, <2>1, RowFields DEF HeadOf, AnchorHead
<1> QED
  BY <1>1, <1>2

\* What an assessment returns, and what it may do to the head: nothing, or the repair of
\* a lag of one row.  A writable verdict leaves the whole table protected.
LEMMA AssessOutcome ==
    ASSUME JInv, NEW v, NEW h, Assess(v, h)
    PROVE  /\ v \in MutationState
           /\ h \in AnchorHead
           /\ h # NoHead => h.epoch \in keys
           /\ \/ h = head
              \/ rows # <<>> /\ head.chain = Front(rows) /\ h.chain = rows
           /\ v = Writable => h.chain = rows /\ h.epoch \in keys
<1> USE DEF MutationState, Writable, AnchorMismatch, AnchorUnavailable
<1>1. rows \in Seq(Row) /\ head \in AnchorHead /\ keys \subseteq Nat
  BY DEF JInv, TypeOK
<1>2. head # NoHead => head.epoch \in keys
  BY DEF JInv, HeadKeyed
<1>3. HeadOf(rows) \in AnchorHead /\ HeadOf(rows).chain = rows
  BY <1>1, HeadOfType
<1>4. CASE ~custody \/ head = NoHead \/ ~KeysPresent(rows)
  BY <1>1, <1>2, <1>4 DEF Assess
<1>5. CASE /\ custody /\ head # NoHead /\ KeysPresent(rows)
           /\ v = Writable /\ ExactHead /\ h = head
  BY <1>1, <1>2, <1>3, <1>5 DEF ExactHead
<1>6. CASE /\ custody /\ head # NoHead /\ KeysPresent(rows)
           /\ v = Writable /\ OneRowLag /\ h = HeadOf(rows)
  <2>1. rows # <<>> /\ ~IsRotation(Last(rows)) /\ head.chain = Front(rows)
    BY <1>6 DEF OneRowLag
  <2>2. HeadOf(rows).epoch = Last(rows).epoch
    BY <2>1 DEF HeadOf
  <2>3. Len(rows) \in DOMAIN rows /\ Last(rows) = rows[Len(rows)]
    BY <1>1, <2>1, FrontLast, LenProperties
  <2>4. Last(rows).epoch \in keys
    BY <1>6, <2>3 DEF KeysPresent
  <2> QED
    BY <1>3, <1>6, <2>1, <2>2, <2>4
<1>7. CASE v = AnchorMismatch /\ h = head
  BY <1>1, <1>2, <1>7
<1> QED
  BY <1>4, <1>5, <1>6, <1>7 DEF Assess

\* An appended row keeps everything in place and becomes the last one.
LEMMA AppendRow ==
    ASSUME NEW rs \in Seq(Row), NEW r \in Row
    PROVE  /\ Append(rs, r) \in Seq(Row)
           /\ Append(rs, r) # <<>>
           /\ Len(Append(rs, r)) = Len(rs) + 1
           /\ \A i \in 1 .. Len(rs) : Append(rs, r)[i] = rs[i]
           /\ Front(Append(rs, r)) = rs
           /\ Last(Append(rs, r)) = r
<1> DEFINE t == Append(rs, r)
<1>1. /\ t \in Seq(Row) /\ t # <<>> /\ Len(t) = Len(rs) + 1
      /\ \A i \in 1 .. Len(rs) : t[i] = rs[i]
      /\ t[Len(rs) + 1] = r
  BY AppendProperties
<1>2. Len(rs) \in Nat
  BY LenProperties
<1> HIDE DEF t
<1>3. /\ Front(t) \in Seq(Row) /\ Last(t) \in Row
      /\ Len(Front(t)) = Len(t) - 1
      /\ \A i \in 1 .. Len(t) - 1 : Front(t)[i] = t[i]
      /\ Last(t) = t[Len(t)]
  BY <1>1, FrontLast
<1>4. Front(t) = rs
  <2>1. Len(Front(t)) = Len(rs) /\ \A i \in 1 .. Len(rs) : Front(t)[i] = rs[i]
    BY <1>1, <1>2, <1>3
  <2> QED
    BY <1>3, <2>1, SeqEqual
<1> QED
  BY <1>1, <1>3, <1>4 DEF t
-----------------------------------------------------------------------------
(***************************************************************************)
(* The invariant, one lemma per kind of step.                              *)
(***************************************************************************)
LEMMA InitialJInv == Init => JInv
<1> SUFFICES ASSUME Init PROVE JInv
  OBVIOUS
<1>1. TypeOK
  BY EmptySeq DEF Init, TypeOK, AnchorHead, NoHead, NotOpen, Steps
<1> QED
  BY <1>1 DEF Init, JInv, AckedProtected, WritableCovered, Writable, OnePending, HeadKeyed,
              Anchoring, NoHead, InitialEpoch

\* A call that only assesses the journal: whatever it repairs, the invariant stays.
LEMMA AssessKeepsJInv ==
    ASSUME JInv, NEW v, NEW h, Assess(v, h), step = "idle",
           head' = h, rows' = rows, keys' = keys, acked' = acked, step' = "idle",
           store' \in {v, store}, TypeOK'
    PROVE  JInv'
<1>1. /\ rows \in Seq(Row) /\ Len(rows) \in Nat
      /\ head \in AnchorHead /\ head.chain \in Seq(Row)
  BY LenProperties DEF JInv, TypeOK, AnchorHead
<1>2. /\ h # NoHead => h.epoch \in keys
      /\ h = head \/ (rows # <<>> /\ head.chain = Front(rows) /\ h.chain = rows)
      /\ v = Writable => h.chain = rows
  BY AssessOutcome
<1>3. AckedProtected'
  <2>1. CASE h = head
    BY <2>1 DEF JInv, AckedProtected
  <2>2. CASE rows # <<>> /\ head.chain = Front(rows) /\ h.chain = rows
    <3>1. ToSet(head.chain) \subseteq ToSet(rows)
      BY <1>1, <2>2, FrontLastRange
    <3> QED
      BY <2>2, <3>1 DEF JInv, AckedProtected
  <2> QED
    BY <1>2, <2>1, <2>2
<1>4. WritableCovered'
  <2>1. CASE h.chain = rows
    BY <1>1, <2>1 DEF WritableCovered, Covered
  <2>2. CASE h = head /\ v # Writable
    BY <2>2 DEF JInv, WritableCovered, Covered
  <2> QED
    BY <1>2, <2>1, <2>2
<1>5. OnePending' /\ HeadKeyed'
  BY <1>2 DEF OnePending, HeadKeyed, Anchoring
<1> QED
  BY <1>3, <1>4, <1>5 DEF JInv

\* A call that commits one more row after an assessment that returned Writable.
LEMMA CommitKeepsJInv ==
    ASSUME JInv, NEW h, Assess(Writable, h), NEW r \in Row,
           head' = h, rows' = Append(rows, r), keys' = keys, acked' = acked,
           step' \in {"document", "preference", "rotation"},
           step' = "rotation" <=> IsRotation(r), r.epoch = h.epoch, TypeOK'
    PROVE  JInv'
<1>1. /\ rows \in Seq(Row) /\ Len(rows) \in Nat
      /\ head \in AnchorHead /\ head.chain \in Seq(Row)
  BY LenProperties DEF JInv, TypeOK, AnchorHead
<1>2. /\ h = head \/ (rows # <<>> /\ head.chain = Front(rows))
      /\ h.chain = rows /\ h.epoch \in keys
  BY AssessOutcome
<1>3. /\ rows' # <<>> /\ Len(rows') = Len(rows) + 1
      /\ \A i \in 1 .. Len(rows) : rows'[i] = rows[i]
      /\ Front(rows') = rows /\ Last(rows') = r
  BY <1>1, AppendRow
<1>4. AckedProtected'
  <2>1. CASE h = head
    BY <2>1 DEF JInv, AckedProtected
  <2>2. CASE rows # <<>> /\ head.chain = Front(rows)
    <3>1. ToSet(head.chain) \subseteq ToSet(rows)
      BY <1>1, <2>2, FrontLastRange
    <3> QED
      BY <1>2, <3>1 DEF JInv, AckedProtected
  <2> QED
    BY <1>2, <2>1, <2>2
<1>5. WritableCovered'
  BY <1>1, <1>2, <1>3 DEF WritableCovered, Covered
<1>6. OnePending'
  BY <1>2, <1>3 DEF OnePending
<1>7. HeadKeyed'
  BY <1>2, <1>3 DEF HeadKeyed
<1> QED
  BY <1>4, <1>5, <1>6, <1>7 DEF JInv

\* The compare-and-swap that protects the one pending row and acknowledges it.
LEMMA AnchorKeepsJInv ==
    ASSUME JInv, step \in {"document", "preference", "installed"},
           head' = HeadOf(rows), rows' = rows, keys' = keys,
           acked' = acked \cup {Last(rows)}, step' = "idle", TypeOK'
    PROVE  JInv'
<1>1. /\ rows \in Seq(Row) /\ Len(rows) \in Nat /\ rows # <<>>
      /\ head.chain = Front(rows)
  BY LenProperties DEF JInv, TypeOK, OnePending, Anchoring
<1>2. HeadOf(rows).chain = rows
  BY <1>1, HeadOfType
<1>3. HeadOf(rows).epoch \in keys
  BY <1>1 DEF HeadOf, JInv, HeadKeyed
<1>4. AckedProtected'
  <2>1. ToSet(head.chain) \subseteq ToSet(rows) /\ Last(rows) \in ToSet(rows)
    BY <1>1, FrontLastRange
  <2> QED
    BY <1>2, <2>1 DEF JInv, AckedProtected
<1>5. WritableCovered'
  BY <1>1, <1>2 DEF WritableCovered, Covered
<1>6. OnePending' /\ HeadKeyed'
  BY <1>3 DEF OnePending, HeadKeyed, Anchoring
<1> QED
  BY <1>4, <1>5, <1>6 DEF JInv

-----------------------------------------------------------------------------
\* The types of the three ways a call ends its journal access.
LEMMA TypeFacts ==
    ASSUME TypeOK
    PROVE  /\ HeadOf(rows) \in AnchorHead
           /\ HeadOf(<<>>) = [epoch |-> InitialEpoch, chain |-> <<>>]
           /\ HeadOf(<<>>) \in AnchorHead
           /\ rows # <<>> => Last(rows) \in Row
BY HeadOfType, FrontLast, EmptySeq DEF TypeOK, HeadOf

\* Every step keeps the invariant.
LEMMA NextJInv == JInv /\ [Next]_vars => JInv'
<1> SUFFICES ASSUME JInv, [Next]_vars PROVE JInv'
  OBVIOUS
<1> USE DEF Steps, MutationState, Writable, AnchorMismatch, AnchorUnavailable
<1>0. TypeOK
  BY DEF JInv
<1>1. CASE InitializeKey
  <2>1. TypeOK'
    BY <1>0, <1>1 DEF InitializeKey, TypeOK, InitialEpoch
  <2>2. AckedProtected' /\ WritableCovered' /\ OnePending' /\ HeadKeyed'
    BY <1>1 DEF InitializeKey, JInv, AckedProtected, WritableCovered, Covered, OnePending,
                HeadKeyed, Anchoring
  <2> QED
    BY <2>1, <2>2 DEF JInv
<1>2. CASE InitializeHead
  <2>1. TypeOK'
    BY <1>0, <1>2, TypeFacts DEF InitializeHead, TypeOK
  <2>2. head = NoHead /\ InitialEpoch \in keys /\ acked = {}
    BY <1>2 DEF InitializeHead, JInv, HeadKeyed, AckedProtected, NoHead, ToSet
  <2>3. head'.chain = <<>> /\ (head' # NoHead => head'.epoch = InitialEpoch)
    BY <1>0, <1>2, <2>2, TypeFacts DEF InitializeHead, NoHead
  <2>4. AckedProtected' /\ OnePending' /\ HeadKeyed'
    BY <1>2, <2>2, <2>3 DEF InitializeHead, AckedProtected, OnePending, HeadKeyed, Anchoring
  <2>5. WritableCovered'
    <3>1. Len(rows) \in Nat /\ rows' = rows
      BY <1>0, <1>2, LenProperties DEF InitializeHead, TypeOK
    <3> QED
      BY <2>3, <3>1 DEF WritableCovered, Covered
  <2> QED
    BY <2>1, <2>4, <2>5 DEF JInv
<1>3. CASE InitializeMetadata
  <2>1. TypeOK'
    BY <1>0, <1>3 DEF InitializeMetadata, TypeOK
  <2>2. AckedProtected' /\ WritableCovered' /\ OnePending' /\ HeadKeyed'
    BY <1>3 DEF InitializeMetadata, JInv, AckedProtected, WritableCovered, Covered,
                OnePending, HeadKeyed, Anchoring
  <2> QED
    BY <2>1, <2>2 DEF JInv
<1>4. CASE Open
  <2>1. PICK v \in Verdicts : Assess(v[1], v[2]) /\ store' = v[1] /\ head' = v[2]
    BY <1>4 DEF Open
  <2>2. v[1] \in MutationState /\ v[2] \in AnchorHead
    BY <2>1, AssessOutcome
  <2>3. TypeOK'
    BY <1>0, <1>4, <2>1, <2>2 DEF Open, TypeOK
  <2> QED
    BY <1>4, <2>1, <2>3, AssessKeepsJInv DEF Open
<1>5. CASE OpenPreference
  <2>1. PICK v \in Verdicts : Assess(v[1], v[2]) /\ head' = v[2]
    BY <1>5 DEF OpenPreference
  <2>2. v[2] \in AnchorHead
    BY <2>1, AssessOutcome
  <2>3. Cardinality(PreferenceRows(rows)) \in Nat
    <3>1. PreferenceRows(rows) \in SUBSET (1 .. Len(rows)) /\ Len(rows) \in Nat
      BY <1>0, LenProperties DEF PreferenceRows, TypeOK
    <3>2. IsFiniteSet(1 .. Len(rows))
      BY <3>1, FS_Interval
    <3>3. IsFiniteSet(PreferenceRows(rows))
      BY <3>1, <3>2, FS_Subset
    <3> QED
      BY <3>3, FS_CardinalityType
  <2>4. TypeOK'
    BY <1>0, <1>5, <2>1, <2>2, <2>3 DEF OpenPreference, TypeOK
  <2> QED
    BY <1>5, <2>1, <2>4, AssessKeepsJInv DEF OpenPreference
<1>6. ASSUME NEW d \in Docs, AppendCommit(d) PROVE JInv'
  <2> DEFINE r == [kind |-> "document", id |-> d, epoch |-> head'.epoch]
  <2>1. Assess(Writable, head') /\ rows' = Append(rows, r)
    BY <1>6 DEF AppendCommit
  <2>2. head' \in AnchorHead
    BY <2>1, AssessOutcome
  <2>3. r \in Row /\ r.epoch = head'.epoch /\ ~IsRotation(r)
    BY <2>2 DEF Row, AnchorHead, IsRotation
  <2>4. TypeOK'
    BY <1>0, <1>6, <2>1, <2>2, <2>3, AppendRow DEF AppendCommit, TypeOK
  <2> HIDE DEF r
  <2> QED
    BY <1>6, <2>1, <2>3, <2>4, CommitKeepsJInv DEF AppendCommit
<1>7. CASE AppendFails
  <2>1. PICK v \in Verdicts : Assess(v[1], v[2]) /\ store' = v[1] /\ head' = v[2]
    BY <1>7 DEF AppendFails
  <2>2. v[1] \in MutationState /\ v[2] \in AnchorHead
    BY <2>1, AssessOutcome
  <2>3. TypeOK'
    BY <1>0, <1>7, <2>1, <2>2 DEF AppendFails, TypeOK
  <2> QED
    BY <1>7, <2>1, <2>3, AssessKeepsJInv DEF AppendFails
<1>8. CASE AppendAnchor
  <2>1. CASE custody
    <3>1. TypeOK'
      BY <1>0, <1>8, <2>1, TypeFacts DEF AppendAnchor, TypeOK, JInv, OnePending, Anchoring
    <3> QED
      BY <1>8, <2>1, <3>1, AnchorKeepsJInv DEF AppendAnchor
  <2>2. CASE ~custody
    <3>1. TypeOK'
      BY <1>0, <1>8, <2>2 DEF AppendAnchor, TypeOK
    <3>2. AckedProtected' /\ WritableCovered' /\ OnePending' /\ HeadKeyed'
      BY <1>8, <2>2 DEF AppendAnchor, JInv, AckedProtected, WritableCovered, OnePending,
                        HeadKeyed, Anchoring
    <3> QED
      BY <3>1, <3>2 DEF JInv
  <2> QED
    BY <2>1, <2>2
<1>9. CASE RotateCommit
  <2> DEFINE r == [kind |-> "rotation", id |-> head'.epoch + 1, epoch |-> head'.epoch]
  <2>1. Assess(Writable, head') /\ rows' = Append(rows, r)
    BY <1>9 DEF RotateCommit
  <2>2. head' \in AnchorHead
    BY <2>1, AssessOutcome
  <2>3. r \in Row /\ r.epoch = head'.epoch /\ IsRotation(r)
    BY <2>2 DEF Row, AnchorHead, IsRotation
  <2>4. TypeOK'
    BY <1>0, <1>9, <2>1, <2>2, <2>3, AppendRow DEF RotateCommit, TypeOK
  <2> HIDE DEF r
  <2> QED
    BY <1>9, <2>1, <2>3, <2>4, CommitKeepsJInv DEF RotateCommit
<1>10. CASE RotateInstallKey
  <2>1. Last(rows) \in Row /\ IsRotation(Last(rows))
    BY <1>0, <1>10, TypeFacts DEF RotateInstallKey, JInv, OnePending, HeadKeyed, Anchoring
  <2>2. TypeOK'
    <3>1. Last(rows).id \in Nat /\ keys \subseteq Nat
      BY <1>0, <2>1, RowFields DEF TypeOK
    <3>2. keys' \in {keys, keys \cup {Last(rows).id}} /\ step' \in {"installed", "idle"}
      BY <1>10 DEF RotateInstallKey
    <3>3. keys' \subseteq Nat
      BY <3>1, <3>2
    <3>4. UNCHANGED <<created, rows, head, custody, store, seen, acked, restores>>
      BY <1>10 DEF RotateInstallKey
    <3> QED
      BY <1>0, <3>2, <3>3, <3>4 DEF TypeOK
  <2>3. AckedProtected' /\ WritableCovered' /\ OnePending' /\ HeadKeyed'
    BY <1>10, <2>1 DEF RotateInstallKey, JInv, AckedProtected, WritableCovered, Covered,
                       OnePending, HeadKeyed, Anchoring
  <2> QED
    BY <2>2, <2>3 DEF JInv
<1>11. CASE RotateAnchor
  <2>1. CASE custody
    <3>1. TypeOK'
      BY <1>0, <1>11, <2>1, TypeFacts DEF RotateAnchor, TypeOK, JInv, OnePending, Anchoring
    <3> QED
      BY <1>11, <2>1, <3>1, AnchorKeepsJInv DEF RotateAnchor
  <2>2. CASE ~custody
    <3>1. TypeOK'
      BY <1>0, <1>11, <2>2 DEF RotateAnchor, TypeOK
    <3>2. AckedProtected' /\ WritableCovered' /\ OnePending' /\ HeadKeyed'
      BY <1>11, <2>2 DEF RotateAnchor, JInv, AckedProtected, WritableCovered, OnePending,
                         HeadKeyed, Anchoring
    <3> QED
      BY <3>1, <3>2 DEF JInv
  <2> QED
    BY <2>1, <2>2
<1>12. CASE PreferenceCommit
  <2> DEFINE r == [kind |-> "preference", id |-> seen, epoch |-> head'.epoch]
  <2>1. Assess(Writable, head') /\ rows' = Append(rows, r)
    BY <1>12 DEF PreferenceCommit
  <2>2. head' \in AnchorHead
    BY <2>1, AssessOutcome
  <2>3. r \in Row /\ r.epoch = head'.epoch /\ ~IsRotation(r)
    BY <1>0, <1>12, <2>2 DEF Row, AnchorHead, IsRotation, PreferenceCommit, TypeOK
  <2>4. TypeOK'
    BY <1>0, <1>12, <2>1, <2>2, <2>3, AppendRow DEF PreferenceCommit, TypeOK
  <2> HIDE DEF r
  <2> QED
    BY <1>12, <2>1, <2>3, <2>4, CommitKeepsJInv DEF PreferenceCommit
<1>13. CASE PreferenceFails
  <2>1. PICK v \in Verdicts : Assess(v[1], v[2]) /\ head' = v[2]
    BY <1>13 DEF PreferenceFails
  <2>2. v[2] \in AnchorHead
    BY <2>1, AssessOutcome
  <2>3. TypeOK'
    BY <1>0, <1>13, <2>1, <2>2 DEF PreferenceFails, TypeOK
  <2> QED
    BY <1>13, <2>1, <2>3, AssessKeepsJInv DEF PreferenceFails
<1>14. CASE PreferenceAnchor
  <2>1. CASE custody
    <3>1. TypeOK'
      BY <1>0, <1>14, <2>1, TypeFacts DEF PreferenceAnchor, TypeOK, JInv, OnePending,
                                          Anchoring, NotOpen
    <3> QED
      BY <1>14, <2>1, <3>1, AnchorKeepsJInv DEF PreferenceAnchor
  <2>2. CASE ~custody
    <3>1. TypeOK'
      BY <1>0, <1>14, <2>2 DEF PreferenceAnchor, TypeOK
    <3>2. AckedProtected' /\ WritableCovered' /\ OnePending' /\ HeadKeyed'
      BY <1>14, <2>2 DEF PreferenceAnchor, JInv, AckedProtected, WritableCovered, Covered,
                         OnePending, HeadKeyed, Anchoring
    <3> QED
      BY <3>1, <3>2 DEF JInv
  <2> QED
    BY <2>1, <2>2
<1>15. CASE Crash
  <2>1. TypeOK'
    BY <1>0, <1>15 DEF Crash, TypeOK
  <2>2. AckedProtected' /\ WritableCovered' /\ OnePending' /\ HeadKeyed'
    BY <1>15 DEF Crash, JInv, AckedProtected, WritableCovered, OnePending, HeadKeyed,
                 Anchoring
  <2> QED
    BY <2>1, <2>2 DEF JInv
<1>16. CASE CustodyChange
  <2>1. TypeOK'
    BY <1>0, <1>16 DEF CustodyChange, TypeOK
  <2>2. AckedProtected' /\ WritableCovered' /\ OnePending' /\ HeadKeyed'
    BY <1>16 DEF CustodyChange, JInv, AckedProtected, WritableCovered, Covered, OnePending,
                 HeadKeyed, Anchoring
  <2> QED
    BY <2>1, <2>2 DEF JInv
<1>17. CASE RestoreOlderDatabase
  <2>1. PICK n \in 0 .. Len(rows) - 1 : rows' = SubSeq(rows, 1, n)
    BY <1>17 DEF RestoreOlderDatabase
  <2>2. SubSeq(rows, 1, n) \in Seq(Row)
    <3>1. Len(rows) \in Nat /\ \A i \in 1 .. Len(rows) : rows[i] \in Row
      BY <1>0, LenProperties, ElementOfSeq DEF TypeOK
    <3>2. n \in Int /\ \A i \in 1 .. n : rows[i] \in Row
      BY <3>1
    <3> QED
      BY <3>2, SubSeqProperties
  <2>3. TypeOK'
    BY <1>0, <1>17, <2>1, <2>2 DEF RestoreOlderDatabase, TypeOK
  <2>4. AckedProtected' /\ WritableCovered' /\ OnePending' /\ HeadKeyed'
    BY <1>17 DEF RestoreOlderDatabase, JInv, AckedProtected, WritableCovered, OnePending,
                 HeadKeyed, Anchoring
  <2> QED
    BY <2>3, <2>4 DEF JInv
<1>18. CASE UNCHANGED vars
  <2>1. TypeOK'
    BY <1>0, <1>18 DEF vars, TypeOK
  <2>2. AckedProtected' /\ WritableCovered' /\ OnePending' /\ HeadKeyed'
    BY <1>18 DEF vars, JInv, AckedProtected, WritableCovered, Covered, OnePending, HeadKeyed
  <2> QED
    BY <2>1, <2>2 DEF JInv
<1> QED
  BY <1>1, <1>2, <1>3, <1>4, <1>5, <1>6, <1>7, <1>8, <1>9, <1>10, <1>11, <1>12, <1>13,
     <1>14, <1>15, <1>16, <1>17, <1>18 DEF Next

-----------------------------------------------------------------------------
(***************************************************************************)
(* The theorems.                                                           *)
(***************************************************************************)
LEMMA JournalInvariant == Spec => []JInv
BY InitialJInv, NextJInv, PTL DEF Spec

\* Type correctness of the journal (rows, head, keys and handles keep their types).
THEOREM TypeCorrect == Spec => []TypeOK
<1>1. JInv => TypeOK
  BY DEF JInv
<1> QED
  BY <1>1, JournalInvariant, PTL

\* A writable handle sits on a database with every acknowledged row: rollback of the
\* database file is always noticed (RecoveryStore::open, append_document).
THEOREM AcknowledgedRowsAreDurable == Spec => []AckedDurable
<1>1. JInv => AckedDurable
  <2> SUFFICES ASSUME JInv, store = Writable PROVE acked \subseteq ToSet(rows)
    BY DEF AckedDurable
  <2>1. /\ rows \in Seq(Row) /\ head.chain \in Seq(Row)
        /\ Covered /\ acked \subseteq ToSet(head.chain)
    BY DEF JInv, TypeOK, AnchorHead, WritableCovered, AckedProtected
  <2>2. ToSet(head.chain) \subseteq ToSet(rows)
    BY <2>1, LenProperties DEF Covered, ToSet
  <2> QED
    BY <2>1, <2>2
<1> QED
  BY <1>1, JournalInvariant, PTL

\* No handle writes a row over a lag, a rolled-back table or a torn rotation.
THEOREM RowsAreChained == Spec => ChainedOnProtectedHead
<1> DEFINE Chained == Len(rows') > Len(rows) => /\ head'.chain = rows
                                                /\ Last(rows').epoch = head'.epoch
                                                /\ head'.epoch \in keys
<1>1. ASSUME JInv, NEW r, r \in Row, Assess(Writable, head'), rows' = Append(rows, r),
             r.epoch = head'.epoch
      PROVE  Chained
  BY <1>1, AssessOutcome, AppendRow DEF JInv, TypeOK
<1>2. ASSUME JInv, [Next]_vars PROVE Chained
  <2>0. rows \in Seq(Row) /\ Len(rows) \in Nat
    BY <1>2, LenProperties DEF JInv, TypeOK
  <2>1. ASSUME NEW d \in Docs, AppendCommit(d) PROVE Chained
    <3> DEFINE r == [kind |-> "document", id |-> d, epoch |-> head'.epoch]
    <3>1. Assess(Writable, head') /\ rows' = Append(rows, r)
      BY <2>1 DEF AppendCommit
    <3>2. r \in Row /\ r.epoch = head'.epoch
      BY <1>2, <3>1, AssessOutcome DEF Row, AnchorHead
    <3> QED
      BY <1>1, <1>2, <3>1, <3>2
  <2>2. CASE RotateCommit
    <3> DEFINE r == [kind |-> "rotation", id |-> head'.epoch + 1, epoch |-> head'.epoch]
    <3>1. Assess(Writable, head') /\ rows' = Append(rows, r)
      BY <2>2 DEF RotateCommit
    <3>2. r \in Row /\ r.epoch = head'.epoch
      BY <1>2, <3>1, AssessOutcome DEF Row, AnchorHead
    <3> QED
      BY <1>1, <1>2, <3>1, <3>2
  <2>3. CASE PreferenceCommit
    <3> DEFINE r == [kind |-> "preference", id |-> seen, epoch |-> head'.epoch]
    <3>1. Assess(Writable, head') /\ rows' = Append(rows, r)
      BY <2>3 DEF PreferenceCommit
    <3>2. r \in Row /\ r.epoch = head'.epoch
      BY <1>2, <2>3, <3>1, AssessOutcome
         DEF Row, AnchorHead, PreferenceCommit, JInv, TypeOK
    <3> QED
      BY <1>1, <1>2, <3>1, <3>2
  <2>4. CASE RestoreOlderDatabase
    <3>1. PICK n \in 0 .. Len(rows) - 1 : rows' = SubSeq(rows, 1, n)
      BY <2>4 DEF RestoreOlderDatabase
    <3>2. n \in Int /\ \A i \in 1 .. n : rows[i] \in Row
      BY <2>0, ElementOfSeq
    <3>3. Len(rows') = IF 1 <= n THEN n - 1 + 1 ELSE 0
      BY <3>1, <3>2, SubSeqProperties
    <3>4. ~(Len(rows') > Len(rows))
      BY <2>0, <3>3
    <3> QED
      BY <3>4
  <2>5. CASE rows' = rows
    BY <2>0, <2>5
  <2> HIDE DEF Chained
  <2> QED
    BY <1>2, <2>1, <2>2, <2>3, <2>4, <2>5
       DEF Next, vars, InitializeKey, InitializeHead, InitializeMetadata, Open,
           OpenPreference, AppendFails, AppendAnchor, RotateInstallKey, RotateAnchor,
           PreferenceFails, PreferenceAnchor, Crash, CustodyChange
<1>3. JInv /\ [Next]_vars => [Chained]_vars
  BY <1>2
<1> QED
  BY <1>3, JournalInvariant, PTL DEF Spec, ChainedOnProtectedHead

\* A step that protects the last row of the table extends the abstract log by it.
LEMMA ProtectExtends ==
    ASSUME JInv, rows # <<>>, head.chain = Front(rows), head'.chain = rows,
           acked' \in {acked, acked \cup {Last(rows)}}
    PROVE  Log!Extend
<1>1. rows \in Seq(Row)
  BY DEF JInv, TypeOK
<1>2. /\ Len(rows) \in Nat \ {0} /\ Len(Front(rows)) = Len(rows) - 1
      /\ Last(rows) \in Row /\ Last(rows) = rows[Len(rows)]
      /\ rows = Append(Front(rows), Last(rows))
  BY <1>1, FrontLast
<1>3. head'.chain[Len(head.chain) + 1] = Last(rows)
  BY <1>2
<1> QED
  BY <1>2, <1>3 DEF Log!Extend

\* The journal implements the append-only log: the protected chain is the log, also
\* across repairs, crashes, rotations and restored databases (compare_and_swap).
THEOREM ImplementsAppendOnlyLog == Spec => ProtectedLogGrows
<1>1. Init => Log!Init
  BY DEF Init, Log!Init, NoHead
<1>2. JInv /\ [Next]_vars => [Log!Extend]_<<head.chain, acked>>
  <2> SUFFICES ASSUME JInv, [Next]_vars, ~UNCHANGED <<head.chain, acked>>
               PROVE  Log!Extend
    OBVIOUS
  <2>1. ASSUME NEW v, NEW h, Assess(v, h), head' = h, acked' = acked
        PROVE  Log!Extend
    BY <2>1, AssessOutcome, ProtectExtends
  <2>2. ASSUME step \in {"document", "preference", "installed"},
               head' = HeadOf(rows), acked' = acked \cup {Last(rows)}
        PROVE  Log!Extend
    <3>1. rows \in Seq(Row) /\ rows # <<>> /\ head.chain = Front(rows)
      BY <2>2 DEF JInv, TypeOK, OnePending, Anchoring
    <3> QED
      BY <2>2, <3>1, HeadOfType, ProtectExtends
  <2>3. CASE InitializeHead
    BY <2>3, TypeFacts DEF InitializeHead, JInv, HeadKeyed, NoHead
  <2>4. CASE Open \/ AppendFails
    BY <2>1, <2>4 DEF Open, AppendFails
  <2>5. CASE OpenPreference \/ PreferenceFails
    BY <2>1, <2>5 DEF OpenPreference, PreferenceFails
  <2>6. CASE (\E d \in Docs : AppendCommit(d)) \/ RotateCommit \/ PreferenceCommit
    BY <2>1, <2>6 DEF AppendCommit, RotateCommit, PreferenceCommit
  <2>7. CASE AppendAnchor
    BY <2>2, <2>7 DEF AppendAnchor
  <2>8. CASE RotateAnchor
    BY <2>2, <2>8 DEF RotateAnchor
  <2>9. CASE PreferenceAnchor
    BY <2>2, <2>9 DEF PreferenceAnchor
  <2>10. CASE head' = head /\ acked' = acked
    BY <2>10
  <2> QED
    BY <2>3, <2>4, <2>5, <2>6, <2>7, <2>8, <2>9, <2>10
       DEF Next, vars, InitializeKey, InitializeMetadata, RotateInstallKey, Crash,
           CustodyChange, RestoreOlderDatabase
<1> QED
  BY <1>1, <1>2, JournalInvariant, PTL DEF Spec, ProtectedLogGrows, Log!Spec

-----------------------------------------------------------------------------
(***************************************************************************)
(* When an initialised journal locks.                                      *)
(***************************************************************************)
\* What an assessment that finds nothing wrong rests on: every row is keyed, the head is
\* the one its chain gives, at most one row is unprotected, and that row was written
\* under the epoch of the head.
Linked ==
    /\ KeysPresent(rows)
    /\ head # NoHead => InitialEpoch \in keys /\ head = HeadOf(head.chain)
    /\ created \/ step = "protected" => head # NoHead
    /\ head = NoHead => rows = <<>>
    /\ Len(rows) <= Len(head.chain) + 1
    /\ rows # <<>> /\ head.chain = Front(rows) => Last(rows).epoch = head.epoch

\* A head that covers all rows leaves nothing to say of an unprotected one.
LEMMA CoveredLinks ==
    ASSUME JInv, Linked, rows' = rows, head' = HeadOf(rows), keys \subseteq keys',
           InitialEpoch \in keys
    PROVE  Linked'
<1>1. rows \in Seq(Row) /\ Len(rows) \in Nat
  BY LenProperties DEF JInv, TypeOK
<1>2. head'.chain = rows /\ head' # NoHead
  <2>1. HeadOf(rows).epoch \in Nat \ {0} \/ rows # <<>>
    BY DEF HeadOf, InitialEpoch
  <2>2. HeadOf(<<>>).epoch = InitialEpoch
    BY DEF HeadOf
  <2>3. QED BY <1>1, <2>2, HeadOfType DEF NoHead, InitialEpoch
<1>3. rows # <<>> => Front(rows) # rows
  BY <1>1, FrontLast
<1>4. KeysPresent(rows)'
  BY DEF Linked, KeysPresent
<1>5. QED BY <1>1, <1>2, <1>3, <1>4 DEF Linked, HeadOf

\* An assessment leaves the head or moves it over the last row.
LEMMA AssessLinks ==
    ASSUME JInv, Linked, NEW v, NEW h, Assess(v, h), head' = h, rows' = rows, keys' = keys,
           created' = created, step' = step \/ step' # "protected"
    PROVE  Linked'
<1>1. CASE h = head
  BY <1>1 DEF Linked, KeysPresent, HeadOf
<1>2. CASE h = HeadOf(rows) /\ head # NoHead
  BY <1>2, CoveredLinks DEF Linked
<1>3. QED BY <1>1, <1>2 DEF Assess

\* A row that is committed behind a writable assessment is the one unprotected row.
LEMMA CommitLinks ==
    ASSUME JInv, Linked, Assess(Writable, head'), NEW r \in Row, r.epoch = head'.epoch,
           rows' = Append(rows, r), keys' = keys
    PROVE  Linked'
<1>1. rows \in Seq(Row) /\ Len(rows) \in Nat
  BY LenProperties DEF JInv, TypeOK
<1>2. head # NoHead /\ head' \in {head, HeadOf(rows)} /\ InitialEpoch \in keys
  BY DEF Assess, Linked, Writable, AnchorUnavailable, AnchorMismatch
<1>3. head'.chain = rows /\ head'.epoch \in keys
  BY AssessOutcome
<1>4. head' = HeadOf(rows)
  BY <1>2, <1>3 DEF Linked
<1>5. head' # NoHead
  BY <1>1, <1>2, <1>3, <1>4 DEF NoHead, HeadOf, InitialEpoch
<1>6. /\ rows' \in Seq(Row) /\ rows' # <<>> /\ Len(rows') = Len(rows) + 1
      /\ \A i \in 1 .. Len(rows) : rows'[i] = rows[i]
      /\ Front(rows') = rows /\ Last(rows') = r
  BY <1>1, AppendRow
<1>7. KeysPresent(rows)'
  <2>1. DOMAIN rows' = 1 .. Len(rows) + 1 /\ DOMAIN rows = 1 .. Len(rows)
    BY <1>1, <1>6, LenProperties
  <2>2. rows'[Len(rows) + 1] = r
    BY <1>1, AppendProperties
  <2>3. QED BY <1>1, <1>3, <1>6, <2>1, <2>2 DEF Linked, KeysPresent
<1>8. head' = HeadOf(head'.chain)
  BY <1>3, <1>4
<1>9. Len(rows') <= Len(head'.chain) + 1
  BY <1>1, <1>3, <1>6
<1>10. QED
  BY <1>2, <1>3, <1>5, <1>6, <1>7, <1>8, <1>9 DEF Linked, HeadOf

\* A database that is put back is shorter than the chain and its one row.
LEMMA RestoreLinks ==
    ASSUME JInv, Linked, RestoreOlderDatabase
    PROVE  Linked'
<1>1. rows \in Seq(Row) /\ Len(rows) \in Nat /\ \A i \in 1 .. Len(rows) : rows[i] \in Row
  BY LenProperties, ElementOfSeq DEF JInv, TypeOK
<1>2. PICK n \in 0 .. Len(rows) - 1 : rows' = SubSeq(rows, 1, n)
  BY DEF RestoreOlderDatabase
<1>3. UNCHANGED <<created, head, keys, step>>
  BY DEF RestoreOlderDatabase
<1>4. n \in Nat /\ n <= Len(rows) - 1 /\ \A i \in 1 .. n : rows[i] \in Row
  BY <1>1, <1>2
<1>5. /\ rows' \in Seq(Row) /\ Len(rows') = n
      /\ \A i \in 1 .. n : rows'[i] = rows[i]
  <2>1. /\ rows' \in Seq(Row) /\ Len(rows') = IF 1 <= n THEN n - 1 + 1 ELSE 0
        /\ \A i \in 1 .. n - 1 + 1 : rows'[i] = rows[1 + i - 1]
    BY <1>2, <1>4, SubSeqProperties
  <2>2. \A i \in 1 .. n : i \in 1 .. n - 1 + 1 /\ 1 + i - 1 = i
    BY <1>4
  <2>3. Len(rows') = n
    BY <1>4, <2>1
  <2>4. QED BY <2>1, <2>2, <2>3
<1>6. Len(head.chain) \in Nat /\ Len(rows) <= Len(head.chain) + 1
  BY LenProperties DEF JInv, TypeOK, AnchorHead, Linked
<1>7. rows' # <<>> => Len(Front(rows')) = n - 1
  BY <1>5, FrontLast
<1>8. ~(rows' # <<>> /\ head.chain = Front(rows'))
  BY <1>4, <1>6, <1>7
<1>9. KeysPresent(rows)'
  <2>1. DOMAIN rows' = 1 .. n /\ DOMAIN rows = 1 .. Len(rows)
    BY <1>1, <1>5, LenProperties
  <2>2. QED BY <1>1, <1>3, <1>4, <1>5, <2>1 DEF Linked, KeysPresent
<1>10. head = NoHead => rows' = <<>>
  <2>1. rows # <<>>
    BY <1>1, <1>2, EmptySeq
  <2>2. QED BY <2>1 DEF Linked
<1>11. Len(rows') <= Len(head.chain) + 1
  BY <1>4, <1>5, <1>6
<1>12. QED BY <1>3, <1>8, <1>9, <1>10, <1>11 DEF Linked, HeadOf

LEMMA NextLinked == JInv /\ Linked /\ [Next]_vars => Linked'
<1> SUFFICES ASSUME JInv, Linked, [Next]_vars PROVE Linked'
  OBVIOUS
<1>1. ASSUME head' = head, rows' = rows, keys \subseteq keys',
             created' \/ step' = "protected" => created \/ step = "protected"
      PROVE  Linked'
  BY <1>1 DEF Linked, KeysPresent, HeadOf
<1>2. CASE InitializeKey \/ InitializeMetadata \/ RotateInstallKey \/ Crash \/ CustodyChange
           \/ UNCHANGED vars
  BY <1>1, <1>2 DEF InitializeKey, InitializeMetadata, RotateInstallKey, Crash, CustodyChange, vars
<1>3. CASE InitializeHead
  <2>1. /\ head = NoHead /\ InitialEpoch \in keys /\ rows = <<>>
        /\ UNCHANGED <<created, rows, keys>>
    BY <1>3 DEF InitializeHead, JInv, HeadKeyed, Linked
  <2>2. CASE custody
    BY <1>3, <2>1, <2>2, CoveredLinks DEF InitializeHead
  <2>3. CASE ~custody
    BY <1>1, <1>3, <2>1, <2>3 DEF InitializeHead
  <2>4. QED BY <2>2, <2>3
<1>4. CASE Open \/ OpenPreference \/ AppendFails \/ PreferenceFails
  BY <1>4, AssessLinks DEF Open, OpenPreference, AppendFails, PreferenceFails
<1>5. ASSUME NEW d \in Docs, AppendCommit(d) PROVE Linked'
  <2> DEFINE r == [kind |-> "document", id |-> d, epoch |-> head'.epoch]
  <2>1. Assess(Writable, head') /\ rows' = Append(rows, r) /\ keys' = keys
    BY <1>5 DEF AppendCommit
  <2>2. r \in Row /\ r.epoch = head'.epoch
    BY <2>1, AssessOutcome DEF Row, AnchorHead
  <2> HIDE DEF r
  <2>3. QED BY <2>1, <2>2, CommitLinks
<1>6. CASE RotateCommit
  <2> DEFINE r == [kind |-> "rotation", id |-> head'.epoch + 1, epoch |-> head'.epoch]
  <2>1. Assess(Writable, head') /\ rows' = Append(rows, r) /\ keys' = keys
    BY <1>6 DEF RotateCommit
  <2>2. r \in Row /\ r.epoch = head'.epoch
    BY <2>1, AssessOutcome DEF Row, AnchorHead
  <2> HIDE DEF r
  <2>3. QED BY <2>1, <2>2, CommitLinks
<1>7. CASE PreferenceCommit
  <2> DEFINE r == [kind |-> "preference", id |-> seen, epoch |-> head'.epoch]
  <2>1. Assess(Writable, head') /\ rows' = Append(rows, r) /\ keys' = keys
    BY <1>7 DEF PreferenceCommit
  <2>2. r \in Row /\ r.epoch = head'.epoch
    BY <1>7, <2>1, AssessOutcome DEF Row, AnchorHead, PreferenceCommit, JInv, TypeOK
  <2> HIDE DEF r
  <2>3. QED BY <2>1, <2>2, CommitLinks
<1>8. CASE AppendAnchor \/ RotateAnchor \/ PreferenceAnchor
  <2>1. /\ rows # <<>> /\ UNCHANGED <<created, rows, keys>> /\ step' = "idle"
    BY <1>8 DEF AppendAnchor, RotateAnchor, PreferenceAnchor, JInv, OnePending, Anchoring
  <2>2. head # NoHead /\ InitialEpoch \in keys
    BY <2>1 DEF Linked
  <2>3. CASE custody
    BY <1>8, <2>1, <2>2, <2>3, CoveredLinks DEF AppendAnchor, RotateAnchor, PreferenceAnchor
  <2>4. CASE ~custody
    BY <1>1, <1>8, <2>1, <2>4 DEF AppendAnchor, RotateAnchor, PreferenceAnchor
  <2>5. QED BY <2>3, <2>4
<1>9. CASE RestoreOlderDatabase
  BY <1>9, RestoreLinks
<1>10. QED
  BY <1>2, <1>3, <1>4, <1>5, <1>6, <1>7, <1>8, <1>9 DEF Next

\* An initialised journal is accepted exactly when no protected row is lost and no rotation
\* is torn: no crash or outage between the commit of another row and its head locks it.
THEOREM LocksOnlyOnDamage == Spec => []LocksOnlyOnLossOrTornRotation
<1>1. Init => Linked
  BY EmptySeq DEF Init, Linked, KeysPresent, NoHead
<1>2. ASSUME JInv, Linked, created, custody
      PROVE  (\E v \in Verdicts : v[1] = Writable /\ Assess(v[1], v[2]))
                <=> ~LostRow /\ ~TornRotation
  <2>1. /\ rows \in Seq(Row) /\ Len(rows) \in Nat
        /\ head \in AnchorHead /\ head.chain \in Seq(Row) /\ Len(head.chain) \in Nat
    BY <1>2, LenProperties DEF JInv, TypeOK, AnchorHead
  <2>2. head # NoHead /\ KeysPresent(rows)
    BY <1>2 DEF Linked
  <2>3. (\E v \in Verdicts : v[1] = Writable /\ Assess(v[1], v[2])) <=> ExactHead \/ OneRowLag
    <3>1. ASSUME NEW v \in Verdicts, v[1] = Writable, Assess(v[1], v[2])
          PROVE  ExactHead \/ OneRowLag
      BY <1>2, <2>2, <3>1 DEF Assess, Writable, AnchorUnavailable, AnchorMismatch
    <3>2. ASSUME ExactHead PROVE <<Writable, head>> \in Verdicts /\ Assess(Writable, head)
      BY <1>2, <2>2, <3>2 DEF Assess, Verdicts, MutationState
    <3>3. ASSUME ~ExactHead, OneRowLag
          PROVE  <<Writable, HeadOf(rows)>> \in Verdicts /\ Assess(Writable, HeadOf(rows))
      BY <1>2, <2>2, <3>3 DEF Assess, Verdicts, MutationState
    <3>4. QED BY <3>1, <3>2, <3>3
  <2>4. ExactHead <=> head.chain = rows
    <3>1. ExactHead => head.chain = rows
      BY <2>1, HeadOfType DEF ExactHead
    <3>2. head.chain = rows => ExactHead
      BY <1>2, <2>2 DEF ExactHead, Linked
    <3>3. QED BY <3>1, <3>2
  <2>5. OneRowLag <=> rows # <<>> /\ head.chain = Front(rows) /\ ~IsRotation(Last(rows))
    <3>1. rows # <<>> /\ head.chain = Front(rows)
             => head = [epoch |-> Last(rows).epoch, chain |-> Front(rows)]
      BY <1>2, <2>1 DEF Linked, AnchorHead
    <3>2. QED BY <3>1 DEF OneRowLag
  <2>6. ~LostRow <=> head.chain = rows \/ (rows # <<>> /\ head.chain = Front(rows))
    <3> DEFINE c == head.chain
               n == Len(head.chain)
    <3>1. n \in Nat /\ c \in Seq(Row) /\ \A i \in 1 .. n : c[i] \in Row
      BY <2>1, ElementOfSeq
    <3>2. /\ SubSeq(c, 1, n) \in Seq(Row) /\ Len(SubSeq(c, 1, n)) = n
          /\ \A i \in 1 .. n : SubSeq(c, 1, n)[i] = c[i]
      <4>1. /\ SubSeq(c, 1, n) \in Seq(Row)
            /\ Len(SubSeq(c, 1, n)) = IF 1 <= n THEN n - 1 + 1 ELSE 0
            /\ \A i \in 1 .. n - 1 + 1 : SubSeq(c, 1, n)[i] = c[1 + i - 1]
        BY <3>1, SubSeqProperties
      <4>2. \A i \in 1 .. n : i \in 1 .. n - 1 + 1 /\ 1 + i - 1 = i
        BY <3>1
      <4>3. QED BY <3>1, <4>1, <4>2
    <3>3. SubSeq(c, 1, n) = c
      BY <3>1, <3>2, SeqEqual
    <3>4. ASSUME n <= Len(rows)
          PROVE  /\ SubSeq(rows, 1, n) \in Seq(Row) /\ Len(SubSeq(rows, 1, n)) = n
                 /\ \A i \in 1 .. n : SubSeq(rows, 1, n)[i] = rows[i]
      <4>1. \A i \in 1 .. n : rows[i] \in Row
        BY <2>1, <3>1, <3>4, ElementOfSeq
      <4>2. /\ SubSeq(rows, 1, n) \in Seq(Row)
            /\ Len(SubSeq(rows, 1, n)) = IF 1 <= n THEN n - 1 + 1 ELSE 0
            /\ \A i \in 1 .. n - 1 + 1 : SubSeq(rows, 1, n)[i] = rows[1 + i - 1]
        BY <3>1, <4>1, SubSeqProperties
      <4>3. \A i \in 1 .. n : i \in 1 .. n - 1 + 1 /\ 1 + i - 1 = i
        BY <3>1
      <4>4. QED BY <3>1, <4>2, <4>3
    <3>5. rows # <<>> => /\ Front(rows) \in Seq(Row) /\ Len(Front(rows)) = Len(rows) - 1
                         /\ \A i \in 1 .. Len(rows) - 1 : Front(rows)[i] = rows[i]
                         /\ Len(rows) > 0
      BY <2>1, FrontLast
    <3>6. ~LostRow <=> n <= Len(rows) /\ c = SubSeq(rows, 1, n)
      BY <3>3 DEF LostRow, IsPrefix
    <3>7. ASSUME ~LostRow
          PROVE  c = rows \/ (rows # <<>> /\ c = Front(rows))
      <4>1. n <= Len(rows) /\ \A i \in 1 .. n : c[i] = rows[i]
        BY <3>4, <3>6, <3>7
      <4>2. n = Len(rows) \/ n = Len(rows) - 1
        BY <1>2, <2>1, <3>1, <4>1 DEF Linked
      <4>3. CASE n = Len(rows)
        <5>1. c = rows
          BY <2>1, <3>1, <4>1, <4>3, SeqEqual
        <5>2. QED BY <5>1
      <4>4. CASE n = Len(rows) - 1
        <5>1. rows # <<>>
          BY <3>1, <4>4, EmptySeq
        <5>2. \A i \in 1 .. n : c[i] = Front(rows)[i]
          BY <3>5, <4>1, <4>4, <5>1
        <5>3. c = Front(rows)
          BY <3>1, <3>5, <4>4, <5>1, <5>2, SeqEqual
        <5>4. QED BY <5>1, <5>3
      <4>5. QED BY <4>2, <4>3, <4>4
    <3>8. ASSUME c = rows \/ (rows # <<>> /\ c = Front(rows))
          PROVE  ~LostRow
      <4>1. n <= Len(rows) /\ \A i \in 1 .. n : c[i] = rows[i]
        BY <2>1, <3>1, <3>5, <3>8
      <4>2. \A i \in 1 .. n : c[i] = SubSeq(rows, 1, n)[i]
        BY <3>4, <4>1
      <4>3. c = SubSeq(rows, 1, n)
        BY <3>1, <3>4, <4>1, <4>2, SeqEqual
      <4>4. QED BY <3>6, <4>1, <4>3
    <3>9. QED BY <3>7, <3>8
  <2>7. rows # <<>> => Front(rows) # rows
    BY <2>1, FrontLast
  <2>8. QED BY <2>3, <2>4, <2>5, <2>6, <2>7 DEF TornRotation
<1>3. JInv /\ Linked => LocksOnlyOnLossOrTornRotation
  BY <1>2 DEF LocksOnlyOnLossOrTornRotation
<1>4. QED BY <1>1, <1>3, NextLinked, JournalInvariant, PTL DEF Spec
=============================================================================
