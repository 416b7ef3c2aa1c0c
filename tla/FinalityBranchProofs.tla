------------------------ MODULE FinalityBranchProofs ------------------------
(***************************************************************************)
(* What the transitions of FinalityState keep true on every branch, and    *)
(* what two branches with a common beginning share: the lemmas the         *)
(* theorems of FinalityStateProofs rest on.                                *)
(*                                                                         *)
(* A branch is sound when, after every block, the finalized record is the  *)
(* one its carrier left, describes blocks of the branch and is not below   *)
(* an earlier one, and, after the upgrade, the authorizing record is the   *)
(* one it superseded.                                                      *)
(***************************************************************************)
EXTENDS FinalityState, SequenceTheorems, TLAPS

-----------------------------------------------------------------------------
(* Sequences of frames *)

Frames(s) == \E S : s \in Seq(S)

\* A sequence over any set is one over any two of them.
LEMMA CommonSet ==
    ASSUME NEW s, Frames(s), NEW t, Frames(t)
    PROVE  \E S : s \in Seq(S) /\ t \in Seq(S)
PROOF
  <1>1. PICK A : s \in Seq(A)
    BY DEF Frames
  <1>2. PICK B : t \in Seq(B)
    BY DEF Frames
  <1>3. A \subseteq A \cup B /\ B \subseteq A \cup B
    OBVIOUS
  <1>4. s \in Seq(A \cup B)
    BY <1>1, <1>3, SeqMonotonic
  <1>5. t \in Seq(A \cup B)
    BY <1>2, <1>3, SeqMonotonic
  <1>6. QED
    BY <1>4, <1>5

\* The sequence with one more element.
LEMMA Appended ==
    ASSUME NEW s, Frames(s), NEW x
    PROVE  /\ Frames(Append(s, x))
           /\ Len(s) \in Nat /\ Len(Append(s, x)) = Len(s) + 1
           /\ \A i \in 1..Len(s) : Append(s, x)[i] = s[i]
           /\ Append(s, x)[Len(s) + 1] = x
PROOF
  <1>1. PICK A : s \in Seq(A)
    BY DEF Frames
  <1>2. A \subseteq A \cup {x} /\ x \in A \cup {x}
    OBVIOUS
  <1>3. s \in Seq(A \cup {x})
    BY <1>1, <1>2, SeqMonotonic
  <1>4. QED
    BY <1>2, <1>3, AppendProperties, LenProperties DEF Frames

\* Part of a sequence.
LEMMA Cut ==
    ASSUME NEW s, Frames(s), NEW m \in Nat \ {0}, NEW n \in 0..Len(s), m <= n + 1
    PROVE  /\ Frames(SubSeq(s, m, n))
           /\ Len(SubSeq(s, m, n)) = n - m + 1
           /\ \A i \in 1..(n - m + 1) : SubSeq(s, m, n)[i] = s[m + i - 1]
PROOF
  <1>1. PICK A : s \in Seq(A)
    BY DEF Frames
  <1>2. \A i \in m..n : s[i] \in A
    BY <1>1, ElementOfSeq, LenProperties
  <1>3. m \in Int /\ n \in Int
    BY <1>1, LenProperties
  <1>4. /\ SubSeq(s, m, n) \in Seq(A)
        /\ Len(SubSeq(s, m, n)) = IF m <= n THEN n - m + 1 ELSE 0
        /\ \A i \in 1..(n - m + 1) : SubSeq(s, m, n)[i] = s[m + i - 1]
    BY <1>2, <1>3, SubSeqProperties
  <1>5. QED
    BY <1>3, <1>4 DEF Frames

\* The beginning of one sequence before another.
Join(s, n, t) == SubSeq(s, 1, n) \o t

\* Its length and elements.
LEMMA Joined ==
    ASSUME NEW s, Frames(s), NEW t, Frames(t), NEW n \in 0..Len(s)
    PROVE  /\ Frames(Join(s, n, t))
           /\ Len(t) \in Nat /\ Len(Join(s, n, t)) = n + Len(t)
           /\ \A i \in 1..n : Join(s, n, t)[i] = s[i]
           /\ \A i \in 1..Len(t) : Join(s, n, t)[n + i] = t[i]
PROOF
  <1> DEFINE p == SubSeq(s, 1, n)
  <1>1. Len(s) \in Nat /\ Len(t) \in Nat /\ n \in Nat
    BY LenProperties DEF Frames
  <1>2. Frames(p) /\ Len(p) = n /\ \A i \in 1..n : p[i] = s[i]
    BY <1>1, Cut
  <1> HIDE DEF p
  <1>3. PICK A : p \in Seq(A) /\ t \in Seq(A)
    BY <1>2, CommonSet
  <1>4. /\ p \o t \in Seq(A)
        /\ Len(p \o t) = Len(p) + Len(t)
        /\ \A i \in 1..(Len(p) + Len(t)) :
              (p \o t)[i] = IF i <= Len(p) THEN p[i] ELSE t[i - Len(p)]
    BY <1>3, ConcatProperties
  <1>5. \A i \in 1..n : (p \o t)[i] = s[i]
    BY <1>1, <1>2, <1>4
  <1>6. \A i \in 1..Len(t) : (p \o t)[n + i] = t[i]
    BY <1>1, <1>2, <1>4
  <1>7. QED
    BY <1>1, <1>2, <1>4, <1>5, <1>6 DEF Frames, Join, p

\* Sequences are equal when their elements are.
LEMMA SameFrames ==
    ASSUME NEW s, Frames(s), NEW t, Frames(t), Len(s) = Len(t),
           \A i \in 1..Len(s) : s[i] = t[i]
    PROVE  s = t
PROOF
  <1>1. PICK A : s \in Seq(A) /\ t \in Seq(A)
    BY CommonSet
  <1>2. QED
    BY <1>1, SeqEqual

-----------------------------------------------------------------------------
(* What holds on every branch *)

Upgraded(h) == ConsensusSecurityUpgradeActive(h)

\* The finalized record after the block at a height.
RecordAt(b, h) == IF h = 0 THEN NullRecord ELSE b[h].state.record

\* The fields the transitions below read and keep are there.
Shaped(state) ==
    {"record", "certified_carrier_record", "security_upgrade_active"} \subseteq DOMAIN state

\* The block that carried a record is on the branch with the record's target, in
\* its window, and the record it superseded there was of an earlier checkpoint.
Carried(b, r, h) ==
    LET c == r.carrier.height IN
    /\ c \in 1..h /\ b[c].hash = r.carrier.hash /\ RecordAt(b, c) = r
    /\ r.target.height \in 1..h /\ b[r.target.height].hash = r.target.hash
    /\ IsScheduledCheckpoint(r.target.height) /\ InVoteWindow(r.target.height, c)
    /\ RecordAt(b, c - 1) # NullRecord => RecordAt(b, c - 1).target.height < r.target.height

\* The record that may authorize an anchor after the upgrade.
Authorizing(b, r) ==
    IF r = NullRecord \/ ~Upgraded(r.carrier.height) THEN r
    ELSE RecordAt(b, r.carrier.height - 1)

NotBelow(r, s) == s # NullRecord => r # NullRecord /\ r.target.height >= s.target.height

SoundAt(b, h) ==
    LET r == RecordAt(b, h) IN
    /\ Shaped(b[h].state)
    /\ b[h].state.security_upgrade_active = Upgraded(h)
    /\ r # NullRecord => Carried(b, r, h)
    /\ \A g \in 0..h : NotBelow(r, RecordAt(b, g))
    /\ Upgraded(h) => b[h].state.certified_carrier_record = Authorizing(b, r)

Sound(b) == Frames(b) /\ \A h \in 1..Len(b) : SoundAt(b, h)

\* Two branches that agree up to a height have the same state there.
LEMMA SoundAgrees ==
    ASSUME NEW b, NEW d, NEW n \in Nat, \A i \in 1..n : d[i] = b[i],
           NEW h \in 1..n, SoundAt(b, h)
    PROVE  SoundAt(d, h)
PROOF
  <1>1. \A g \in 0..h : RecordAt(d, g) = RecordAt(b, g)
    BY DEF RecordAt
  <1>2. d[h] = b[h] /\ RecordAt(d, h) = RecordAt(b, h)
    BY <1>1
  <1> DEFINE r == RecordAt(b, h)
  <1>3. r # NullRecord => Carried(b, r, h)
    BY DEF SoundAt
  <1>4. ASSUME r # NullRecord
        PROVE  /\ Carried(d, r, h)
               /\ RecordAt(d, r.carrier.height - 1) = RecordAt(b, r.carrier.height - 1)
    <2>1. /\ r.carrier.height \in 1..h /\ r.target.height \in 1..h
          /\ r.carrier.height - 1 \in 0..h
      BY <1>3, <1>4 DEF Carried
    <2>2. /\ RecordAt(d, r.carrier.height) = RecordAt(b, r.carrier.height)
          /\ RecordAt(d, r.carrier.height - 1) = RecordAt(b, r.carrier.height - 1)
          /\ d[r.carrier.height] = b[r.carrier.height]
          /\ d[r.target.height] = b[r.target.height]
      BY <1>1, <2>1
    <2> HIDE DEF r
    <2>3. QED
      BY <1>3, <1>4, <2>2 DEF Carried
  <1>5. Authorizing(d, r) = Authorizing(b, r)
    BY <1>4 DEF Authorizing
  <1> HIDE DEF r
  <1>6. RecordAt(d, h) = r /\ RecordAt(b, h) = r
    BY <1>2 DEF r
  <1>7. \A g \in 0..h : NotBelow(r, RecordAt(d, g))
    BY <1>1, <1>6 DEF SoundAt
  <1>8. QED
    BY <1>2, <1>4, <1>5, <1>6, <1>7 DEF SoundAt

\* The state a sound branch ends in, also an empty one.
LEMMA SoundTip ==
    ASSUME NEW b, Sound(b)
    PROVE  /\ Len(b) \in Nat
           /\ Shaped(StateOf(b))
           /\ StateOf(b).record = RecordAt(b, Len(b))
           /\ StateOf(b).security_upgrade_active = Upgraded(Len(b))
           /\ Upgraded(Len(b)) =>
                 StateOf(b).certified_carrier_record = Authorizing(b, RecordAt(b, Len(b)))
PROOF
  <1>1. Len(b) \in Nat /\ (b = <<>> <=> Len(b) = 0)
    BY LenProperties, EmptySeq DEF Sound, Frames
  <1>2. CASE b = <<>>
    <2>1. Len(b) = 0 /\ StateOf(b) = EmptyState
      BY <1>1, <1>2 DEF StateOf
    <2>2. Upgraded(0) = FALSE
      BY ProfileAssumption DEF Upgraded, ConsensusSecurityUpgradeActive
    <2>3. Shaped(EmptyState) /\ EmptyState.record = RecordAt(b, 0)
      BY DEF EmptyState, Shaped, RecordAt
    <2>4. EmptyState.security_upgrade_active = FALSE
      BY DEF EmptyState
    <2>5. QED
      BY <1>1, <2>1, <2>2, <2>3, <2>4
  <1>3. CASE b # <<>>
    <2>1. Len(b) \in 1..Len(b) /\ StateOf(b) = b[Len(b)].state
      BY <1>1, <1>3 DEF StateOf
    <2>2. SoundAt(b, Len(b))
      BY <2>1 DEF Sound
    <2>3. QED
      BY <1>1, <2>1, <2>2 DEF SoundAt, RecordAt
  <1>4. QED
    BY <1>2, <1>3

\* Multiplication by a positive number keeps the order.
LEMMA TimesGrows ==
    ASSUME NEW d \in Nat \ {0}, NEW a \in Nat, NEW b \in Nat
    PROVE  /\ a < b => d * a + d <= d * b
           /\ d * a < d * b => a < b
PROOF
  <1>1. ASSUME NEW x \in Nat, NEW y \in Nat, x < y PROVE d * x + d <= d * y
    <2>1. y - x - 1 \in Nat
      BY <1>1
    <2>2. d * (y - x - 1) \in Nat
      BY <2>1
    <2>3. d * (y - x - 1) = d * y - d * x - d
      OBVIOUS
    <2>4. QED
      BY <2>2, <2>3
  <1>2. b < a => d * b + d <= d * a
    BY <1>1
  <1>3. d * a \in Nat /\ d * b \in Nat
    OBVIOUS
  <1>4. QED
    BY <1>1, <1>2, <1>3

\* Two checkpoints are at least a vote window apart: the later one is not below
\* a carrier of the earlier one.
LEMMA WindowsApart ==
    ASSUME NEW t \in Nat, NEW u \in Nat, NEW c \in Nat,
           IsScheduledCheckpoint(t), IsScheduledCheckpoint(u), u < t, InVoteWindow(u, c)
    PROVE  c <= t
PROOF
  <1> DEFINE I == CHECKPOINT_INTERVAL
             p == t \div I
             q == u \div I
  <1>1. I \in Nat \ {0} /\ t % I = 0 /\ u % I = 0 /\ c <= u + I
    BY ProfileAssumption DEF IsScheduledCheckpoint, InVoteWindow, VOTE_WINDOW_BLOCKS
  <1>2. p \in Nat /\ q \in Nat /\ t = I * p /\ u = I * q
    BY <1>1
  <1> HIDE DEF I, p, q
  <1>3. q < p
    BY <1>1, <1>2, TimesGrows
  <1>4. I * q + I <= I * p
    BY <1>1, <1>2, <1>3, TimesGrows
  <1>5. QED
    BY <1>1, <1>2, <1>4

-----------------------------------------------------------------------------
(* One more block *)

\* Heights only leave the old rules (OnBlockHeight).
LEMMA UpgradeStays ==
    ASSUME NEW g \in Nat, NEW h \in Nat, g <= h
    PROVE  /\ Upgraded(g) \in BOOLEAN /\ Upgraded(h) \in BOOLEAN
           /\ Upgraded(g) => Upgraded(h)
  BY ProfileAssumption DEF Upgraded, ConsensusSecurityUpgradeActive

\* The fields an update does not name are kept, and the others set.
LEMMA ShapedFields ==
    ASSUME NEW o, Shaped(o)
    PROVE  /\ "record" \in DOMAIN o /\ "certified_carrier_record" \in DOMAIN o
           /\ "security_upgrade_active" \in DOMAIN o
  BY DEF Shaped

\* What OnBlockHeight changes at the upgrade.
LEMMA UpgradeFields ==
    ASSUME NEW o, Shaped(o), NEW s,
           s = [o EXCEPT !.certified_carrier_record = o.record,
                         !.security_upgrade_active = TRUE]
    PROVE  /\ Shaped(s) /\ s.record = o.record
           /\ s.certified_carrier_record = o.record /\ s.security_upgrade_active = TRUE
PROOF
  <1>1. DOMAIN s = DOMAIN o
    OBVIOUS
  <1>2. s.record = o.record
    BY ShapedFields
  <1>3. s.certified_carrier_record = o.record
    BY ShapedFields
  <1>4. s.security_upgrade_active = TRUE
    BY ShapedFields
  <1>5. QED
    BY <1>1, <1>2, <1>3, <1>4 DEF Shaped

\* OnBlockHeight keeps the record and, at the upgrade, makes it the authorizing one.
LEMMA BeginBlock ==
    ASSUME NEW b, Sound(b), NEW s, s = OnBlockHeight(StateOf(b), Len(b) + 1)
    PROVE  LET r == RecordAt(b, Len(b)) IN
           /\ Shaped(s) /\ s.record = r
           /\ s.security_upgrade_active = Upgraded(Len(b) + 1)
           /\ Upgraded(Len(b) + 1) => s.certified_carrier_record = Authorizing(b, r)
PROOF
  <1> DEFINE n == Len(b)
             r == RecordAt(b, n)
             o == StateOf(b)
  <1>1. /\ n \in Nat /\ Shaped(o) /\ o.record = r
        /\ o.security_upgrade_active = Upgraded(n)
        /\ Upgraded(n) => o.certified_carrier_record = Authorizing(b, r)
    BY SoundTip
  <1>2. /\ Upgraded(n) \in BOOLEAN /\ Upgraded(n + 1) \in BOOLEAN
        /\ Upgraded(n) => Upgraded(n + 1)
    BY <1>1, UpgradeStays
  <1>3. ~Upgraded(n) => Authorizing(b, r) = r
    <2>1. SUFFICES ASSUME ~Upgraded(n), r # NullRecord PROVE ~Upgraded(r.carrier.height)
      BY DEF Authorizing
    <2>2. n # 0
      BY <2>1 DEF RecordAt
    <2>3. SoundAt(b, n)
      BY <1>1, <2>2 DEF Sound
    <2>4. r.carrier.height \in 1..n
      BY <2>1, <2>3 DEF SoundAt, Carried
    <2>5. QED
      BY <1>1, <2>1, <2>4, UpgradeStays
  <1>4. ConsensusSecurityUpgradeActive(n + 1) = Upgraded(n + 1)
    BY DEF Upgraded
  <1>5. CASE Upgraded(n + 1) /\ ~Upgraded(n)
    <2>1. ~o.security_upgrade_active
      BY <1>1, <1>5
    <2>2. s = [o EXCEPT !.certified_carrier_record = o.record,
                        !.security_upgrade_active = TRUE]
      BY <1>4, <1>5, <2>1 DEF OnBlockHeight
    <2> HIDE DEF n, r, o
    <2>3. /\ Shaped(s) /\ s.record = o.record
          /\ s.certified_carrier_record = o.record /\ s.security_upgrade_active = TRUE
      BY <1>1, <2>2, UpgradeFields
    <2>4. QED
      BY <1>1, <1>2, <1>3, <1>5, <2>3 DEF n, r
  <1>6. CASE ~(Upgraded(n + 1) /\ ~Upgraded(n))
    <2>1. ~(Upgraded(n + 1) /\ ~o.security_upgrade_active)
      BY <1>1, <1>6
    <2>2. s = o
      BY <1>4, <2>1 DEF OnBlockHeight
    <2> HIDE DEF n, r, o
    <2>3. QED
      BY <1>1, <1>2, <1>6, <2>2 DEF n, r
  <1>7. QED
    BY <1>5, <1>6

\* The record a certificate leaves.
RecordOf(qc, carrier) ==
    [epoch_id |-> qc.epoch_id, target |-> qc.target, set_root |-> qc.set_root,
     carrier |-> carrier]

\* What OnCertificate changes.
LEMMA CertificateFields ==
    ASSUME NEW o, Shaped(o), NEW qc, NEW carrier, NEW s, s = OnCertificate(o, qc, carrier)
    PROVE  /\ Shaped(s) /\ s.record = RecordOf(qc, carrier)
           /\ s.security_upgrade_active = o.security_upgrade_active
           /\ s.certified_carrier_record =
                 IF /\ o.security_upgrade_active /\ o.record # NullRecord
                    /\ qc.target.height >= o.record.carrier.height
                 THEN o.record ELSE o.certified_carrier_record
PROOF
  <1> DEFINE x == IF /\ o.security_upgrade_active /\ o.record # NullRecord
                     /\ qc.target.height >= o.record.carrier.height
                  THEN o.record ELSE o.certified_carrier_record
             r == RecordOf(qc, carrier)
  <1>1. s = [o EXCEPT !.certified_carrier_record = x, !.record = r]
    BY DEF OnCertificate, RecordOf
  <1> HIDE DEF x, r
  <1>2. DOMAIN s = DOMAIN o
    BY <1>1
  <1>3. s.record = r
    BY <1>1, ShapedFields
  <1>4. s.certified_carrier_record = x
    BY <1>1, ShapedFields
  <1>5. s.security_upgrade_active = o.security_upgrade_active
    BY <1>1, ShapedFields
  <1>6. QED
    BY <1>2, <1>3, <1>4, <1>5 DEF Shaped, x, r

\* OnEpochBoundary does not touch the records.
LEMMA BoundaryFields ==
    ASSUME NEW o, Shaped(o), NEW e, NEW entries, NEW s, s = OnEpochBoundary(o, e, entries)
    PROVE  /\ Shaped(s) /\ s.record = o.record
           /\ s.security_upgrade_active = o.security_upgrade_active
           /\ s.certified_carrier_record = o.certified_carrier_record
PROOF
  <1>1. PICK x, y, z : s = [o EXCEPT !.snapshots = x, !.consecutive_qualified_epochs = y,
                                     !.finality_ever_active = z]
    BY DEF OnEpochBoundary
  <1>2. DOMAIN s = DOMAIN o
    BY <1>1
  <1>3. s.record = o.record
    BY <1>1, ShapedFields
  <1>4. s.certified_carrier_record = o.certified_carrier_record
    BY <1>1, ShapedFields
  <1>5. s.security_upgrade_active = o.security_upgrade_active
    BY <1>1, ShapedFields
  <1>6. QED
    BY <1>2, <1>3, <1>4, <1>5 DEF Shaped

\* What a valid block does to the records of its branch (AfterBlock): without a
\* certificate nothing, with one the old record authorizes and the new one is
\* carried here.
NewFrame(b, hash, qc, frame) ==
    LET h == Len(b) + 1
        old == RecordAt(b, Len(b))
        s == frame.state
    IN  /\ frame.hash = hash /\ Shaped(s)
        /\ s.security_upgrade_active = Upgraded(h)
        /\ qc = NoCert =>
              /\ s.record = old
              /\ Upgraded(h) => s.certified_carrier_record = Authorizing(b, old)
        /\ qc # NoCert =>
              /\ s.record = RecordOf(qc, [height |-> h, hash |-> hash])
              /\ Upgraded(h) => s.certified_carrier_record = old

\* A certificate the block rules accept is for a block of the branch in its vote
\* window, and a checkpoint above the finalized one (CertificateAccepted).
LEMMA AcceptedTarget ==
    ASSUME NEW b, Sound(b), NEW qc, qc # NoCert, BlockValid(b, Len(b) + 1, qc)
    PROVE  LET t == qc.target
               old == RecordAt(b, Len(b))
           IN  /\ t.height \in 1..Len(b) /\ b[t.height].hash = t.hash
               /\ IsScheduledCheckpoint(t.height) /\ InVoteWindow(t.height, Len(b) + 1)
               /\ old # NullRecord => t.height > old.target.height
PROOF
  <1> DEFINE s == OnBlockHeight(StateOf(b), Len(b) + 1)
  <1>1. s.record = RecordAt(b, Len(b))
    BY BeginBlock
  <1>2. CertificateAccepted(s, qc, [height |-> Len(b) + 1, hash |-> NoHash], b)
    BY DEF BlockValid
  <1> HIDE DEF s
  <1>3. QED
    BY <1>1, <1>2 DEF CertificateAccepted, Has

\* A superseded record had its carrier at or below the target that supersedes it.
LEMMA CarrierBelow ==
    ASSUME NEW b, Sound(b), NEW h \in 1..Len(b), RecordAt(b, h) # NullRecord,
           NEW t \in Nat, IsScheduledCheckpoint(t), RecordAt(b, h).target.height < t
    PROVE  RecordAt(b, h).carrier.height <= t
PROOF
  <1> DEFINE r == RecordAt(b, h)
  <1>1. Carried(b, r, h)
    BY DEF Sound, SoundAt
  <1>2. Len(b) \in Nat
    BY SoundTip
  <1> HIDE DEF r
  <1>3. /\ r.carrier.height \in Nat /\ r.target.height \in Nat
        /\ IsScheduledCheckpoint(r.target.height)
        /\ InVoteWindow(r.target.height, r.carrier.height)
    BY <1>1, <1>2 DEF Carried
  <1>4. r.target.height < t
    BY DEF r
  <1>5. r.carrier.height <= t
    BY <1>3, <1>4, WindowsApart
  <1>6. QED
    BY <1>5 DEF r

\* AfterBlock appends such a frame.
LEMMA BlockFrame ==
    ASSUME NEW b, Sound(b), NEW hash, NEW qc, NEW entries, BlockValid(b, Len(b) + 1, qc)
    PROVE  \E frame : /\ AfterBlock(b, hash, qc, entries) = Append(b, frame)
                      /\ NewFrame(b, hash, qc, frame)
PROOF
  <1> DEFINE n == Len(b)
             h == n + 1
             old == RecordAt(b, n)
             begun == OnBlockHeight(StateOf(b), h)
             carrier == [height |-> h, hash |-> hash]
             fed == IF qc = NoCert THEN begun ELSE OnCertificate(begun, qc, carrier)
             done == IF IsEpochBoundary(h) THEN OnEpochBoundary(fed, EpochOf(h) + 1, entries)
                     ELSE fed
             frame == [hash |-> hash, state |-> done]
  <1>1. AfterBlock(b, hash, qc, entries) = Append(b, frame)
    BY DEF AfterBlock
  <1>2. /\ Shaped(begun) /\ begun.record = old
        /\ begun.security_upgrade_active = Upgraded(h)
        /\ Upgraded(h) => begun.certified_carrier_record = Authorizing(b, old)
    BY BeginBlock
  <1>3. n \in Nat /\ Upgraded(h) \in BOOLEAN
    BY SoundTip, UpgradeStays
  <1>4. /\ Shaped(fed) /\ fed.security_upgrade_active = Upgraded(h)
        /\ qc = NoCert => fed = begun
        /\ qc # NoCert => /\ fed.record = RecordOf(qc, carrier)
                          /\ Upgraded(h) => fed.certified_carrier_record = old
    <2>1. CASE qc = NoCert
      BY <1>2, <2>1
    <2>2. CASE qc # NoCert
      <3>1. fed = OnCertificate(begun, qc, carrier)
        BY <2>2
      <3> HIDE DEF begun, fed, carrier
      <3>2. /\ Shaped(fed) /\ fed.record = RecordOf(qc, carrier)
            /\ fed.security_upgrade_active = begun.security_upgrade_active
            /\ fed.certified_carrier_record =
                  IF /\ begun.security_upgrade_active /\ begun.record # NullRecord
                     /\ qc.target.height >= begun.record.carrier.height
                  THEN begun.record ELSE begun.certified_carrier_record
        BY <1>2, <3>1, CertificateFields
      <3>3. ASSUME old # NullRecord PROVE qc.target.height >= old.carrier.height
        <4>1. /\ qc.target.height \in 1..n /\ IsScheduledCheckpoint(qc.target.height)
              /\ qc.target.height > old.target.height
          BY <2>2, <3>3, AcceptedTarget
        <4>2. n \in 1..n
          BY <1>3, <3>3 DEF RecordAt
        <4>3. Carried(b, old, n)
          BY <3>3, <4>2 DEF Sound, SoundAt
        <4>4. old.carrier.height \in Nat /\ old.target.height \in Nat
          BY <1>3, <4>3 DEF Carried
        <4>5. old.carrier.height <= qc.target.height
          BY <1>3, <3>3, <4>1, <4>2, <4>4, CarrierBelow
        <4>6. QED
          BY <1>3, <4>1, <4>4, <4>5
      <3>4. Upgraded(h) /\ old = NullRecord => begun.certified_carrier_record = NullRecord
        BY <1>2 DEF Authorizing
      <3>5. Upgraded(h) => fed.certified_carrier_record = old
        BY <1>2, <3>2, <3>3, <3>4
      <3>6. QED
        BY <1>2, <2>2, <3>2, <3>5
    <2>3. QED
      BY <2>1, <2>2
  <1> HIDE DEF begun, fed, carrier
  <1>5. /\ Shaped(done) /\ done.record = fed.record
        /\ done.security_upgrade_active = fed.security_upgrade_active
        /\ done.certified_carrier_record = fed.certified_carrier_record
    BY <1>4, BoundaryFields
  <1> HIDE DEF done
  <1>6. NewFrame(b, hash, qc, frame)
    BY <1>2, <1>4, <1>5 DEF NewFrame, carrier
  <1>7. QED
    BY <1>1, <1>6

\* The record of a sound branch at a height.
LEMMA RecordFacts ==
    ASSUME NEW b, Sound(b), NEW h \in 0..Len(b)
    PROVE  LET r == RecordAt(b, h) IN
           /\ r # NullRecord => h # 0 /\ Carried(b, r, h)
           /\ r # NullRecord => r.carrier.height \in 1..h /\ r.target.height \in 1..h
           /\ \A g \in 0..h : NotBelow(r, RecordAt(b, g))
PROOF
  <1>1. Len(b) \in Nat
    BY SoundTip
  <1>2. CASE h = 0
    BY <1>2 DEF RecordAt, NotBelow
  <1>3. CASE h # 0
    <2>1. SoundAt(b, h)
      BY <1>1, <1>3 DEF Sound
    <2>2. QED
      BY <1>3, <2>1 DEF SoundAt, Carried
  <1>4. QED
    BY <1>2, <1>3

\* A record stays carried when the branch grows.
LEMMA CarriedAgrees ==
    ASSUME NEW b, Sound(b), NEW d, \A i \in 1..Len(b) : d[i] = b[i],
           NEW h \in 0..Len(b), RecordAt(b, h) # NullRecord, NEW k \in Nat, h <= k
    PROVE  /\ Carried(d, RecordAt(b, h), k)
           /\ Authorizing(d, RecordAt(b, h)) = Authorizing(b, RecordAt(b, h))
PROOF
  <1> DEFINE r == RecordAt(b, h)
             c == r.carrier.height
  <1>1. Len(b) \in Nat
    BY SoundTip
  <1>2. Carried(b, r, h) /\ c \in 1..h /\ r.target.height \in 1..h
    BY RecordFacts
  <1>3. \A g \in 0..Len(b) : RecordAt(d, g) = RecordAt(b, g)
    BY <1>1 DEF RecordAt
  <1> HIDE DEF r
  <1> HIDE DEF c
  <1>4. /\ RecordAt(d, c) = RecordAt(b, c) /\ RecordAt(d, c - 1) = RecordAt(b, c - 1)
        /\ d[c] = b[c] /\ d[r.target.height] = b[r.target.height]
        /\ c \in 1..k /\ r.target.height \in 1..k
    <2>1. /\ c \in 1..Len(b) /\ c \in 0..Len(b) /\ c - 1 \in 0..Len(b)
          /\ r.target.height \in 1..Len(b)
      BY <1>1, <1>2
    <2>2. c \in 1..k /\ r.target.height \in 1..k
      BY <1>1, <1>2
    <2>3. QED
      BY <1>3, <2>1, <2>2, Zenon
  <1>5. Carried(d, r, k)
    BY <1>2, <1>4 DEF Carried, c
  <1>6. Authorizing(d, r) = Authorizing(b, r)
    BY <1>4 DEF Authorizing, c
  <1>7. QED
    BY <1>5, <1>6 DEF r

\* A valid block keeps a branch sound.
LEMMA SoundExtend ==
    ASSUME NEW b, Sound(b), NEW hash, NEW qc, NEW frame,
           BlockValid(b, Len(b) + 1, qc), NewFrame(b, hash, qc, frame)
    PROVE  Sound(Append(b, frame))
PROOF
  <1> DEFINE d == Append(b, frame)
             n == Len(b)
             h == n + 1
             old == RecordAt(b, n)
             r == frame.state.record
  <1>1. /\ Frames(d) /\ n \in Nat /\ Len(d) = h
        /\ \A i \in 1..n : d[i] = b[i]
        /\ d[h] = frame
    BY Appended DEF Sound
  <1> HIDE DEF d
  <1>2. \A g \in 1..n : SoundAt(d, g)
    BY <1>1, SoundAgrees DEF Sound
  <1>3. RecordAt(d, h) = r /\ \A g \in 0..n : RecordAt(d, g) = RecordAt(b, g)
    BY <1>1 DEF RecordAt
  <1>4. /\ old # NullRecord => old.target.height \in 1..n
        /\ \A g \in 0..n : NotBelow(old, RecordAt(b, g))
    BY <1>1, RecordFacts
  <1>4a. \A g \in 0..n : RecordAt(b, g) # NullRecord => RecordAt(b, g).target.height \in Nat
    BY <1>1, RecordFacts
  <1>5. /\ r # NullRecord => Carried(d, r, h)
        /\ \A g \in 0..h : NotBelow(r, RecordAt(d, g))
        /\ Upgraded(h) => frame.state.certified_carrier_record = Authorizing(d, r)
    <2>1. CASE qc = NoCert
      <3>1. /\ r = old
            /\ Upgraded(h) => frame.state.certified_carrier_record = Authorizing(b, old)
        BY <2>1 DEF NewFrame
      <3>2. old # NullRecord =>
              Carried(d, old, h) /\ Authorizing(d, old) = Authorizing(b, old)
        BY <1>1, CarriedAgrees
      <3>3. old = NullRecord => Authorizing(d, old) = Authorizing(b, old)
        BY DEF Authorizing
      <3>4. NotBelow(r, RecordAt(d, h))
        BY <1>3, <1>4, <3>1 DEF NotBelow
      <3>5. \A g \in 0..n : NotBelow(r, RecordAt(d, g))
        BY <1>3, <1>4, <3>1
      <3>6. QED
        BY <1>1, <3>1, <3>2, <3>3, <3>4, <3>5
    <2>2. CASE qc # NoCert
      <3> DEFINE carrier == [height |-> h, hash |-> hash]
                 t == qc.target
      <3>1. /\ r = RecordOf(qc, carrier)
            /\ Upgraded(h) => frame.state.certified_carrier_record = old
            /\ frame.hash = hash
        BY <2>2 DEF NewFrame
      <3>2. /\ t.height \in 1..n /\ b[t.height].hash = t.hash
            /\ IsScheduledCheckpoint(t.height) /\ InVoteWindow(t.height, h)
            /\ old # NullRecord => t.height > old.target.height
        BY <2>2, AcceptedTarget
      <3>3. r.target = t /\ r.carrier = carrier /\ carrier.height = h /\ carrier.hash = hash
        BY <3>1 DEF RecordOf
      <3>4. r # NullRecord
        BY <1>1, <3>3 DEF NullRecord, NullRef
      <3> HIDE DEF r, t, carrier
      <3>5. RecordAt(d, h - 1) = old
        BY <1>1, <1>3
      <3>6. d[t.height] = b[t.height] /\ t.height \in 1..h
        BY <1>1, <3>2
      <3>7. Carried(d, r, h)
        BY <1>1, <1>3, <1>4, <3>1, <3>2, <3>3, <3>5, <3>6 DEF Carried
      <3>8. \A g \in 0..n : NotBelow(r, RecordAt(d, g))
        BY <1>1, <1>3, <1>4, <1>4a, <3>2, <3>3, <3>4 DEF NotBelow
      <3>9. NotBelow(r, RecordAt(d, h))
        BY <1>1, <1>3, <3>2, <3>3 DEF NotBelow
      <3>10. Upgraded(h) => Authorizing(d, r) = old
        BY <3>3, <3>4, <3>5 DEF Authorizing
      <3>11. QED
        BY <1>1, <3>1, <3>7, <3>8, <3>9, <3>10
    <2>3. QED
      BY <2>1, <2>2
  <1>6. Shaped(frame.state) /\ frame.state.security_upgrade_active = Upgraded(h)
    BY DEF NewFrame
  <1> HIDE DEF r
  <1>7. SoundAt(d, h)
    BY <1>1, <1>3, <1>5, <1>6 DEF SoundAt
  <1>8. QED
    BY <1>1, <1>2, <1>7 DEF Sound, d

\* A branch cut at a height is sound.
LEMMA SoundPrefix ==
    ASSUME NEW b, Sound(b), NEW n \in 0..Len(b)
    PROVE  Sound(SubSeq(b, 1, n)) /\ Len(SubSeq(b, 1, n)) = n
PROOF
  <1> DEFINE p == SubSeq(b, 1, n)
  <1>1. Len(b) \in Nat /\ n \in Nat
    BY SoundTip
  <1>2. Frames(p) /\ Len(p) = n /\ \A i \in 1..n : p[i] = b[i]
    BY <1>1, Cut DEF Sound
  <1> HIDE DEF p
  <1>3. \A h \in 1..n : SoundAt(b, h)
    BY <1>1 DEF Sound
  <1>4. \A h \in 1..n : SoundAt(p, h)
    BY <1>1, <1>2, <1>3, SoundAgrees
  <1>5. QED
    BY <1>2, <1>4 DEF Sound, p

-----------------------------------------------------------------------------
(* From one branch to another that shares its beginning *)

Agree(b, d, n) == n \in Nat /\ n <= Len(b) /\ n <= Len(d) /\ \A i \in 1..n : d[i] = b[i]

\* A record whose carrier is on both branches is kept by the other one: its
\* blocks are there, and no record above the carrier is below it.
LEMMA Kept ==
    ASSUME NEW b, Sound(b), NEW d, Sound(d), NEW n, Agree(b, d, n),
           NEW h \in 0..Len(b), NEW r, r = RecordAt(b, h), r # NullRecord,
           r.carrier.height <= n, NEW k \in 0..Len(d), r.carrier.height <= k
    PROVE  /\ Has(d, r.target) /\ Has(d, r.carrier)
           /\ NotBelow(RecordAt(d, k), r) /\ r.target.height \in Nat
           /\ RecordAt(d, r.carrier.height) = r
PROOF
  <1> DEFINE c == r.carrier.height
  <1>1. Len(b) \in Nat /\ Len(d) \in Nat /\ n \in Nat /\ n <= Len(b) /\ n <= Len(d)
    BY SoundTip DEF Agree
  <1>2. Carried(b, r, h) /\ c \in 1..h
    BY RecordFacts
  <1>3. c \in 1..n /\ c \in 0..Len(b) /\ c \in 0..Len(d) /\ c \in 0..k /\ c # 0
    BY <1>1, <1>2
  <1>4. RecordAt(b, c) = r /\ b[c].hash = r.carrier.hash
    BY <1>2 DEF Carried
  <1> HIDE DEF c
  <1>5. Carried(b, r, c) /\ r.target.height \in 1..c
    BY <1>3, <1>4, RecordFacts
  <1>6. r.target.height \in 1..n /\ b[r.target.height].hash = r.target.hash
    BY <1>1, <1>3, <1>5 DEF Carried
  <1>7. d[c] = b[c] /\ d[r.target.height] = b[r.target.height]
    BY <1>3, <1>6 DEF Agree
  <1>8. RecordAt(d, c) = r
    BY <1>3, <1>4, <1>7 DEF RecordAt
  <1>9. Has(d, r.target) /\ Has(d, r.carrier)
    BY <1>1, <1>3, <1>4, <1>6, <1>7 DEF Has, c
  <1>10. NotBelow(RecordAt(d, k), RecordAt(d, c))
    BY <1>3, RecordFacts
  <1>11. QED
    BY <1>6, <1>8, <1>9, <1>10 DEF c

\* AnchorAuthorizationRecord, before the upgrade and after it.
LEMMA AuthorizationIs ==
    ASSUME NEW b, Sound(b)
    PROVE  AnchorAuthorizationRecord(StateOf(b)) = Authorizing(b, RecordAt(b, Len(b)))
PROOF
  <1> DEFINE n == Len(b)
             r == RecordAt(b, n)
             o == StateOf(b)
  <1>1. /\ n \in Nat /\ o.record = r /\ o.security_upgrade_active = Upgraded(n)
        /\ Upgraded(n) => o.certified_carrier_record = Authorizing(b, r)
    BY SoundTip
  <1>2. ~Upgraded(n) => Authorizing(b, r) = r
    <2>1. SUFFICES ASSUME ~Upgraded(n), r # NullRecord PROVE ~Upgraded(r.carrier.height)
      BY DEF Authorizing
    <2>2. n \in 0..Len(b)
      BY <1>1
    <2>3. r.carrier.height \in 1..n
      BY <2>1, <2>2, RecordFacts
    <2>4. QED
      BY <1>1, <2>1, <2>3, UpgradeStays
  <1> HIDE DEF n, r, o
  <1>3. AnchorAuthorizationRecord(o) = Authorizing(b, r)
    <2>1. CASE Upgraded(n)
      BY <1>1, <2>1 DEF AnchorAuthorizationRecord
    <2>2. CASE ~Upgraded(n)
      BY <1>1, <1>2, <2>2 DEF AnchorAuthorizationRecord
    <2>3. QED
      BY <2>1, <2>2
  <1>4. QED
    BY <1>3 DEF n, r, o

\* The authorizing record is one of the branch: the finalized one, or the one
\* below it, whose carrier is at or below the finalized block.
LEMMA AuthorizingFacts ==
    ASSUME NEW b, Sound(b), NEW r, r = RecordAt(b, Len(b)),
           NEW a, a = Authorizing(b, r), a # NullRecord
    PROVE  /\ r # NullRecord
           /\ \E h \in 0..Len(b) : a = RecordAt(b, h)
           /\ a.carrier.height \in 1..Len(b) /\ a.target.height \in Nat
           /\ r.target.height \in Nat /\ r.carrier.height \in Nat
           /\ ~Upgraded(r.carrier.height) => a = r
           /\ Upgraded(r.carrier.height) =>
                 a.target.height < r.target.height /\ a.carrier.height <= r.target.height
PROOF
  <1> DEFINE n == Len(b)
             c == r.carrier.height
  <1>1. n \in Nat /\ n \in 0..Len(b)
    BY SoundTip
  <1>2. r # NullRecord
    BY DEF Authorizing
  <1>3. Carried(b, r, n) /\ c \in 1..n /\ r.target.height \in 1..n
    BY <1>1, <1>2, RecordFacts
  <1>4. CASE ~Upgraded(c)
    <2>1. a = r
      BY <1>4 DEF Authorizing
    <2>2. QED
      BY <1>1, <1>2, <1>3, <1>4, <2>1
  <1>5. CASE Upgraded(c)
    <2>1. a = RecordAt(b, c - 1)
      BY <1>2, <1>5 DEF Authorizing
    <2>2. c - 1 \in 0..Len(b)
      BY <1>1, <1>3
    <2>3. /\ a.target.height < r.target.height /\ IsScheduledCheckpoint(r.target.height)
      BY <1>3, <2>1 DEF Carried
    <2> HIDE DEF c
    <2>4. c - 1 # 0 /\ a.carrier.height \in 1..(c - 1) /\ a.target.height \in 1..(c - 1)
      BY <2>1, <2>2, RecordFacts
    <2>5. c - 1 \in 1..Len(b) /\ r.target.height \in Nat
      BY <1>1, <1>3, <2>2, <2>4
    <2>6. a.carrier.height <= r.target.height
      BY <2>1, <2>3, <2>5, CarrierBelow
    <2>7. a.carrier.height \in 1..Len(b) /\ a.target.height \in Nat /\ c \in Nat
      BY <1>1, <1>3, <2>4
    <2>8. QED
      BY <1>2, <1>5, <2>1, <2>2, <2>3, <2>5, <2>6, <2>7 DEF c
  <1>6. QED
    BY <1>4, <1>5

\* A branch that keeps the finalized record keeps the authorizing one.
LEMMA AuthorizationKept ==
    ASSUME NEW b, Sound(b), NEW d, Sound(d), NEW n, Agree(b, d, n),
           NEW r, r = RecordAt(b, Len(b)), NEW s, s = RecordAt(d, Len(d)),
           NotBelow(s, r),
           NEW a, a = Authorizing(b, r), a # NullRecord, a.carrier.height <= n
    PROVE  Has(d, a.carrier) /\ NotBelow(Authorizing(d, s), a)
PROOF
  <1> DEFINE g == a.carrier.height
             c == s.carrier.height
  <1>1. /\ r # NullRecord /\ g \in 1..Len(b)
        /\ a.target.height \in Nat /\ r.target.height \in Nat /\ r.carrier.height \in Nat
        /\ ~Upgraded(r.carrier.height) => a = r
        /\ Upgraded(r.carrier.height) => a.target.height < r.target.height
    BY AuthorizingFacts
  <1>2. PICK h \in 0..Len(b) : a = RecordAt(b, h)
    BY AuthorizingFacts
  <1>3. /\ Len(b) \in Nat /\ Len(d) \in Nat /\ n \in Nat /\ n <= Len(b) /\ n <= Len(d)
        /\ Len(d) \in 0..Len(d) /\ g <= n /\ g <= Len(d) /\ g \in Nat
    BY <1>1, SoundTip DEF Agree
  <1>4. \A k \in 0..Len(d) : g <= k => NotBelow(RecordAt(d, k), a)
    BY <1>2, <1>3, Kept
  <1>5. Has(d, a.carrier) /\ RecordAt(d, g) = a
    BY <1>2, <1>3, Kept
  <1>6. s # NullRecord /\ s.target.height >= r.target.height
    BY <1>1 DEF NotBelow
  <1>7. c \in 1..Len(d) /\ s.target.height \in Nat /\ RecordAt(d, c) = s
    BY <1>3, <1>6, RecordFacts DEF Carried
  <1>8. CASE ~Upgraded(c)
    <2>1. Authorizing(d, s) = s
      BY <1>8 DEF Authorizing
    <2>2. QED
      BY <1>3, <1>4, <1>5, <2>1
  <1>9. CASE Upgraded(c)
    <2>1. Authorizing(d, s) = RecordAt(d, c - 1)
      BY <1>6, <1>9 DEF Authorizing
    <2> HIDE DEF g, c
    <2>2. g < c
      <3>1. CASE ~Upgraded(g)
        BY <1>3, <1>7, <1>9, <3>1, UpgradeStays
      <3>2. CASE Upgraded(g)
        <4>1. SUFFICES ASSUME c <= g PROVE FALSE
          BY <1>3, <1>7
        <4>2. g \in 0..Len(d) /\ c \in 0..g
          BY <1>3, <1>7, <4>1
        <4>3. NotBelow(RecordAt(d, g), RecordAt(d, c))
          BY <4>2, RecordFacts
        <4>4. a.target.height >= s.target.height
          BY <1>5, <1>6, <1>7, <4>3 DEF NotBelow
        <4>5. ~Upgraded(r.carrier.height)
          BY <1>1, <1>6, <1>7, <4>4
        <4>6. QED
          BY <1>1, <3>2, <4>5 DEF g
      <3>3. QED
        BY <3>1, <3>2
    <2>3. c - 1 \in 0..Len(d) /\ g <= c - 1
      BY <1>3, <1>7, <2>2
    <2>4. QED
      BY <1>4, <1>5, <2>1, <2>3
  <1>10. QED
    BY <1>8, <1>9
=============================================================================
