------------------------ MODULE FinalityStateProofs ------------------------
(***************************************************************************)
(* Nothing final is reverted and no anchor loses its authority, on chains  *)
(* of any length, with any number of forks and reorganizations, any        *)
(* validator sets, and the upgrade at any height or never.                 *)
(*                                                                         *)
(* The argument: on a branch the finalized record only ever moves up, and  *)
(* it is the record of the branch at its carrier.  What lies at or below   *)
(* the common ancestor is the same on both branches of a reorganization;   *)
(* before the upgrade that includes the carrier, after it the carrier of   *)
(* the record that was superseded, because two checkpoints are at least a  *)
(* vote window apart.                                                      *)
(***************************************************************************)
EXTENDS FinalityBranchProofs

-----------------------------------------------------------------------------
(* The invariant *)

\* The chain and the side branch are sound, and the side branch leaves the chain
\* at its ancestor.
StateInv ==
    /\ Sound(chain) /\ Sound(SideBranch)
    /\ side.ancestor \in 0..Len(chain)
    /\ Frames(side.frames) /\ "frames" \in DOMAIN side /\ "ancestor" \in DOMAIN side

\* No blocks yet.
LEMMA InitSound == ASSUME Init PROVE StateInv
PROOF
  <1>1. chain = <<>> /\ side.ancestor = 0 /\ side.frames = <<>>
        /\ "frames" \in DOMAIN side /\ "ancestor" \in DOMAIN side
    BY DEF Init, NoSide
  <1>2. Frames(<<>>) /\ Len(<<>>) = 0
    BY EmptySeq DEF Frames
  <1>3. Sound(<<>>)
    BY <1>2 DEF Sound
  <1>4. Frames(SideBranch) /\ Len(SideBranch) = 0
    <2>1. 0 \in 0..Len(<<>>)
      BY <1>2
    <2>2. SideBranch = Join(<<>>, 0, <<>>)
      BY <1>1 DEF SideBranch, Join
    <2>3. QED
      BY <1>2, <2>1, <2>2, Joined
  <1>5. Sound(SideBranch)
    BY <1>4 DEF Sound
  <1>6. QED
    BY <1>1, <1>2, <1>3, <1>5 DEF StateInv

\* A block on the chain (ConnectBlock).
LEMMA ConnectSound ==
    ASSUME StateInv, ConnectBlock
    PROVE  /\ StateInv' /\ SideBranch' = SideBranch
           /\ \E qc, frame : /\ BlockValid(chain, Len(chain) + 1, qc)
                             /\ NewFrame(chain, ForkOf(chain), qc, frame)
                             /\ chain' = Append(chain, frame)
PROOF
  <1>1. PICK qc, entries : /\ BlockValid(chain, Len(chain) + 1, qc)
                           /\ chain' = AfterBlock(chain, ForkOf(chain), qc, entries)
    BY DEF ConnectBlock
  <1>2. Sound(chain) /\ Frames(chain) /\ side' = side
    BY DEF StateInv, ConnectBlock, Sound
  <1>3. PICK frame : /\ AfterBlock(chain, ForkOf(chain), qc, entries) = Append(chain, frame)
                     /\ NewFrame(chain, ForkOf(chain), qc, frame)
    BY <1>1, <1>2, BlockFrame
  <1>4. chain' = Append(chain, frame) /\ Sound(chain')
    BY <1>1, <1>2, <1>3, SoundExtend
  <1>5. /\ Len(chain) \in Nat /\ Len(chain') = Len(chain) + 1
        /\ \A i \in 1..Len(chain) : chain'[i] = chain[i]
    BY <1>2, <1>4, Appended
  <1>6. side.ancestor \in 0..Len(chain) /\ side.ancestor \in 0..Len(chain') /\ Frames(side.frames)
    BY <1>5 DEF StateInv
  <1>7. SubSeq(chain', 1, side.ancestor) = SubSeq(chain, 1, side.ancestor)
    <2> DEFINE p == SubSeq(chain', 1, side.ancestor)
               q == SubSeq(chain, 1, side.ancestor)
    <2>1. Frames(chain') /\ side.ancestor \in Nat
      BY <1>4, <1>5, <1>6 DEF Sound
    <2>2. /\ Frames(p) /\ Len(p) = side.ancestor
          /\ \A i \in 1..side.ancestor : p[i] = chain'[i]
      BY <1>6, <2>1, Cut
    <2>3. /\ Frames(q) /\ Len(q) = side.ancestor
          /\ \A i \in 1..side.ancestor : q[i] = chain[i]
      BY <1>2, <1>6, <2>1, Cut
    <2> HIDE DEF p, q
    <2>4. \A i \in 1..Len(p) : p[i] = q[i]
      BY <1>5, <1>6, <2>2, <2>3
    <2>5. p = q
      BY <2>2, <2>3, <2>4, SameFrames
    <2>6. QED
      BY <2>5 DEF p, q
  <1>8. SideBranch' = SideBranch
    BY <1>2, <1>7 DEF SideBranch
  <1>9. Sound(SideBranch)'
    BY <1>8 DEF StateInv
  <1>10. StateInv'
    BY <1>2, <1>4, <1>6, <1>9 DEF StateInv
  <1>11. QED
    BY <1>1, <1>3, <1>4, <1>8, <1>10

\* A block that starts a side branch (StartSide).
LEMMA StartSound ==
    ASSUME StateInv, StartSide
    PROVE  /\ StateInv' /\ chain' = chain
           /\ \E p, frame : /\ Frames(p) /\ Len(p) \in 0..(Len(chain) - 1)
                            /\ \A i \in 1..Len(p) : p[i] = chain[i]
                            /\ frame.hash = forks + 1 /\ side'.ancestor = Len(p)
                            /\ SideBranch' = Append(p, frame)
PROOF
  <1>1. chain' = chain /\ Sound(chain) /\ Frames(chain) /\ Len(chain) \in Nat
    BY SoundTip DEF StartSide, StateInv, Sound
  <1>2. PICK a \in 0..(Len(chain) - 1) :
          \E qc, entries :
            /\ BlockValid(SubSeq(chain, 1, a), a + 1, qc)
            /\ side' = [ancestor |-> a,
                        frames |-> <<AfterBlock(SubSeq(chain, 1, a), forks + 1, qc, entries)[a + 1]>>]
    BY DEF StartSide
  <1> DEFINE p == SubSeq(chain, 1, a)
  <1>3. PICK qc, entries :
            /\ BlockValid(p, a + 1, qc)
            /\ side' = [ancestor |-> a, frames |-> <<AfterBlock(p, forks + 1, qc, entries)[a + 1]>>]
    BY <1>2
  <1>4. a \in 0..Len(chain)
    BY <1>1
  <1>5. Sound(p) /\ Len(p) = a /\ Frames(p)
    BY <1>1, <1>4, SoundPrefix DEF Sound
  <1> HIDE DEF p
  <1>6. PICK frame : /\ AfterBlock(p, forks + 1, qc, entries) = Append(p, frame)
                     /\ NewFrame(p, forks + 1, qc, frame)
    BY <1>3, <1>5, BlockFrame
  <1>7. Append(p, frame)[a + 1] = frame
    BY <1>5, Appended
  <1>8. Sound(Append(p, frame))
    BY <1>3, <1>5, <1>6, SoundExtend
  <1>9. side' = [ancestor |-> a, frames |-> <<frame>>]
    BY <1>3, <1>6, <1>7
  <1>10. /\ side'.ancestor = a /\ side'.frames = <<frame>>
         /\ "frames" \in DOMAIN side' /\ "ancestor" \in DOMAIN side'
    BY <1>9
  <1>11. p \o <<frame>> = Append(p, frame)
    <2>1. PICK S : p \in Seq(S)
      BY <1>5 DEF Frames
    <2>2. S \subseteq S \cup {frame} /\ frame \in S \cup {frame}
      OBVIOUS
    <2>3. p \in Seq(S \cup {frame})
      BY <2>1, <2>2, SeqMonotonic
    <2>4. QED
      BY <2>2, <2>3, AppendIsConcat
  <1>12. SideBranch' = Append(p, frame)
    BY <1>1, <1>10, <1>11 DEF SideBranch, p
  <1>13. Frames(<<frame>>)
    <2>1. <<frame>> \in Seq({frame})
      OBVIOUS
    <2>2. QED
      BY <2>1 DEF Frames
  <1>14. StateInv'
    BY <1>1, <1>4, <1>8, <1>10, <1>12, <1>13 DEF StateInv
  <1>15. \A i \in 1..a : p[i] = chain[i]
    BY <1>1, <1>4, Cut DEF p
  <1>16. frame.hash = forks + 1
    BY <1>6 DEF NewFrame
  <1>17. QED
    BY <1>1, <1>5, <1>10, <1>12, <1>14, <1>15, <1>16

\* A block on the side branch (ExtendSide).
LEMMA ExtendSound ==
    ASSUME StateInv, ExtendSide
    PROVE  /\ StateInv' /\ chain' = chain /\ side'.ancestor = side.ancestor
           /\ \E frame : /\ frame.hash = ForkOf(SideBranch)
                         /\ SideBranch' = Append(SideBranch, frame)
PROOF
  <1> DEFINE b == SideBranch
             n == side.ancestor
             f == side.frames
             h == Len(b) + 1
  <1>1. /\ chain' = chain /\ Sound(chain) /\ Frames(chain) /\ Len(chain) \in Nat
        /\ Sound(b) /\ Frames(b) /\ n \in 0..Len(chain) /\ Frames(f)
        /\ "frames" \in DOMAIN side /\ "ancestor" \in DOMAIN side
    BY SoundTip DEF ExtendSide, StateInv, Sound
  <1>2. PICK qc, entries :
          /\ BlockValid(b, h, qc)
          /\ side' = [side EXCEPT !.frames =
                        Append(@, AfterBlock(b, ForkOf(b), qc, entries)[h])]
    BY DEF ExtendSide
  <1>3. PICK frame : /\ AfterBlock(b, ForkOf(b), qc, entries) = Append(b, frame)
                     /\ NewFrame(b, ForkOf(b), qc, frame)
    BY <1>1, <1>2, BlockFrame
  <1>4. Append(b, frame)[h] = frame /\ Sound(Append(b, frame))
    BY <1>1, <1>2, <1>3, Appended, SoundExtend
  <1>5. side' = [side EXCEPT !.frames = Append(side.frames, frame)]
    BY <1>2, <1>3, <1>4
  <1>6. /\ side'.ancestor = n /\ side'.frames = Append(side.frames, frame)
        /\ "frames" \in DOMAIN side' /\ "ancestor" \in DOMAIN side'
    BY <1>1, <1>5
  <1> DEFINE g == Append(f, frame)
             d == Join(chain, n, g)
  <1>7. /\ Frames(g) /\ Len(f) \in Nat /\ Len(g) = Len(f) + 1
        /\ \A i \in 1..Len(f) : g[i] = f[i]
        /\ g[Len(f) + 1] = frame
    BY <1>1, Appended
  <1>8. /\ Len(b) = n + Len(f)
        /\ \A i \in 1..n : b[i] = chain[i]
        /\ \A i \in 1..Len(f) : b[n + i] = f[i]
    <2>1. b = Join(chain, n, f)
      BY DEF SideBranch, Join
    <2> HIDE DEF b, n, f
    <2> HIDE DEF g, d, h
    <2>2. Frames(chain) /\ Frames(f) /\ n \in 0..Len(chain)
      BY <1>1
    <2>3. Len(Join(chain, n, f)) = n + Len(f)
      BY <2>2, Joined
    <2>4. \A i \in 1..n : Join(chain, n, f)[i] = chain[i]
      BY <2>2, Joined
    <2>5. \A i \in 1..Len(f) : Join(chain, n, f)[n + i] = f[i]
      BY <2>2, Joined
    <2>6. QED
      BY <2>1, <2>3, <2>4, <2>5
  <1> HIDE DEF f, b, g, n
  <1>9. /\ Frames(d) /\ Len(d) = n + Len(g)
        /\ \A i \in 1..n : d[i] = chain[i]
        /\ \A i \in 1..Len(g) : d[n + i] = g[i]
    <2>1. Frames(chain) /\ Frames(g) /\ n \in 0..Len(chain)
      BY <1>1, <1>7
    <2>2. Frames(Join(chain, n, g)) /\ Len(Join(chain, n, g)) = n + Len(g)
      BY <2>1, Joined
    <2>3. \A i \in 1..n : Join(chain, n, g)[i] = chain[i]
      BY <2>1, Joined
    <2>4. \A i \in 1..Len(g) : Join(chain, n, g)[n + i] = g[i]
      BY <2>1, Joined
    <2>5. QED
      BY <2>2, <2>3, <2>4
  <1>10. /\ Frames(Append(b, frame)) /\ Len(Append(b, frame)) = Len(b) + 1
         /\ \A i \in 1..Len(b) : Append(b, frame)[i] = b[i]
         /\ Append(b, frame)[Len(b) + 1] = frame
    BY <1>1, Appended
  <1> DEFINE e == Append(b, frame)
  <1>e. /\ Frames(e) /\ Len(e) = Len(b) + 1
        /\ \A i \in 1..Len(b) : e[i] = b[i]
        /\ e[Len(b) + 1] = frame
    BY <1>10
  <1> HIDE DEF d, e
  <1>11. Len(d) = Len(e) /\ Len(d) = n + Len(f) + 1 /\ n \in Nat
    BY <1>1, <1>7, <1>8, <1>9, <1>e
  <1>12. \A i \in 1..Len(d) : d[i] = e[i]
    <2> SUFFICES ASSUME NEW i \in 1..Len(d) PROVE d[i] = e[i]
      OBVIOUS
    <2>1. CASE i <= n
      BY <1>7, <1>8, <1>9, <1>e, <1>11, <2>1
    <2>2. CASE i > n /\ i <= n + Len(f)
      <3>1. i - n \in 1..Len(f) /\ i - n \in 1..Len(g) /\ i = n + (i - n) /\ i \in 1..Len(b)
        BY <1>7, <1>8, <1>11, <2>2
      <3>2. d[i] = g[i - n] /\ b[i] = f[i - n] /\ e[i] = b[i]
        BY <1>8, <1>9, <1>e, <3>1
      <3>3. QED
        BY <1>7, <3>1, <3>2
    <2>3. CASE i = n + Len(f) + 1
      <3>1. i - n = Len(f) + 1 /\ i - n \in 1..Len(g) /\ i = n + (i - n) /\ i = Len(b) + 1
        BY <1>7, <1>8, <1>11, <2>3
      <3>2. d[i] = g[i - n] /\ e[i] = frame
        BY <1>9, <1>e, <3>1
      <3>3. QED
        BY <1>7, <3>1, <3>2
    <2>4. QED
      BY <1>7, <1>11, <2>1, <2>2, <2>3
  <1>13. d = e
    BY <1>9, <1>e, <1>11, <1>12, SameFrames
  <1>14. SideBranch' = Append(b, frame)
    BY <1>1, <1>6, <1>13 DEF SideBranch, Join, d, e, f, g, n
  <1>15. StateInv'
    BY <1>1, <1>4, <1>6, <1>7, <1>14 DEF StateInv, f, g, n
  <1>16. frame.hash = ForkOf(b)
    BY <1>3 DEF NewFrame
  <1>17. QED
    BY <1>1, <1>6, <1>14, <1>15, <1>16 DEF b, n

\* The two branches of a reorganization are the same up to the ancestor.
LEMMA SideFacts ==
    ASSUME StateInv
    PROVE  /\ side.ancestor \in Nat /\ Len(chain) \in Nat /\ Len(SideBranch) \in Nat
           /\ side.ancestor <= Len(chain) /\ side.ancestor <= Len(SideBranch)
           /\ Frames(chain) /\ Frames(SideBranch)
           /\ \A i \in 1..side.ancestor : SideBranch[i] = chain[i]
PROOF
  <1> DEFINE n == side.ancestor
             f == side.frames
  <1>1. Frames(chain) /\ Frames(f) /\ n \in 0..Len(chain) /\ Sound(chain) /\ Frames(SideBranch)
    BY DEF StateInv, Sound
  <1>2. SideBranch = Join(chain, n, f)
    BY DEF SideBranch, Join
  <1> HIDE DEF n, f
  <1>3. Len(chain) \in Nat
    BY <1>1, SoundTip
  <1>4. Frames(chain) /\ Frames(f) /\ n \in 0..Len(chain)
    BY <1>1
  <1>5. Len(f) \in Nat /\ Len(Join(chain, n, f)) = n + Len(f)
    BY <1>4, Joined
  <1>6. \A i \in 1..n : Join(chain, n, f)[i] = chain[i]
    BY <1>4, Joined
  <1>7. QED
    BY <1>1, <1>2, <1>3, <1>5, <1>6 DEF n

\* A reorganization swaps the branches (Reorganize).
LEMMA ReorgSound ==
    ASSUME StateInv, Reorganize
    PROVE  /\ StateInv' /\ chain' = SideBranch
           /\ SideBranch' = chain /\ side'.ancestor = side.ancestor
PROOF
  <1> DEFINE n == side.ancestor
             b == SideBranch
             t == SubSeq(chain, n + 1, Len(chain))
             j == Join(b, n, t)
  <1>1. /\ n \in Nat /\ Len(chain) \in Nat /\ Len(b) \in Nat /\ n <= Len(chain) /\ n <= Len(b)
        /\ Frames(chain) /\ Frames(b)
        /\ \A i \in 1..n : b[i] = chain[i]
    BY SideFacts
  <1>2. chain' = b /\ side' = [ancestor |-> n, frames |-> t]
    BY DEF Reorganize
  <1>3. /\ side'.ancestor = n /\ side'.frames = t
        /\ "frames" \in DOMAIN side' /\ "ancestor" \in DOMAIN side'
    BY <1>2
  <1>4. n + 1 \in Nat \ {0} /\ Len(chain) \in 0..Len(chain) /\ n + 1 <= Len(chain) + 1
    BY <1>1
  <1>5. /\ Frames(t) /\ Len(t) = Len(chain) - n
        /\ \A i \in 1..(Len(chain) - n) : t[i] = chain[n + i]
    <2>1. /\ Frames(t) /\ Len(t) = Len(chain) - (n + 1) + 1
          /\ \A i \in 1..(Len(chain) - (n + 1) + 1) : t[i] = chain[n + 1 + i - 1]
      BY <1>1, <1>4, Cut
    <2> HIDE DEF t, n
    <2>2. Len(chain) - (n + 1) + 1 = Len(chain) - n
      BY <1>1
    <2>3. ASSUME NEW i \in 1..(Len(chain) - n) PROVE t[i] = chain[n + i]
      <3>1. i \in 1..(Len(chain) - (n + 1) + 1) /\ n + 1 + i - 1 = n + i
        BY <1>1, <2>2
      <3>2. t[i] = chain[n + 1 + i - 1]
        BY <2>1, <3>1
      <3>3. QED
        BY <3>1, <3>2
    <2>4. QED
      BY <2>1, <2>2, <2>3
  <1>6. SideBranch' = j
    BY <1>2, <1>3 DEF SideBranch, Join
  <1> HIDE DEF n, b, t
  <1>7. Frames(b) /\ Frames(t) /\ n \in 0..Len(b)
    BY <1>1, <1>5
  <1>8. Frames(j) /\ Len(j) = n + Len(t)
    BY <1>7, Joined
  <1>9. \A i \in 1..n : j[i] = b[i]
    BY <1>7, Joined
  <1>10. \A i \in 1..Len(t) : j[n + i] = t[i]
    BY <1>7, Joined
  <1> HIDE DEF j
  <1>11. Len(j) = Len(chain)
    BY <1>1, <1>5, <1>8
  <1>12. \A i \in 1..Len(j) : j[i] = chain[i]
    <2> SUFFICES ASSUME NEW i \in 1..Len(j) PROVE j[i] = chain[i]
      OBVIOUS
    <2>1. CASE i <= n
      BY <1>1, <1>9, <1>11, <2>1
    <2>2. CASE i > n
      <3>1. i - n \in 1..Len(t) /\ i - n \in 1..(Len(chain) - n) /\ i = n + (i - n)
        BY <1>1, <1>5, <1>11, <2>2
      <3>2. j[n + (i - n)] = t[i - n] /\ t[i - n] = chain[n + (i - n)]
        BY <1>5, <1>10, <3>1
      <3>3. QED
        BY <3>1, <3>2
    <2>3. QED
      BY <1>1, <1>11, <2>1, <2>2
  <1>13. j = chain
    BY <1>1, <1>8, <1>11, <1>12, SameFrames
  <1>14. Sound(chain') /\ Sound(SideBranch)'
    <2>1. Sound(b) /\ Sound(chain)
      BY DEF StateInv, b
    <2>2. SideBranch' = chain
      BY <1>6, <1>13
    <2>3. Sound(SideBranch)'
      BY <2>1, <2>2
    <2>4. QED
      BY <1>2, <2>1, <2>3
  <1>15. n \in 0..Len(chain')
    BY <1>1, <1>2
  <1>16. StateInv'
    BY <1>3, <1>5, <1>14, <1>15 DEF StateInv
  <1>17. QED
    BY <1>2, <1>3, <1>6, <1>13, <1>16 DEF b, n

\* Whatever the node does, its branches stay sound.
THEOREM StateInvariant == Spec => []StateInv
PROOF
  <1>1. Init => StateInv
    BY InitSound
  <1>2. StateInv /\ [Next]_vars => StateInv'
    <2> SUFFICES ASSUME StateInv, [Next]_vars PROVE StateInv'
      OBVIOUS
    <2>1. CASE ConnectBlock
      BY <2>1, ConnectSound
    <2>2. CASE StartSide
      BY <2>2, StartSound
    <2>3. CASE ExtendSide
      BY <2>3, ExtendSound
    <2>4. CASE Reorganize
      BY <2>4, ReorgSound
    <2>5. CASE UNCHANGED vars
      <3>1. chain' = chain /\ side' = side
        BY <2>5 DEF vars
      <3>2. SideBranch' = SideBranch
        BY <3>1 DEF SideBranch
      <3>3. QED
        BY <3>1, <3>2 DEF StateInv
    <2>6. QED
      BY <2>1, <2>2, <2>3, <2>4, <2>5 DEF Next
  <1>3. QED
    BY <1>1, <1>2, PTL DEF Spec

-----------------------------------------------------------------------------
(* What a step keeps *)

\* Record and Authorization, from the branch.
LEMMA RecordIs ==
    ASSUME Sound(chain)
    PROVE  /\ Len(chain) \in Nat
           /\ Record = RecordAt(chain, Len(chain))
           /\ Authorization = Authorizing(chain, Record)
PROOF
  <1>1. Len(chain) \in Nat /\ Record = RecordAt(chain, Len(chain))
    BY SoundTip DEF Record
  <1>2. QED
    BY <1>1, AuthorizationIs DEF Authorization

\* The same for the next state.
LEMMA NextRecordIs ==
    ASSUME Sound(chain')
    PROVE  /\ Len(chain') \in Nat
           /\ Record' = RecordAt(chain', Len(chain'))
           /\ Authorization' = Authorizing(chain', Record')
PROOF
  <1>1. Len(chain') \in Nat /\ Record' = RecordAt(chain', Len(chain'))
    BY SoundTip DEF Record
  <1>2. AnchorAuthorizationRecord(StateOf(chain')) =
          Authorizing(chain', RecordAt(chain', Len(chain')))
    BY AuthorizationIs
  <1>3. QED
    BY <1>1, <1>2 DEF Authorization

\* The part of the chain that a step shares with the next one reaches the carrier
\* of the authorizing record; the finalized block and its height are kept.
StepKeeps(n) ==
    /\ Agree(chain, chain', n)
    /\ Record # NullRecord => Has(chain', Record.target) /\ NotBelow(Record', Record)
    /\ Authorization # NullRecord => Authorization.carrier.height <= n

\* A new tip keeps all of it.
LEMMA ConnectKeeps ==
    ASSUME StateInv, ConnectBlock PROVE StepKeeps(Len(chain))
PROOF
  <1> DEFINE n == Len(chain)
  <1>1. Sound(chain) /\ Frames(chain) /\ Sound(chain')
    BY ConnectSound DEF StateInv, Sound
  <1>2. PICK frame : chain' = Append(chain, frame)
    BY ConnectSound
  <1>3. n \in Nat /\ Len(chain') = n + 1 /\ \A i \in 1..n : chain'[i] = chain[i]
    BY <1>1, <1>2, Appended
  <1>4. Agree(chain, chain', n)
    BY <1>3 DEF Agree
  <1>5. /\ Record = RecordAt(chain, n) /\ Authorization = Authorizing(chain, Record)
        /\ Record' = RecordAt(chain', n + 1)
    BY <1>1, <1>3, RecordIs, NextRecordIs
  <1>6. ASSUME Record # NullRecord
        PROVE  Has(chain', Record.target) /\ NotBelow(Record', Record)
    <2>1. n \in 0..Len(chain) /\ n + 1 \in 0..Len(chain')
      BY <1>3
    <2>2. Record.carrier.height \in 1..n
      BY <1>1, <1>5, <1>6, <2>1, RecordFacts
    <2>3. Record.carrier.height <= n /\ Record.carrier.height <= n + 1
      BY <1>3, <2>2
    <2>4. QED
      BY <1>1, <1>4, <1>5, <1>6, <2>1, <2>3, Kept
  <1>7. Authorization # NullRecord => Authorization.carrier.height \in 1..n
    BY <1>1, <1>5, AuthorizingFacts
  <1>8. Authorization # NullRecord => Authorization.carrier.height <= n
    BY <1>3, <1>7
  <1>9. QED
    BY <1>4, <1>6, <1>8, Zenon DEF StepKeeps

\* A reorganization keeps what is at or below its ancestor, and passes the gates
\* RequiredReorgAncestor and CandidateRetainsFinality.
LEMMA ReorgKeeps ==
    ASSUME StateInv, Reorganize PROVE StepKeeps(side.ancestor)
PROOF
  <1> DEFINE n == side.ancestor
             d == SideBranch
             s == RecordAt(d, Len(d))
  <1>1. chain' = d /\ Sound(chain) /\ Sound(d)
    BY ReorgSound DEF StateInv
  <1>2. Agree(chain, d, n) /\ n \in Nat /\ n <= Len(d) /\ Len(d) \in Nat
    BY SideFacts DEF Agree
  <1>3. /\ Record = RecordAt(chain, Len(chain)) /\ Len(chain) \in Nat
        /\ Authorization = Authorizing(chain, Record)
    BY <1>1, RecordIs
  <1>4. StateOf(d).record = s /\ StateOf(chain).record = Record
    BY <1>1, SoundTip DEF Record
  <1>5. n >= RequiredReorgAncestor(StateOf(chain))
    BY DEF Reorganize
  <1>6. CandidateRetainsFinality(StateOf(chain), StateOf(d), d)
    BY DEF Reorganize
  <1>7. Record' = s
    BY <1>1, <1>4 DEF Record
  <1> HIDE DEF n, d, s
  <1>8. ASSUME Record # NullRecord
        PROVE  /\ Has(d, Record.target) /\ NotBelow(s, Record)
               /\ Record.carrier.height \in Nat /\ Record.target.height \in Nat
               /\ Upgraded(Record.carrier.height) => n >= Record.target.height
               /\ ~Upgraded(Record.carrier.height) => n >= Record.carrier.height
    <2>1. Len(chain) \in 0..Len(chain)
      BY <1>3
    <2>2. Record.carrier.height \in 1..Len(chain) /\ Record.target.height \in 1..Len(chain)
      BY <1>1, <1>3, <1>8, <2>1, RecordFacts
    <2>3. Record.carrier.height \in Nat /\ Record.target.height \in Nat
      BY <1>3, <2>2
    <2>4. /\ Upgraded(Record.carrier.height) => n >= Record.target.height
          /\ ~Upgraded(Record.carrier.height) => n >= Record.carrier.height
      BY <1>4, <1>5, <1>8 DEF RequiredReorgAncestor, Upgraded
    <2>5. Has(d, Record.target)
      BY <1>4, <1>6, <1>8 DEF CandidateRetainsFinality
    <2>6. CASE Upgraded(Record.carrier.height)
      <3>1. s # NullRecord /\ s.target.height >= Record.target.height
        BY <1>4, <1>6, <1>8, <2>6 DEF CandidateRetainsFinality, Upgraded
      <3>2. QED
        BY <2>3, <2>4, <2>5, <3>1 DEF NotBelow
    <2>7. CASE ~Upgraded(Record.carrier.height)
      <3>1. /\ Record.carrier.height <= n /\ Record.carrier.height <= Len(d)
            /\ Len(d) \in 0..Len(d)
        BY <1>2, <2>3, <2>4, <2>7
      <3>2. NotBelow(RecordAt(d, Len(d)), Record)
        BY <1>1, <1>2, <1>3, <1>8, <2>1, <3>1, Kept
      <3>3. QED
        BY <2>3, <2>4, <2>5, <3>2 DEF s
    <2>8. QED
      BY <2>6, <2>7
  <1>9. ASSUME Authorization # NullRecord PROVE Authorization.carrier.height <= n
    <2>1. /\ Record # NullRecord /\ Authorization.carrier.height \in 1..Len(chain)
          /\ ~Upgraded(Record.carrier.height) => Authorization = Record
          /\ Upgraded(Record.carrier.height) =>
                Authorization.carrier.height <= Record.target.height
      BY <1>1, <1>3, <1>9, AuthorizingFacts
    <2>2. QED
      BY <1>2, <1>3, <1>8, <2>1
  <1>10. QED
    BY <1>1, <1>2, <1>7, <1>8, <1>9 DEF StepKeeps, n

\* Every step of the chain keeps what it must.
LEMMA NextKeeps ==
    ASSUME StateInv, Next PROVE chain' = chain \/ \E n : StepKeeps(n)
  BY ConnectKeeps, StartSound, ExtendSound, ReorgKeeps DEF Next

\* A chain that stays keeps its finalized block and its authorizing carrier.
LEMMA SameKeeps ==
    ASSUME Sound(chain)
    PROVE  /\ Record # NullRecord =>
                 Has(chain, Record.target) /\ Has(chain, Record.carrier)
                 /\ InVoteWindow(Record.target.height, Record.carrier.height)
                 /\ Record.target.height \in Nat
           /\ Authorization # NullRecord =>
                 Has(chain, Authorization.carrier) /\ Authorization.target.height \in Nat
PROOF
  <1>1. /\ Len(chain) \in Nat /\ Record = RecordAt(chain, Len(chain))
        /\ Authorization = Authorizing(chain, Record) /\ Len(chain) \in 0..Len(chain)
    BY RecordIs
  <1>2. Record # NullRecord => Carried(chain, Record, Len(chain))
    BY <1>1, RecordFacts
  <1>3. ASSUME Authorization # NullRecord
        PROVE  Has(chain, Authorization.carrier) /\ Authorization.target.height \in Nat
    <2>1. PICK h \in 0..Len(chain) : Authorization = RecordAt(chain, h)
      BY <1>1, <1>3, AuthorizingFacts
    <2>2. Carried(chain, Authorization, h)
      BY <1>3, <2>1, RecordFacts
    <2>3. h \in Nat /\ h <= Len(chain)
      BY <1>1
    <2> HIDE DEF Authorization
    <2>4. QED
      BY <1>1, <2>2, <2>3 DEF Carried, Has
  <1>4. QED
    BY <1>1, <1>2, <1>3 DEF Carried, Has

\* The record the node holds always describes its chain (OnCertificate, and what
\* a reorganization replays): both blocks are canonical, by height and hash.
THEOREM RecordIsCanonical == Spec => []RecordCanonical
PROOF
  <1>1. StateInv => RecordCanonical
    BY SameKeeps DEF StateInv, RecordCanonical
  <1>2. QED
    BY <1>1, StateInvariant, PTL

\* No block replaces a finalized one and the finalized height never falls, in
\* ConnectBlock and in ReorganizeBounded_ with its two finality gates.
THEOREM FinalizedStays == Spec => FinalizedNeverReverted
PROOF
  <1> DEFINE Step == Record # NullRecord =>
                        /\ Has(chain', Record.target)
                        /\ Record'.target.height >= Record.target.height
  <1>1. StateInv /\ [Next]_vars => [Step]_vars
    <2> SUFFICES ASSUME StateInv, Next, Record # NullRecord
                 PROVE  /\ Has(chain', Record.target)
                        /\ Record'.target.height >= Record.target.height
      OBVIOUS
    <2>1. CASE chain' = chain
      <3>1. Record' = Record
        BY <2>1 DEF Record
      <3>2. Has(chain, Record.target) /\ Record.target.height \in Nat
        BY SameKeeps DEF StateInv
      <3>3. QED
        BY <2>1, <3>1, <3>2
    <2>2. CASE \E n : StepKeeps(n)
      BY <2>2 DEF StepKeeps, NotBelow
    <2>3. QED
      BY <2>1, <2>2, NextKeeps
  <1>2. QED
    BY <1>1, StateInvariant, PTL DEF FinalizedNeverReverted, Spec

\* The carrier of the record that may authorize an anchor stays canonical, and
\* the authorized height never falls (AnchorAuthorizationRecord).
THEOREM AuthorizationStays == Spec => AuthorizationPermanent
PROOF
  <1> DEFINE Step == Authorization # NullRecord =>
                        /\ Has(chain', Authorization.carrier)
                        /\ Authorization'.target.height >= Authorization.target.height
  <1>1. StateInv /\ StateInv' /\ [Next]_vars => [Step]_vars
    <2> SUFFICES ASSUME StateInv, StateInv', Next, Authorization # NullRecord
                 PROVE  /\ Has(chain', Authorization.carrier)
                        /\ Authorization'.target.height >= Authorization.target.height
      OBVIOUS
    <2>1. CASE chain' = chain
      <3>1. Authorization' = Authorization
        BY <2>1 DEF Authorization
      <3>2. Has(chain, Authorization.carrier) /\ Authorization.target.height \in Nat
        BY SameKeeps DEF StateInv
      <3>3. QED
        BY <2>1, <3>1, <3>2
    <2>2. CASE \E n : StepKeeps(n)
      <3>1. PICK n : StepKeeps(n)
        BY <2>2
      <3>2. Sound(chain) /\ Sound(chain')
        BY DEF StateInv
      <3>3. /\ Record = RecordAt(chain, Len(chain))
            /\ Authorization = Authorizing(chain, Record)
            /\ Record' = RecordAt(chain', Len(chain'))
            /\ Authorization' = Authorizing(chain', Record')
        BY <3>2, RecordIs, NextRecordIs
      <3>4. Record # NullRecord
        BY <3>3 DEF Authorizing
      <3>5. /\ Agree(chain, chain', n) /\ NotBelow(Record', Record)
            /\ Authorization.carrier.height <= n
        BY <3>1, <3>4 DEF StepKeeps
      <3> HIDE DEF Record, Authorization
      <3>6. Has(chain', Authorization.carrier) /\ NotBelow(Authorization', Authorization)
        BY <3>2, <3>3, <3>5, AuthorizationKept
      <3>7. QED
        BY <3>6 DEF NotBelow
    <2>3. QED
      BY <2>1, <2>2, NextKeeps
  <1>2. QED
    BY <1>1, StateInvariant, PTL DEF AuthorizationPermanent, Spec

-----------------------------------------------------------------------------
(* Where the branches part *)

Hashed(b, k) == \A i \in 1..Len(b) : b[i].hash \in 0..k

Apart(b, d, n) == n \in Nat /\ n < Len(b) /\ n < Len(d) /\ b[n + 1].hash # d[n + 1].hash

\* Blocks have the numbers of the forks they were mined on, and the block after
\* the ancestor is another one on the side branch.
ForkInv ==
    /\ forks \in Nat /\ Hashed(chain, forks) /\ Hashed(SideBranch, forks)
    /\ side.frames # <<>> => Apart(chain, SideBranch, side.ancestor)

\* A block on a branch is mined on the fork of its parent.
LEMMA HashedGrows ==
    ASSUME NEW b, Frames(b), NEW k \in Nat, Hashed(b, k), NEW frame
    PROVE  /\ ForkOf(b) \in 0..k
           /\ frame.hash \in 0..k => Hashed(Append(b, frame), k)
PROOF
  <1>1. Len(b) \in Nat /\ (b = <<>> <=> Len(b) = 0)
    BY LenProperties, EmptySeq DEF Frames
  <1>2. ForkOf(b) \in 0..k
    BY <1>1 DEF ForkOf, Hashed
  <1> DEFINE d == Append(b, frame)
  <1>3. /\ Len(d) = Len(b) + 1 /\ d[Len(b) + 1] = frame
        /\ \A i \in 1..Len(b) : d[i] = b[i]
    BY Appended
  <1> HIDE DEF d
  <1>4. frame.hash \in 0..k => Hashed(d, k)
    BY <1>1, <1>3 DEF Hashed
  <1>5. QED
    BY <1>2, <1>4 DEF d

\* One more block on either branch does not join them.
LEMMA ApartGrows ==
    ASSUME NEW b, Frames(b), NEW d, NEW n, NEW frame
    PROVE  /\ Apart(b, d, n) => Apart(Append(b, frame), d, n)
           /\ Apart(d, b, n) => Apart(d, Append(b, frame), n)
PROOF
  <1> DEFINE e == Append(b, frame)
  <1>1. Len(b) \in Nat /\ Len(e) = Len(b) + 1 /\ \A i \in 1..Len(b) : e[i] = b[i]
    BY Appended
  <1> HIDE DEF e
  <1>2. QED
    <2>1. ASSUME n \in Nat, n < Len(b) PROVE e[n + 1] = b[n + 1] /\ n < Len(e)
      BY <1>1, <2>1
    <2>2. QED
      BY <2>1 DEF Apart, e

\* Every step keeps the forks apart.
LEMMA ForkStep == ASSUME StateInv, ForkInv, [Next]_vars PROVE ForkInv'
PROOF
  <1>1. Frames(chain) /\ Frames(SideBranch) /\ forks \in Nat
    BY SideFacts DEF ForkInv
  <1>2. CASE ConnectBlock
    <2>1. side' = side /\ forks' = forks
      BY <1>2 DEF ConnectBlock
    <2>2. SideBranch' = SideBranch
      BY <1>2, ConnectSound
    <2>3. PICK frame : frame.hash = ForkOf(chain) /\ chain' = Append(chain, frame)
      BY <1>2, ConnectSound DEF NewFrame
    <2>4. Hashed(chain', forks)
      BY <1>1, <2>3, HashedGrows DEF ForkInv
    <2>5. Apart(chain, SideBranch, side.ancestor) => Apart(chain', SideBranch, side.ancestor)
      BY <1>1, <2>3, ApartGrows
    <2>6. QED
      BY <1>1, <2>1, <2>2, <2>4, <2>5 DEF ForkInv
  <1>3. CASE StartSide
    <2>1. chain' = chain /\ forks' = forks + 1
      BY <1>3 DEF StartSide
    <2>2. PICK p, frame : /\ Frames(p) /\ Len(p) \in 0..(Len(chain) - 1)
                          /\ \A i \in 1..Len(p) : p[i] = chain[i]
                          /\ frame.hash = forks + 1 /\ side'.ancestor = Len(p)
                          /\ SideBranch' = Append(p, frame)
      BY <1>3, StartSound
    <2>3. Len(chain) \in Nat /\ Len(p) \in Nat /\ Len(p) < Len(chain)
      BY <2>2, SideFacts
    <2>4. Hashed(p, forks + 1) /\ Hashed(chain, forks + 1) /\ forks + 1 \in Nat
      <3>1. Hashed(chain, forks)
        BY DEF ForkInv
      <3>2. \A i \in 1..Len(p) : p[i].hash \in 0..forks
        BY <2>2, <2>3, <3>1 DEF Hashed
      <3>3. QED
        BY <1>1, <3>1, <3>2 DEF Hashed
    <2>5. Hashed(Append(p, frame), forks + 1)
      BY <1>1, <2>2, <2>4, HashedGrows
    <2> DEFINE d == Append(p, frame)
    <2>6. Len(d) = Len(p) + 1 /\ d[Len(p) + 1] = frame
      BY <2>2, Appended
    <2> HIDE DEF d
    <2>7. chain[Len(p) + 1].hash \in 0..forks
      BY <2>3 DEF ForkInv, Hashed
    <2>8. Apart(chain, d, Len(p))
      BY <1>1, <2>2, <2>3, <2>6, <2>7 DEF Apart
    <2>9. QED
      BY <1>1, <2>1, <2>2, <2>4, <2>5, <2>8 DEF ForkInv, d
  <1>4. CASE ExtendSide
    <2>1. chain' = chain /\ forks' = forks /\ side.frames # <<>>
      BY <1>4 DEF ExtendSide
    <2>2. side'.ancestor = side.ancestor
      BY <1>4, ExtendSound
    <2>3. PICK frame : frame.hash = ForkOf(SideBranch) /\ SideBranch' = Append(SideBranch, frame)
      BY <1>4, ExtendSound
    <2>4. Hashed(Append(SideBranch, frame), forks)
      BY <1>1, <2>3, HashedGrows DEF ForkInv
    <2>5. Apart(chain, Append(SideBranch, frame), side.ancestor)
      BY <1>1, <2>1, ApartGrows DEF ForkInv
    <2>6. QED
      BY <1>1, <2>1, <2>2, <2>3, <2>4, <2>5 DEF ForkInv
  <1>5. CASE Reorganize
    <2>1. forks' = forks /\ side.frames # <<>>
      BY <1>5 DEF Reorganize
    <2>2. chain' = SideBranch /\ SideBranch' = chain /\ side'.ancestor = side.ancestor
      BY <1>5, ReorgSound
    <2>3. Apart(SideBranch, chain, side.ancestor)
      BY <2>1 DEF ForkInv, Apart
    <2>4. QED
      BY <2>1, <2>2, <2>3 DEF ForkInv
  <1>6. CASE UNCHANGED vars
    <2>1. chain' = chain /\ side' = side /\ forks' = forks
      BY <1>6 DEF vars
    <2>2. SideBranch' = SideBranch
      BY <2>1 DEF SideBranch
    <2>3. QED
      BY <2>1, <2>2 DEF ForkInv
  <1>7. QED
    BY <1>2, <1>3, <1>4, <1>5, <1>6 DEF Next

\* The forks are apart from the start on.
THEOREM ForkInvariant == Spec => []ForkInv
PROOF
  <1>1. Init => ForkInv
    <2> SUFFICES ASSUME Init PROVE ForkInv
      OBVIOUS
    <2>1. chain = <<>> /\ side.ancestor = 0 /\ side.frames = <<>> /\ forks = 0
      BY DEF Init, NoSide
    <2>2. Frames(<<>>) /\ Len(<<>>) = 0 /\ 0 \in 0..Len(<<>>)
      BY EmptySeq DEF Frames
    <2>3. SideBranch = Join(<<>>, 0, <<>>)
      BY <2>1 DEF SideBranch, Join
    <2>4. Len(SideBranch) = 0
      BY <2>2, <2>3, Joined
    <2>5. QED
      BY <2>1, <2>2, <2>4 DEF ForkInv, Hashed
  <1>2. StateInv /\ ForkInv /\ [Next]_vars => ForkInv'
    BY ForkStep
  <1>3. QED
    BY <1>1, <1>2, StateInvariant, PTL DEF Spec

\* After the upgrade a new certificate makes the record it supersedes the
\* authorizing one: OnCertificate never withholds it.
THEOREM CertificateAuthorizes == Spec => SupersededAuthorizes
PROOF
  <1> DEFINE Grows == /\ Len(chain') > Len(chain)
                      /\ SubSeq(chain', 1, Len(chain)) = chain
                      /\ StateOf(chain').security_upgrade_active
                      /\ Record # NullRecord
                      /\ Record' # Record
  <1>1. StateInv /\ ForkInv /\ [Next]_vars => [Grows => Authorization' = Record]_vars
    <2> SUFFICES ASSUME StateInv, ForkInv, Next, Grows PROVE Authorization' = Record
      OBVIOUS
    <2>1. Sound(chain) /\ Frames(chain) /\ Len(chain) \in Nat /\ Frames(SideBranch)
      BY SideFacts DEF StateInv
    <2>2. CASE ConnectBlock
      <3>1. PICK qc, frame : /\ NewFrame(chain, ForkOf(chain), qc, frame)
                             /\ chain' = Append(chain, frame)
        BY <2>2, ConnectSound
      <3>2. Len(chain') = Len(chain) + 1 /\ chain'[Len(chain) + 1] = frame
        BY <2>1, <3>1, Appended
      <3>3. StateOf(chain') = frame.state
        <4>1. chain' # <<>>
          BY <2>1, <3>2, EmptySeq
        <4>2. QED
          BY <3>2, <4>1 DEF StateOf
      <3>4. Record = RecordAt(chain, Len(chain)) /\ Record' = frame.state.record
        BY <2>1, <3>3, RecordIs DEF Record
      <3>5. qc # NoCert
        BY <3>1, <3>4 DEF NewFrame
      <3>6. frame.state.security_upgrade_active
        BY <3>3
      <3>7. frame.state.certified_carrier_record = Record
        BY <3>1, <3>4, <3>5, <3>6 DEF NewFrame
      <3>8. AnchorAuthorizationRecord(frame.state) = Record
        BY <3>6, <3>7 DEF AnchorAuthorizationRecord
      <3>9. QED
        BY <3>3, <3>8 DEF Authorization
    <2>3. CASE StartSide \/ ExtendSide
      <3>1. chain' = chain
        BY <2>3 DEF StartSide, ExtendSide
      <3>2. QED
        BY <2>1, <3>1
    <2>4. CASE Reorganize
      <3> DEFINE n == side.ancestor
                 d == SideBranch
      <3>1. chain' = d /\ Apart(chain, d, n)
        BY <2>4, ReorgSound DEF Reorganize, ForkInv
      <3>2. Len(d) \in Nat /\ Len(d) > Len(chain) /\ SubSeq(d, 1, Len(chain)) = chain
        BY <3>1, SideFacts
      <3> HIDE DEF n, d
      <3>3. \A i \in 1..Len(chain) : SubSeq(d, 1, Len(chain))[i] = d[i]
        <4>1. Frames(d) /\ Len(chain) \in 0..Len(d) /\ 1 \in Nat \ {0} /\ 1 <= Len(chain) + 1
          BY <2>1, <3>2 DEF d
        <4>2. QED
          BY <2>1, <4>1, Cut
      <3>4. n + 1 \in 1..Len(chain) /\ chain[n + 1].hash # d[n + 1].hash
        BY <2>1, <3>1 DEF Apart
      <3>5. chain[n + 1] = d[n + 1]
        BY <3>2, <3>3, <3>4
      <3>6. QED
        BY <3>4, <3>5
    <2>5. QED
      BY <2>2, <2>3, <2>4 DEF Next
  <1>2. QED
    BY <1>1, StateInvariant, ForkInvariant, PTL DEF SupersededAuthorizes, Spec
=============================================================================
