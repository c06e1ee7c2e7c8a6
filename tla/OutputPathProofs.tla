-------------------------- MODULE OutputPathProofs --------------------------
(***************************************************************************)
(* Proofs about OutputPath, for every size of slices, blocks, rings and    *)
(* callbacks.                                                              *)
(***************************************************************************)

EXTENDS OutputPath, SequenceTheorems, TLAPS

USE OutputAssumption
USE DEF capture, worker, vout

LEMMA SampleFields ==
  \A s \in Samples : s.block \in Nat /\ s.at \in 1..Block /\ s.slice \in 0..MaxSlices
BY DEF Samples

-----------------------------------------------------------------------------
(* What the two ends of a ring do to the line of samples through it.       *)

(* A later block, pushed whole or not at all.                              *)
LEMMA PushKeepsLine ==
  ASSUME NEW last, NEW ring, NEW b \in Nat, NEW c \in Nat, b < c,
         Line(last, ring, b), NEW s, IsBlock(s, c)
  PROVE  Line(last, Push(ring, s), c)
<1> DEFINE n == Len(ring)
           t == ring \o s
<1>1. /\ last \in Samples /\ ring \in Seq(Samples) /\ s \in Seq(Samples)
      /\ n \in Nat /\ Len(s) = Block
  BY DEF Line, IsBlock
<1>2. CASE Push(ring, s) = ring
  BY <1>1, <1>2, SampleFields DEF Line
<1>3. CASE Push(ring, s) = t
  <2>1. /\ t \in Seq(Samples) /\ Len(t) = n + Block
        /\ \A i \in 1..n : t[i] = ring[i]
        /\ \A i \in 1..Block : t[n + i] = s[i]
    BY <1>1
  <2> HIDE DEF t
  <2>2. \A i \in 1..Block : t[n + i].block = c /\ t[n + i].at = i
    BY <2>1 DEF IsBlock
  <2>3. \A i \in 1..Len(t) : t[i] \in Samples /\ t[i].block <= c
    <3>1. TAKE i \in 1..Len(t)
    <3>2. CASE i <= n
      <4>1. i \in 1..n /\ t[i] = ring[i] /\ ring[i] \in Samples
        BY <1>1, <2>1, <3>2
      <4>2. ring[i].block <= b /\ ring[i].block \in Nat
        BY <4>1, SampleFields DEF Line
      <4> QED BY <4>1, <4>2
    <3>3. CASE i > n
      <4>1. i - n \in 1..Block /\ n + (i - n) = i
        BY <1>1, <2>1, <3>3
      <4>2. t[i] = s[i - n] /\ s[i - n] \in Samples
        BY <1>1, <2>1, <4>1
      <4>3. t[i].block = c
        BY <4>1, <4>2 DEF IsBlock
      <4> QED BY <4>2, <4>3
    <3> QED BY <1>1, <3>2, <3>3
  <2>4. t # <<>> /\ t[Len(t)].at = Block
    BY <1>1, <2>1, <2>2
  <2>5. Follows(IF n = 0 THEN last ELSE ring[n], t[n + 1])
    <3>1. t[n + 1].block = c /\ t[n + 1].at = 1
      BY <1>1, <2>2
    <3>2. CASE n = 0
      BY <1>1, <3>1, <3>2, SampleFields DEF Line, Follows
    <3>3. CASE n # 0
      <4>1. ring # <<>> /\ n \in 1..n
        BY <1>1, <3>3
      <4>2. ring[n].at = Block /\ ring[n].block <= b /\ ring[n] \in Samples
        BY <1>1, <4>1 DEF Line
      <4> QED BY <3>1, <3>3, <4>2, SampleFields DEF Follows
    <3> QED BY <3>2, <3>3
  <2>6. Follows(last, t[1])
    <3>1. CASE n = 0
      BY <2>5, <3>1
    <3>2. CASE n # 0
      <4>1. ring # <<>> /\ t[1] = ring[1]
        BY <1>1, <2>1, <3>2
      <4>2. Follows(last, ring[1])
        BY <4>1 DEF Line, Whole
      <4> QED BY <4>1, <4>2
    <3> QED BY <1>1, <3>1, <3>2
  <2>7. ASSUME NEW i \in 1..(Len(t) - 1)
        PROVE  Follows(t[i], t[i + 1])
    <3>1. CASE i < n
      <4>1. i \in 1..(n - 1) /\ t[i] = ring[i] /\ t[i + 1] = ring[i + 1]
        BY <1>1, <2>1, <3>1
      <4>2. \A k \in 1..(n - 1) : Follows(ring[k], ring[k + 1])
        BY DEF Line, Whole
      <4> QED BY <4>1, <4>2
    <3>2. CASE i = n
      BY <1>1, <2>1, <2>5, <3>2
    <3>3. CASE i > n
      <4>1. /\ i - n \in 1..Block /\ i - n + 1 \in 1..Block
            /\ n + (i - n) = i /\ n + (i - n + 1) = i + 1
        BY <1>1, <2>1, <3>3
      <4>2. /\ t[i].block = c /\ t[i].at = i - n
            /\ t[i + 1].block = c /\ t[i + 1].at = i - n + 1
        BY <2>2, <4>1
      <4> QED BY <4>1, <4>2 DEF Follows
    <3> QED BY <1>1, <3>1, <3>2, <3>3
  <2>8. last.block <= c
    BY <1>1, SampleFields DEF Line
  <2> QED BY <1>1, <1>3, <2>1, <2>3, <2>4, <2>6, <2>7, <2>8 DEF Line, Whole
<1> QED BY <1>2, <1>3 DEF Push

(* A callback's worth, played whole or not at all.                         *)
LEMMA ReadKeepsLine ==
  ASSUME NEW last, NEW ring, NEW b \in Nat, Line(last, ring, b), NEW n \in Nat \ {0}
  PROVE  Line(LastOf(last, Read(ring, n)), Rest(ring, n), b)
<1> DEFINE m == Len(ring)
           r == SubSeq(ring, n + 1, m)
           p == SubSeq(ring, 1, n)
<1>1. last \in Samples /\ ring \in Seq(Samples) /\ m \in Nat
  BY DEF Line
<1>2. CASE m < n
  BY <1>1, <1>2 DEF Read, Rest, LastOf
<1>3. CASE m >= n
  <2>1. p # <<>> /\ Len(p) = n /\ p[n] = ring[n] /\ ring[n] \in Samples
    BY <1>1, <1>3
  <2>2. LastOf(last, Read(ring, n)) = ring[n] /\ Rest(ring, n) = r
    BY <1>1, <1>3, <2>1 DEF Read, Rest, LastOf
  <2>3. /\ r \in Seq(Samples) /\ Len(r) = m - n
        /\ \A i \in 1..(m - n) : r[i] = ring[n + i]
    <3>1. \A i \in (n + 1)..m : ring[i] \in Samples
      BY <1>1, <1>3
    <3> QED BY <1>1, <1>3, <3>1, SubSeqProperties
  <2> HIDE DEF r, p
  <2>4. ring[n].block <= b /\ \A i \in 1..Len(r) : r[i].block <= b
    BY <1>1, <1>3, <2>3 DEF Line
  <2>5. CASE m = n
    BY <1>1, <1>3, <2>1, <2>2, <2>3, <2>4, <2>5 DEF Line, Whole
  <2>6. CASE m > n
    <3>1. r # <<>> /\ r[Len(r)] = ring[m] /\ r[1] = ring[n + 1]
      BY <1>1, <2>3, <2>6
    <3>2. ring[m].at = Block
      BY <1>1, <2>6 DEF Line
    <3>3. \A i \in n..(m - 1) : Follows(ring[i], ring[i + 1])
      BY <1>1 DEF Line, Whole
    <3>4. \A i \in 1..(Len(r) - 1) : Follows(r[i], r[i + 1])
      <4>1. TAKE i \in 1..(Len(r) - 1)
      <4>2. /\ r[i] = ring[n + i] /\ r[i + 1] = ring[n + i + 1]
            /\ n + i \in n..(m - 1)
        BY <1>1, <2>3, <2>6
      <4> QED BY <3>3, <4>2
    <3>5. Follows(ring[n], r[1])
      BY <1>1, <2>6, <3>1, <3>3
    <3> QED BY <2>1, <2>2, <2>3, <2>4, <3>1, <3>2, <3>4, <3>5 DEF Line, Whole
  <2> QED BY <1>1, <1>3, <2>5, <2>6
<1> QED BY <1>1, <1>2, <1>3

LEMMA LaterLine ==
  ASSUME NEW last, NEW ring, NEW b \in Nat, NEW c \in Nat, b <= c, Line(last, ring, b)
  PROVE  Line(last, ring, c)
BY SampleFields DEF Line

-----------------------------------------------------------------------------
(* The lines through both rings. *)

(* What the worker makes of the head of InputRing is a block.              *)
LEMMA ScratchIsBlock ==
  ASSUME Lines, LevelCurrent, ProcessBlock
  PROVE  IsBlock(scratch', blocks + 1) /\ scratch' # <<>>
<1>1. in_ring \in Seq(1..MaxSlices) /\ Len(in_ring) >= Block /\ blocks + 1 \in Nat
  BY DEF ProcessBlock, Lines, LevelCurrent
<1>2. scratch' = [i \in 1..Block |-> [slice |-> in_ring[i], block |-> blocks + 1, at |-> i]]
  BY DEF ProcessBlock
<1>3. \A i \in 1..Block : in_ring[i] \in 0..MaxSlices
  BY <1>1
<1>4. \A i \in 1..Block :
        [slice |-> in_ring[i], block |-> blocks + 1, at |-> i] \in Samples
  BY <1>1, <1>3 DEF Samples
<1>5. scratch' \in Seq(Samples) /\ Len(scratch') = Block
  BY <1>2, <1>4
<1>6. \A i \in 1..Block : scratch'[i].block = blocks + 1 /\ scratch'[i].at = i
  BY <1>2
<1> QED BY <1>5, <1>6 DEF IsBlock

LEMMA LinesStep ==
  ASSUME Lines, LevelCurrent, [Next]_vars
  PROVE  Lines'
<1> USE DEF Lines
<1>0. blocks \in Nat /\ Lines
  OBVIOUS
<1>1. CASE \E n \in Slices : CapturePush(n)
  BY <1>0, <1>1 DEF CapturePush
<1>2. CASE CaptureStamp
  BY <1>0, <1>2 DEF CaptureStamp
<1>3. CASE ProcessBlock
  <2>1. IsBlock(scratch', blocks + 1) /\ scratch' # <<>>
    BY <1>3, ScratchIsBlock
  <2>2. /\ scratch = <<>> /\ blocks' = blocks + 1
        /\ vo_ring' = Push(vo_ring, scratch')
        /\ UNCHANGED <<vo_last, mo_last, mo_ring>>
    BY <1>3 DEF ProcessBlock
  <2>3. Line(vo_last, Push(vo_ring, scratch'), blocks + 1)
    BY <1>0, <2>1, PushKeepsLine
  <2>4. Line(mo_last, mo_ring, blocks) /\ blocks' - 1 = blocks
    BY <1>0, <2>2
  <2> QED BY <1>0, <2>1, <2>2, <2>3, <2>4
<1>4. CASE MirrorBlock
  <2>1. /\ IsBlock(scratch, blocks) /\ blocks - 1 \in Nat
        /\ Line(mo_last, mo_ring, blocks - 1)
    BY <1>0, <1>4 DEF MirrorBlock
  <2>2. Line(mo_last, Push(mo_ring, scratch), blocks) /\ Line(mo_last, mo_ring, blocks)
    BY <1>0, <2>1, PushKeepsLine, LaterLine
  <2>3. /\ scratch' = <<>> /\ UNCHANGED <<vo_last, vo_ring, mo_last, blocks>>
        /\ mo_ring' \in {Push(mo_ring, scratch), mo_ring}
    BY <1>4 DEF MirrorBlock
  <2> QED BY <1>0, <2>2, <2>3
<1>5. CASE \E n \in Frames : VirtualOutCallback(n)
  <2>1. PICK n \in Frames : VirtualOutCallback(n)
    BY <1>5
  <2>2. /\ vo_ring' = Rest(vo_ring, n) /\ vo_last' = LastOf(vo_last, Read(vo_ring, n))
        /\ UNCHANGED <<mo_ring, mo_last, blocks, scratch>>
    BY <2>1 DEF VirtualOutCallback
  <2>3. Line(vo_last', vo_ring', blocks)
    BY <1>0, <2>2, ReadKeepsLine
  <2> QED BY <1>0, <2>2, <2>3
<1>6. CASE \E n \in Frames : MonitorCallback(n)
  <2>1. PICK n \in Frames : MonitorCallback(n)
    BY <1>6
  <2>2. /\ mo_ring' = Rest(mo_ring, n) /\ mo_last' = LastOf(mo_last, Read(mo_ring, n))
        /\ UNCHANGED <<vo_ring, vo_last, blocks, scratch>>
    BY <2>1 DEF MonitorCallback
  <2>3. CASE scratch = <<>>
    BY <1>0, <2>2, <2>3, ReadKeepsLine
  <2>4. CASE scratch # <<>>
    <3>1. blocks - 1 \in Nat /\ Line(mo_last, mo_ring, blocks - 1)
      BY <1>0, <2>4
    <3>2. Line(mo_last', mo_ring', blocks - 1)
      BY <2>2, <3>1, ReadKeepsLine
    <3> QED BY <1>0, <2>2, <2>4, <3>2
  <2> QED BY <2>3, <2>4
<1>7. CASE ToggleMonitor
  BY <1>0, <1>7 DEF ToggleMonitor
<1>8. CASE UNCHANGED vars
  BY <1>0, <1>8 DEF vars
<1> QED BY <1>1, <1>2, <1>3, <1>4, <1>5, <1>6, <1>7, <1>8 DEF Next

-----------------------------------------------------------------------------
(* The two ends of InputRing. *)

(* A slice is appended whole, or dropped because it does not fit.          *)
LEMMA SlicePushed ==
  ASSUME LevelCurrent, NEW n \in Slices, CapturePush(n)
  PROVE  /\ captured' = captured + 1 /\ captured' \in 1..MaxSlices
         /\ in_ring' \in Seq(1..MaxSlices)
         /\ \/ in_ring' = in_ring /\ Len(in_ring) + n > RingCapacity
            \/ /\ Len(in_ring') = Len(in_ring) + n
               /\ \A i \in 1..Len(in_ring) : in_ring'[i] = in_ring[i]
               /\ \A i \in (Len(in_ring) + 1)..(Len(in_ring) + n) : in_ring'[i] = captured'
<1> USE DEF LevelCurrent
<1> DEFINE s == [i \in 1..n |-> captured + 1]
<1>1. captured' = captured + 1 /\ captured' \in 1..MaxSlices /\ in_ring' = Push(in_ring, s)
  BY DEF CapturePush
<1>2. s \in Seq(1..MaxSlices) /\ Len(s) = n /\ n \in Nat /\ \A i \in 1..n : s[i] = captured'
  BY <1>1
<1> HIDE DEF s
<1>3. in_ring \in Seq(1..MaxSlices) /\ Len(in_ring) \in Nat
  OBVIOUS
<1>4. /\ Len(in_ring \o s) = Len(in_ring) + n
      /\ in_ring \o s \in Seq(1..MaxSlices)
      /\ \A i \in 1..(Len(in_ring) + n) : (in_ring \o s)[i] =
           IF i <= Len(in_ring) THEN in_ring[i] ELSE s[i - Len(in_ring)]
  BY <1>2, <1>3, ConcatProperties
<1>5. CASE Len(in_ring) + n <= RingCapacity
  <2>1. in_ring' = in_ring \o s
    BY <1>1, <1>2, <1>5 DEF Push
  <2>2. \A i \in (Len(in_ring) + 1)..(Len(in_ring) + n) : i - Len(in_ring) \in 1..n
    BY <1>2, <1>3
  <2> QED BY <1>1, <1>2, <1>3, <1>4, <2>1, <2>2
<1>6. CASE Len(in_ring) + n > RingCapacity
  BY <1>1, <1>2, <1>3, <1>6 DEF Push
<1> QED BY <1>2, <1>3, <1>5, <1>6

(* A block is taken from the front.                                        *)
LEMMA BlockTaken ==
  ASSUME LevelCurrent, ProcessBlock
  PROVE  /\ Len(in_ring) >= Block /\ in_ring' \in Seq(1..MaxSlices)
         /\ Len(in_ring') = Len(in_ring) - Block
         /\ \A i \in 1..(Len(in_ring) - Block) : in_ring'[i] = in_ring[Block + i]
<1> USE DEF LevelCurrent
<1>1. in_ring' = SubSeq(in_ring, Block + 1, Len(in_ring)) /\ Len(in_ring) >= Block
  BY DEF ProcessBlock
<1>2. \A i \in (Block + 1)..Len(in_ring) : in_ring[i] \in 1..MaxSlices
  OBVIOUS
<1> QED BY <1>1, <1>2, SubSeqProperties

-----------------------------------------------------------------------------
(* The level. *)

LEMMA LevelCurrentStep ==
  ASSUME LevelCurrent, [Next]_vars
  PROVE  LevelCurrent'
<1> USE DEF LevelCurrent
<1>1. CASE \E n \in Slices : CapturePush(n)
  <2>1. PICK n \in Slices : CapturePush(n)
    BY <1>1
  <2>2. stamping' = TRUE /\ ~stamping /\ input_rms' = input_rms
    BY <2>1 DEF CapturePush
  <2>3. \A i \in 1..Len(in_ring') : in_ring'[i] <= captured'
    <3>1. n \in Nat /\ Len(in_ring) \in Nat
          /\ \A i \in 1..Len(in_ring) : in_ring[i] \in Int /\ in_ring[i] <= captured
      OBVIOUS
    <3>2. \A i \in 1..(Len(in_ring) + n) :
            i \in 1..Len(in_ring) \/ i \in (Len(in_ring) + 1)..(Len(in_ring) + n)
      BY <3>1
    <3>3. captured' = captured + 1 /\ captured \in Int
      BY <2>1, SlicePushed
    <3>4. CASE in_ring' = in_ring
      BY <3>1, <3>3, <3>4
    <3>5. CASE /\ Len(in_ring') = Len(in_ring) + n
               /\ \A i \in 1..Len(in_ring) : in_ring'[i] = in_ring[i]
               /\ \A i \in (Len(in_ring) + 1)..(Len(in_ring) + n) : in_ring'[i] = captured'
      BY <3>1, <3>2, <3>3, <3>5
    <3> QED BY <2>1, <3>4, <3>5, SlicePushed
  <2> QED BY <2>1, <2>2, <2>3, SlicePushed
<1>2. CASE CaptureStamp
  BY <1>2 DEF CaptureStamp
<1>3. CASE ProcessBlock
  <2>1. UNCHANGED <<captured, stamping, input_rms>>
    BY <1>3 DEF ProcessBlock
  <2>2. \A i \in 1..(Len(in_ring) - Block) : Block + i \in 1..Len(in_ring)
    OBVIOUS
  <2>3. \A i \in 1..Len(in_ring') : in_ring'[i] <= captured'
    BY <1>3, <2>1, <2>2, BlockTaken
  <2> QED BY <1>3, <2>1, <2>3, BlockTaken
<1>4. CASE MirrorBlock
  BY <1>4 DEF MirrorBlock
<1>5. CASE (\E n \in Frames : VirtualOutCallback(n)) \/ (\E n \in Frames : MonitorCallback(n))
  BY <1>5 DEF VirtualOutCallback, MonitorCallback
<1>6. CASE ToggleMonitor
  BY <1>6 DEF ToggleMonitor
<1>7. CASE UNCHANGED vars
  BY <1>7 DEF vars
<1> QED BY <1>1, <1>2, <1>3, <1>4, <1>5, <1>6, <1>7 DEF Next

-----------------------------------------------------------------------------
(* The stamps. *)

(* The figures that the stamps and the path are compared with.             *)
LEMMA Figures ==
  ASSUME IInv
  PROVE  /\ captured \in 0..MaxSlices /\ input_rms \in Int
         /\ input_rms <= captured /\ captured <= input_rms + 1
         /\ Drained \in Nat /\ Drained <= input_rms
         /\ Len(ts_ring) \in Nat /\ Len(vo_ring) \in Nat /\ Len(in_ring) \in Nat
         /\ vo_last.slice \in Nat
         /\ \A i \in 1..Len(vo_ring) : vo_ring[i].slice \in Nat
         /\ \A i \in 1..Len(in_ring) : in_ring[i] \in Nat
<1>1. vo_ring \in Seq(Samples) /\ vo_last \in Samples
  BY DEF IInv, Lines, Line
<1>2. \A i \in 1..Len(vo_ring) : vo_ring[i].slice \in Nat
  BY <1>1, SampleFields
<1>3. vo_last.slice \in Nat
  BY <1>1, SampleFields
<1>4. input_rms \in Int /\ input_rms <= captured /\ captured <= input_rms + 1
  BY DEF IInv, LevelCurrent
<1>5. Drained \in Nat /\ Drained <= input_rms
  BY <1>4 DEF IInv, StampsFollow
<1> QED BY <1>1, <1>2, <1>3, <1>4, <1>5 DEF IInv, LevelCurrent, StampsFollow

(* A stamp goes behind the others or is lost to a full ring.               *)
LEMMA StampAppended ==
  ASSUME IInv, CaptureStamp
  PROVE  /\ StampsFollow'
         /\ Drained' = Drained \/ Drained' = captured
<1> DEFINE n == Len(ts_ring)
<1>1. captured = input_rms + 1 /\ input_rms' = captured /\ captured \in 1..MaxSlices
  BY Figures DEF IInv, LevelCurrent, CaptureStamp
<1>2. /\ ts_ring \in Seq(Stamps) /\ n \in Nat /\ Drained \in 0..input_rms
      /\ \A i \in 1..n : ts_ring[i].slice = Drained + i /\ ts_ring[i].at = clock
      /\ ts_ring # <<>> => n = TsCapacity \/ Drained + n = input_rms
      /\ n <= TsCapacity
  BY DEF IInv, StampsFollow
<1>0. clock \in 0..MaxPlays /\ clock' = clock
  BY DEF IInv, StampsFollow, CaptureStamp
<1>3. CASE n < TsCapacity
  <2> DEFINE stamp == [slice |-> captured, at |-> clock]
  <2>0. stamp \in Stamps
    BY <1>0, <1>1 DEF Stamps
  <2>1. ts_ring' = Append(ts_ring, stamp)
    BY <1>3 DEF CaptureStamp, Stamped
  <2>2. /\ ts_ring' \in Seq(Stamps) /\ Len(ts_ring') = n + 1 /\ ts_ring' # <<>>
        /\ \A i \in 1..n : ts_ring'[i] = ts_ring[i]
        /\ ts_ring'[n + 1].slice = captured /\ ts_ring'[n + 1].at = clock
    BY <1>2, <2>0, <2>1
  <2>3. Drained + n = input_rms
    BY <1>2, <1>3 DEF Drained
  <2>4. Drained' = ts_ring'[1].slice - 1
    BY <2>2 DEF Drained
  <2>5. Drained' = Drained
    <3>1. CASE n = 0
      BY <1>1, <1>2, <2>2, <2>3, <2>4, <3>1
    <3>2. CASE n # 0
      <4>1. 1 \in 1..n
        BY <1>2, <3>2
      <4>2. ts_ring'[1].slice = Drained + 1 /\ Drained \in Int
        BY <1>1, <1>2, <2>2, <4>1
      <4> QED BY <2>4, <4>2
    <3> QED BY <3>1, <3>2
  <2>6. \A i \in 1..Len(ts_ring') :
          ts_ring'[i].slice = Drained + i /\ ts_ring'[i].at = clock
    <3>1. TAKE i \in 1..Len(ts_ring')
    <3>2. CASE i = n + 1
      BY <1>1, <1>2, <2>2, <2>3, <3>2
    <3>3. CASE i # n + 1
      <4>1. i \in 1..n
        BY <1>2, <2>2, <3>3
      <4> QED BY <1>2, <2>2, <4>1
    <3> QED BY <3>2, <3>3
  <2>7. /\ Drained + Len(ts_ring') = input_rms' /\ Drained \in 0..input_rms'
        /\ Len(ts_ring') <= TsCapacity
    BY <1>3, <1>1, <1>2, <2>2, <2>3
  <2> QED BY <1>0, <2>2, <2>5, <2>6, <2>7 DEF StampsFollow
<1>4. CASE n >= TsCapacity /\ ts_ring = <<>>
  <2>1. ts_ring' = <<>>
    BY <1>2, <1>4 DEF CaptureStamp, Stamped
  <2>2. Drained' = captured
    BY <1>1, <2>1 DEF Drained
  <2> QED BY <1>0, <1>1, <2>1, <2>2 DEF StampsFollow
<1>5. CASE n >= TsCapacity /\ ts_ring # <<>>
  <2>1. ts_ring' = ts_ring
    BY <1>2, <1>5 DEF CaptureStamp, Stamped
  <2>2. Drained' = Drained
    BY <1>5, <2>1 DEF Drained
  <2>3. n = TsCapacity
    BY <1>2, <1>5
  <2>4. Drained \in 0..input_rms'
    BY <1>1, <1>2, Figures
  <2> QED BY <1>0, <1>2, <1>5, <2>1, <2>2, <2>3, <2>4 DEF StampsFollow
<1> QED BY <1>2, <1>3, <1>4, <1>5

(* Only the capture callback and the virtual output touch the stamps.      *)
LEMMA StampsStep ==
  ASSUME IInv, [Next]_vars
  PROVE  StampsFollow'
<1>1. CASE CaptureStamp
  BY <1>1, StampAppended
<1>2. CASE \E n \in Frames : VirtualOutCallback(n)
  <2>1. ts_ring' = <<>> /\ input_rms' = input_rms
    BY <1>2 DEF VirtualOutCallback
  <2>2. Drained' = input_rms /\ Len(ts_ring') = 0 /\ input_rms \in 0..input_rms
    BY <2>1, Figures DEF Drained
  <2>3. clock' \in 0..MaxPlays
    BY <1>2 DEF IInv, StampsFollow, VirtualOutCallback
  <2> QED BY <2>1, <2>2, <2>3 DEF StampsFollow
<1>3. ASSUME UNCHANGED <<ts_ring, input_rms, clock>>
      PROVE  StampsFollow'
  BY <1>3 DEF IInv, StampsFollow, Drained
<1> QED
  BY <1>1, <1>2, <1>3 DEF Next, CapturePush, ProcessBlock, MirrorBlock, MonitorCallback,
     ToggleMonitor, vars

-----------------------------------------------------------------------------
(* The path to the virtual output. *)

LEMMA TimesMonotone ==
  /\ \A a, b, n \in Nat : a <= b => a * n <= b * n
  /\ \A a, m, n \in Nat : m <= n => a * m <= a * n
OBVIOUS

(* What the sizes say of one callback and one slice.                       *)
LEMMA Sizes ==
  ASSUME NEW f \in Frames, NEW n \in Slices
  PROVE  /\ f \in Nat \ {0} /\ n \in Nat \ {0} /\ TsCapacity \in Nat \ {0}
         /\ f <= TsCapacity * n /\ f + n <= RingCapacity
<1>1. f <= TsCapacity * n /\ f + n <= RingCapacity
  BY SizesAssumption
<1>2. TsCapacity # 0
  BY <1>1
<1> QED BY <1>1, <1>2

(* If the slices since the last drain have left little, they are few.      *)
LEMMA FewAhead ==
  ASSUME IInv, NEW f \in Frames, NEW n \in Slices, Ahead(f), PathLen < f
  PROVE  captured + 1 <= Drained + 1 + TsCapacity
<1>1. /\ captured \in Nat /\ Drained \in Nat /\ PathLen \in Nat /\ f \in Nat
      /\ TsCapacity \in Nat \ {0}
  BY Figures, Sizes DEF PathLen
<1>2. CASE captured <= Drained + 1
  BY <1>1, <1>2
<1>3. CASE captured > Drained + 1
  <2> DEFINE k == captured - Drained - 1
  <2>1. k \in Nat
    BY <1>1, <1>3
  <2>2. PICK m \in Slices : PathLen >= k * m
    BY <1>1, <1>3 DEF Ahead
  <2>3. f <= TsCapacity * m /\ m \in Nat
    BY Sizes
  <2>4. k < TsCapacity
    <3>1. ASSUME TsCapacity <= k PROVE FALSE
      <4>1. TsCapacity * m <= k * m
        BY <1>1, <2>1, <2>3, <3>1, TimesMonotone
      <4>2. TsCapacity * m \in Nat /\ k * m \in Nat
        BY <1>1, <2>1, <2>3
      <4> HIDE DEF k
      <4> QED BY <1>1, <2>2, <2>3, <4>1, <4>2
    <3> HIDE DEF k
    <3> QED BY <1>1, <2>1, <3>1
  <2> QED BY <1>1, <2>4
<1> QED BY <1>1, <1>2, <1>3

(* A captured slice lengthens the path, or finds it long.                  *)
LEMMA PushAhead ==
  ASSUME IInv, NEW n \in Slices, CapturePush(n), NEW f \in Frames, Ahead(f)
  PROVE  Ahead(f)'
<1>1. /\ captured' = captured + 1 /\ Drained' = Drained /\ vo_ring' = vo_ring
  BY DEF CapturePush, Drained
<1>2. /\ captured \in Nat /\ Drained \in Nat /\ PathLen \in Nat
      /\ Len(in_ring) \in Nat /\ Len(vo_ring) \in Nat
      /\ PathLen = Len(vo_ring) + Len(in_ring)
      /\ PathLen' = Len(vo_ring) + Len(in_ring')
  BY <1>1, Figures DEF PathLen
<1>3. f \in Nat \ {0} /\ n \in Nat \ {0} /\ TsCapacity \in Nat \ {0} /\ f + n <= RingCapacity
  BY Sizes
<1>4. CASE in_ring' = in_ring /\ Len(in_ring) + n > RingCapacity
  <2>1. PathLen' >= f
    BY <1>2, <1>3, <1>4
  <2>2. \A j : PathSlice(j)' = PathSlice(j)
    BY <1>1, <1>4 DEF PathSlice
  <2>3. PathLen' = PathLen
    BY <1>2, <1>4
  <2> QED BY <1>1, <2>1, <2>2, <2>3 DEF Ahead
<1>5. CASE /\ Len(in_ring') = Len(in_ring) + n
           /\ \A i \in 1..Len(in_ring) : in_ring'[i] = in_ring[i]
           /\ \A i \in (Len(in_ring) + 1)..(Len(in_ring) + n) : in_ring'[i] = captured'
  <2>1. PathLen' = PathLen + n
    BY <1>2, <1>3, <1>5
  <2>2. ASSUME NEW j \in 1..PathLen', j <= f
        PROVE  PathSlice(j)' <= Drained + 1 + TsCapacity
    <3>1. CASE j <= Len(vo_ring)
      <4>1. j \in 1..PathLen /\ PathSlice(j)' = PathSlice(j)
        BY <1>1, <1>2, <2>2, <3>1 DEF PathSlice
      <4> QED BY <2>2, <4>1 DEF Ahead
    <3>2. CASE j > Len(vo_ring) /\ j <= PathLen
      <4>1. j \in 1..PathLen /\ j - Len(vo_ring) \in 1..Len(in_ring)
        BY <1>2, <2>2, <3>2
      <4>2. PathSlice(j)' = PathSlice(j)
        BY <1>1, <1>2, <1>5, <3>2, <4>1 DEF PathSlice
      <4> QED BY <2>2, <4>1, <4>2 DEF Ahead
    <3>3. CASE j > PathLen
      <4>1. /\ j - Len(vo_ring) \in (Len(in_ring) + 1)..(Len(in_ring) + n)
            /\ j > Len(vo_ring) /\ PathLen < f
        BY <1>2, <1>3, <2>1, <2>2, <3>3
      <4>2. PathSlice(j)' = captured + 1
        BY <1>1, <1>5, <4>1 DEF PathSlice
      <4> QED BY <4>1, <4>2, FewAhead
    <3> QED BY <1>2, <2>1, <2>2, <3>1, <3>2, <3>3
  <2>3. CASE captured <= Drained
    BY <1>1, <1>2, <2>2, <2>3 DEF Ahead
  <2>4. CASE PathLen >= f
    <3>1. PathLen' >= f
      BY <1>2, <1>3, <2>1, <2>4
    <3> QED BY <1>1, <2>2, <3>1 DEF Ahead
  <2>5. CASE captured > Drained /\ PathLen < f
    <3> DEFINE k == captured - Drained - 1
    <3>1. k \in Nat /\ captured' - Drained' - 1 = k + 1
      BY <1>1, <1>2, <2>5
    <3>2. PICK m \in Slices : PathLen >= k * m
      <4>1. CASE captured = Drained + 1
        <5>1. k = 0 /\ 0 * n = 0
          BY <1>2, <1>3, <4>1
        <5> QED BY <1>2, <5>1
      <4>2. CASE captured # Drained + 1
        BY <1>2, <1>3, <2>5, <4>2 DEF Ahead
      <4> QED BY <4>1, <4>2
    <3>3. m \in Nat /\ k * m \in Nat /\ k * n \in Nat
      BY <1>3, <3>1
    <3> HIDE DEF k
    <3>4. CASE m <= n
      <4>1. (k + 1) * m = k * m + m
        BY <3>1, <3>3
      <4>2. PathLen' >= (k + 1) * m
        BY <1>2, <1>3, <2>1, <3>2, <3>3, <3>4, <4>1
      <4>3. \E l \in Slices : PathLen' >= (captured' - Drained' - 1) * l
        BY <3>1, <4>2
      <4> QED BY <1>1, <2>2, <4>3 DEF Ahead
    <3>5. CASE m > n
      <4>1. (k + 1) * n = k * n + n /\ k * n <= k * m
        BY <1>3, <3>1, <3>3, <3>5, TimesMonotone
      <4>2. PathLen' >= (k + 1) * n
        BY <1>2, <1>3, <2>1, <3>2, <3>3, <4>1
      <4>3. \E l \in Slices : PathLen' >= (captured' - Drained' - 1) * l
        BY <3>1, <4>2
      <4> QED BY <1>1, <2>2, <4>3 DEF Ahead
    <3> QED BY <1>3, <3>3, <3>4, <3>5
  <2> QED BY <1>2, <1>3, <2>3, <2>4, <2>5
<1> QED BY <1>4, <1>5, SlicePushed DEF IInv

(* A block moves along the path, or finds the way behind it long.          *)
LEMMA BlockAhead ==
  ASSUME IInv, ProcessBlock
  PROVE  /\ \A f \in Frames : Ahead(f) => Ahead(f)'
         /\ \A i \in 1..Len(vo_ring') : vo_ring'[i].slice <= captured
<1> DEFINE n == Len(vo_ring)
<1>1. /\ captured' = captured /\ Drained' = Drained /\ vo_ring' = Push(vo_ring, scratch')
      /\ scratch' = [i \in 1..Block |->
                       [slice |-> in_ring[i], block |-> blocks + 1, at |-> i]]
  BY DEF ProcessBlock, Drained
<1>2. /\ n \in Nat /\ Len(in_ring) \in Nat /\ Len(in_ring) >= Block
      /\ vo_ring \in Seq(Samples)
      /\ PathLen = n + Len(in_ring)
      /\ PathLen' = Len(vo_ring') + Len(in_ring')
  BY Figures, BlockTaken DEF IInv, Lines, Line, PathLen
<1>3. scratch' \in Seq(Samples) /\ Len(scratch') = Block
  BY ScratchIsBlock DEF IInv, IsBlock
<1>4. /\ \A i \in 1..n : vo_ring[i].slice <= captured
      /\ \A i \in 1..Len(in_ring) : in_ring[i] <= captured
  BY DEF IInv, PlaysStamped, LevelCurrent
<1>5. CASE n + Block <= RingCapacity
  <2>1. vo_ring' = vo_ring \o scratch'
    BY <1>1, <1>3, <1>5 DEF Push
  <2>2. /\ Len(vo_ring') = n + Block
        /\ \A i \in 1..n : vo_ring'[i] = vo_ring[i]
        /\ \A i \in 1..Block : vo_ring'[n + i] = scratch'[i]
    <3>1. /\ Len(vo_ring') = n + Block
          /\ \A i \in 1..(n + Block) : vo_ring'[i] =
               IF i <= n THEN vo_ring[i] ELSE scratch'[i - n]
      BY <1>2, <1>3, <2>1, ConcatProperties
    <3> HIDE DEF n
    <3>2. \A i \in 1..n : i \in 1..(n + Block) /\ i <= n
      BY <1>2
    <3>3. \A i \in 1..Block : n + i \in 1..(n + Block) /\ n + i > n /\ (n + i) - n = i
      BY <1>2
    <3> QED BY <1>2, <3>1, <3>2, <3>3
  <2>3. \A i \in (n + 1)..(n + Block) : vo_ring'[i].slice = in_ring[i - n]
    <3>1. TAKE i \in (n + 1)..(n + Block)
    <3>2. i - n \in 1..Block /\ n + (i - n) = i
      BY <1>2
    <3>3. vo_ring'[i] = scratch'[i - n]
      BY <2>2, <3>2
    <3> QED BY <1>1, <3>2, <3>3
  <2>4. PathLen' = PathLen
    BY <1>2, <2>2, BlockTaken DEF IInv
  <2>5. ASSUME NEW j \in 1..PathLen
        PROVE  PathSlice(j)' = PathSlice(j)
    <3>1. CASE j <= n
      BY <1>2, <2>2, <3>1 DEF PathSlice
    <3>2. CASE j > n /\ j <= n + Block
      BY <1>2, <2>2, <2>3, <3>2 DEF PathSlice
    <3>3. CASE j > n + Block
      <4>1. j - (n + Block) \in 1..(Len(in_ring) - Block)
        BY <1>2, <3>3
      <4>2. in_ring'[j - (n + Block)] = in_ring[Block + (j - (n + Block))]
        BY <4>1, BlockTaken DEF IInv
      <4>3. Block + (j - (n + Block)) = j - n
        BY <1>2
      <4> QED BY <1>2, <2>2, <3>3, <4>2, <4>3 DEF PathSlice
    <3> QED BY <1>2, <3>1, <3>2, <3>3
  <2>6. \A i \in 1..Len(vo_ring') : vo_ring'[i].slice <= captured
    <3>1. TAKE i \in 1..Len(vo_ring')
    <3>2. CASE i <= n
      <4>1. i \in 1..n
        BY <1>2, <2>2, <3>2
      <4>2. vo_ring'[i] = vo_ring[i]
        BY <2>2, <4>1
      <4>3. vo_ring[i].slice <= captured
        BY <1>4, <4>1
      <4> QED BY <4>2, <4>3
    <3>3. CASE i > n
      <4>1. i \in (n + 1)..(n + Block) /\ i - n \in 1..Len(in_ring)
        BY <1>2, <2>2, <3>3
      <4> QED BY <1>4, <2>3, <4>1
    <3> QED BY <1>2, <2>2, <3>2, <3>3
  <2> QED BY <1>1, <2>4, <2>5, <2>6 DEF Ahead
<1>6. CASE n + Block > RingCapacity
  <2>1. vo_ring' = vo_ring
    BY <1>1, <1>3, <1>6 DEF Push
  <2>2. ASSUME NEW f \in Frames, Ahead(f)
        PROVE  Ahead(f)'
    <3>1. n >= f /\ f \in Nat /\ Len(in_ring') \in Nat
      BY <1>2, <1>6, SizesAssumption, BlockTaken DEF IInv
    <3>2. PathLen' >= f
      BY <1>2, <2>1, <3>1
    <3>3. \A j \in 1..f : j \in 1..PathLen /\ PathSlice(j)' = PathSlice(j)
      BY <1>2, <2>1, <3>1 DEF PathSlice
    <3>4. \A j \in 1..PathLen' : j <= f => j \in 1..f
      BY <3>1
    <3> QED BY <1>1, <2>2, <3>2, <3>3, <3>4 DEF Ahead
  <2> QED BY <1>4, <2>1, <2>2
<1>7. n + Block <= RingCapacity \/ n + Block > RingCapacity
  BY <1>2
<1> QED BY <1>5, <1>6, <1>7, Zenon

(* What was last played is the last sample of the callback, or of an       *)
(* earlier one if the ring held too little.                                *)
LEMMA VirtualPlays ==
  ASSUME IInv, NEW n \in Frames, VirtualOutCallback(n)
  PROVE  vo_last' = vo_last \/ (vo_last' = vo_ring[n] /\ n \in 1..Len(vo_ring))
<1>1. vo_last' = LastOf(vo_last, Read(vo_ring, n))
  BY DEF VirtualOutCallback
<1>2. vo_ring \in Seq(Samples) /\ n \in Nat \ {0} /\ Len(vo_ring) \in Nat
  BY DEF IInv, Lines, Line
<1>3. CASE Len(vo_ring) < n
  BY <1>1, <1>2, <1>3 DEF Read, LastOf
<1>4. CASE Len(vo_ring) >= n
  <2> DEFINE p == SubSeq(vo_ring, 1, n)
  <2>1. p # <<>> /\ Len(p) = n /\ p[n] = vo_ring[n]
    BY <1>2, <1>4
  <2> QED BY <1>1, <1>2, <1>4, <2>1 DEF Read, LastOf
<1> QED BY <1>2, <1>3, <1>4

(* A drain leaves nothing older behind than the slice on its way.          *)
LEMMA DrainAhead ==
  ASSUME IInv, NEW n \in Frames, VirtualOutCallback(n)
  PROVE  PlaysStamped'
<1>1. /\ captured' = captured /\ in_ring' = in_ring /\ vo_ring' = Rest(vo_ring, n)
      /\ ts_ring' = <<>> /\ input_rms' = input_rms
  BY DEF VirtualOutCallback
<1>2. /\ Drained' = input_rms /\ captured <= Drained' + 1 /\ Drained <= Drained'
      /\ captured \in Nat /\ Drained \in Nat /\ Drained' \in Nat
  BY <1>1, Figures DEF Drained
<1>3. /\ \A i \in 1..Len(vo_ring) : vo_ring[i].slice \in Nat /\ vo_ring[i].slice <= captured
      /\ \A i \in 1..Len(in_ring) : in_ring[i] \in Nat /\ in_ring[i] <= captured
      /\ vo_ring \in Seq(Samples) /\ Len(vo_ring) \in Nat /\ n \in Nat \ {0}
      /\ vo_last.slice \in Nat /\ vo_last.slice <= Drained + 1 /\ Len(in_ring) \in Nat
  BY Figures DEF IInv, PlaysStamped, LevelCurrent, Lines, Line
<1>4. /\ Len(vo_ring') \in Nat
      /\ \A i \in 1..Len(vo_ring') :
           vo_ring'[i].slice \in Nat /\ vo_ring'[i].slice <= captured
  <2>1. CASE Len(vo_ring) < n
    BY <1>1, <1>3, <2>1 DEF Rest
  <2>2. CASE Len(vo_ring) >= n
    <3> DEFINE m == Len(vo_ring)
    <3>1. \A i \in (n + 1)..m : vo_ring[i] \in Samples
      BY <1>3
    <3>2. /\ Len(SubSeq(vo_ring, n + 1, m)) = m - n
          /\ \A i \in 1..(m - n) : SubSeq(vo_ring, n + 1, m)[i] = vo_ring[n + i]
      BY <1>3, <2>2, <3>1, SubSeqProperties
    <3>3. vo_ring' = SubSeq(vo_ring, n + 1, m)
      BY <1>1, <1>3, <2>2 DEF Rest
    <3>4. \A i \in 1..(m - n) : n + i \in 1..m
      BY <1>3
    <3>5. m - n \in Nat
      BY <1>3, <2>2
    <3> HIDE DEF m
    <3>6. \A i \in 1..(m - n) : vo_ring'[i].slice \in Nat /\ vo_ring'[i].slice <= captured
      BY <1>3, <3>2, <3>3, <3>4 DEF m
    <3> QED BY <3>2, <3>3, <3>5, <3>6
  <2> QED BY <1>3, <2>1, <2>2
<1>5. vo_last'.slice <= Drained' + 1
  <2>1. CASE vo_last' = vo_last
    BY <1>2, <1>3, <2>1
  <2>2. CASE vo_last' = vo_ring[n] /\ n \in 1..Len(vo_ring)
    BY <1>2, <1>3, <2>2
  <2> QED BY <2>1, <2>2, VirtualPlays
<1>6. ASSUME NEW f \in Frames
      PROVE  Ahead(f)'
  <2>1. ASSUME NEW j \in 1..PathLen'
        PROVE  PathSlice(j)' \in Nat /\ PathSlice(j)' <= captured
    <3>1. CASE j <= Len(vo_ring')
      BY <1>4, <2>1, <3>1 DEF PathSlice
    <3>2. CASE j > Len(vo_ring')
      <4>1. j - Len(vo_ring') \in 1..Len(in_ring)
        BY <1>1, <1>3, <1>4, <2>1, <3>2 DEF PathLen
      <4> QED BY <1>1, <1>3, <3>2, <4>1 DEF PathSlice
    <3> QED BY <1>1, <1>3, <1>4, <2>1, <3>1, <3>2 DEF PathLen
  <2>2. \A j \in 1..PathLen' : PathSlice(j)' <= Drained' + 1 + TsCapacity
    BY <1>2, <2>1
  <2> QED BY <1>1, <1>2, <2>2 DEF Ahead
<1> QED BY <1>1, <1>4, <1>5, <1>6 DEF PlaysStamped

LEMMA PlaysStep ==
  ASSUME IInv, [Next]_vars
  PROVE  PlaysStamped'
<1>1. /\ PlaysStamped /\ captured \in Nat /\ Drained \in Nat /\ TsCapacity \in Nat
      /\ Drained <= captured
      /\ vo_last.slice \in Nat
      /\ \A i \in 1..Len(vo_ring) : vo_ring[i].slice \in Nat
  BY Figures DEF IInv
<1>2. CASE \E n \in Slices : CapturePush(n)
  <2>1. PICK n \in Slices : CapturePush(n)
    BY <1>2
  <2>2. captured' = captured + 1 /\ Drained' = Drained /\ UNCHANGED <<vo_ring, vo_last>>
    BY <2>1 DEF CapturePush, Drained
  <2>3. \A f \in Frames : Ahead(f)'
    BY <1>1, <2>1, PushAhead DEF PlaysStamped
  <2>4. \A i \in 1..Len(vo_ring) : vo_ring[i].slice <= captured + 1
    BY <1>1 DEF PlaysStamped
  <2> QED BY <1>1, <2>2, <2>3, <2>4 DEF PlaysStamped
<1>3. CASE CaptureStamp
  <2>1. UNCHANGED <<captured, in_ring, vo_ring, vo_last>>
    BY <1>3 DEF CaptureStamp
  <2>2. CASE Drained' = Drained
    BY <1>1, <2>1, <2>2 DEF PlaysStamped, Ahead, PathLen, PathSlice
  <2>3. CASE Drained' = captured
    <3>1. vo_last.slice <= captured + 1
      BY <1>1 DEF PlaysStamped
    <3>2. ASSUME NEW j \in 1..PathLen
          PROVE  PathSlice(j) <= captured + 1 + TsCapacity
      <4>1. CASE j <= Len(vo_ring)
        <5>1. j \in 1..Len(vo_ring)
          BY <3>2, <4>1, Figures DEF PathLen
        <5> QED BY <1>1, <4>1, <5>1 DEF PlaysStamped, PathSlice
      <4>2. CASE j > Len(vo_ring)
        <5>1. j - Len(vo_ring) \in 1..Len(in_ring)
          BY <3>2, <4>2, Figures DEF PathLen
        <5>2. in_ring[j - Len(vo_ring)] \in Nat /\ in_ring[j - Len(vo_ring)] <= captured
          BY <5>1, Figures DEF IInv, LevelCurrent
        <5> QED BY <1>1, <4>2, <5>2 DEF PathSlice
      <4> QED BY <3>2, <4>1, <4>2, Figures DEF PathLen
    <3>3. PathLen' = PathLen /\ \A j : PathSlice(j)' = PathSlice(j)
      BY <2>1 DEF PathLen, PathSlice
    <3>4. captured' <= Drained' + 1
      BY <1>1, <2>1, <2>3
    <3>5. \A f \in Frames : Ahead(f)'
      BY <2>3, <3>2, <3>3, <3>4 DEF Ahead
    <3> QED BY <1>1, <2>1, <2>3, <3>1, <3>5 DEF PlaysStamped
  <2> QED BY <1>3, <2>2, <2>3, StampAppended
<1>4. CASE ProcessBlock
  <2>1. UNCHANGED <<captured, vo_last>> /\ Drained' = Drained
    BY <1>4 DEF ProcessBlock, Drained
  <2> QED BY <1>1, <1>4, <2>1, BlockAhead DEF PlaysStamped
<1>5. CASE \E n \in Frames : VirtualOutCallback(n)
  BY <1>5, DrainAhead
<1>6. ASSUME UNCHANGED <<captured, in_ring, vo_ring, vo_last, ts_ring, input_rms>>
      PROVE  PlaysStamped'
  BY <1>1, <1>6 DEF PlaysStamped, Ahead, PathLen, PathSlice, Drained
<1> QED
  BY <1>2, <1>3, <1>4, <1>5, <1>6 DEF Next, MirrorBlock, MonitorCallback, ToggleMonitor, vars

(* The pair that is used is the last of a full ring, or the newest.        *)
LEMMA MeterStep ==
  ASSUME IInv, [Next]_vars
  PROVE  MeterSane'
<1>1. CASE \E n \in Frames : VirtualOutCallback(n)
  <2>1. PICK n \in Frames : VirtualOutCallback(n)
    BY <1>1
  <2>2. CASE ts_ring = <<>>
    <3>1. meter' = meter
      BY <2>1, <2>2 DEF VirtualOutCallback, UsePair
    <3> QED BY <3>1 DEF IInv, MeterSane, MeterNotInflated
  <2>3. CASE ts_ring # <<>>
    <3> DEFINE k == Len(ts_ring)
    <3>1. /\ meter' = [stamp |-> ts_ring[k].slice, heard |-> vo_last'.slice,
                       latency |-> clock' - ts_ring[k].at]
          /\ clock' = clock + 1
      BY <2>1, <2>3 DEF VirtualOutCallback, UsePair, Reading
    <3>2. /\ k \in Nat \ {0} /\ ts_ring[k].slice = Drained + k
          /\ ts_ring[k].at = clock /\ clock \in Nat
          /\ k = TsCapacity \/ Drained + k = input_rms
      BY <2>3 DEF IInv, StampsFollow
    <3>3. /\ captured <= input_rms + 1 /\ captured \in Nat /\ input_rms \in Int
          /\ Drained \in Nat /\ TsCapacity \in Nat
          /\ vo_last.slice \in Nat /\ vo_last.slice <= Drained + 1
          /\ n \in Nat \ {0} /\ Len(in_ring) \in Nat /\ Len(vo_ring) \in Nat
      BY Figures DEF IInv, PlaysStamped
    <3>4. vo_last'.slice \in Int /\ vo_last'.slice <= Drained + k + 1
      <4>1. CASE vo_last' = vo_last
        BY <3>2, <3>3, <4>1
      <4>2. CASE vo_last' = vo_ring[n] /\ n \in 1..Len(vo_ring)
        <5>1. n \in 1..PathLen /\ PathSlice(n) = vo_ring[n].slice
          BY <3>3, <4>2 DEF PathLen, PathSlice
        <5>2. vo_ring[n].slice <= Drained + 1 + TsCapacity
          BY <3>3, <5>1 DEF IInv, PlaysStamped, Ahead
        <5>3. vo_ring[n].slice <= captured /\ vo_ring[n].slice \in Nat
          BY <4>2, Figures DEF IInv, PlaysStamped
        <5> HIDE DEF k
        <5> QED BY <3>2, <3>3, <4>2, <5>2, <5>3
      <4> QED BY <2>1, <4>1, <4>2, VirtualPlays
    <3>5. ts_ring[k].slice \in Int /\ ts_ring[k].slice >= vo_last'.slice - 1
      BY <3>2, <3>3, <3>4
    <3>6. clock' - ts_ring[k].at = 1
      BY <3>1, <3>2
    <3> QED BY <3>1, <3>4, <3>5, <3>6 DEF MeterSane, MeterNotInflated
  <2> QED BY <2>2, <2>3
<1>2. ASSUME UNCHANGED meter
      PROVE  MeterSane'
  BY <1>2 DEF IInv, MeterSane, MeterNotInflated
<1> QED
  BY <1>1, <1>2 DEF Next, CapturePush, CaptureStamp, ProcessBlock, MirrorBlock,
     MonitorCallback, ToggleMonitor, vars

-----------------------------------------------------------------------------
LEMMA InitIInv == Init => IInv
<1> SUFFICES ASSUME Init PROVE IInv
  OBVIOUS
<1>1. Silence \in Samples /\ Silence.block = 0 /\ Silence.at = Block
  BY DEF Silence, Samples
<1>2. Line(Silence, <<>>, 0)
  BY <1>1 DEF Line, Whole
<1>3. Lines
  BY <1>2 DEF Init, Lines
<1>4. LevelCurrent
  <2>1. captured = 0 /\ in_ring = <<>> /\ input_rms = 0
    BY DEF Init
  <2>2. stamping \in BOOLEAN /\ ~stamping
    BY Zenon DEF Init
  <2>3. in_ring \in Seq(1..MaxSlices) /\ captured \in 0..MaxSlices
    BY <2>1
  <2> QED BY <2>1, <2>2, <2>3 DEF LevelCurrent
<1>5. Drained = 0 /\ captured = 0 /\ PathLen = 0 /\ Len(ts_ring) = 0 /\ Len(vo_ring) = 0
  BY DEF Init, Drained, PathLen
<1>6. StampsFollow
  BY <1>5 DEF Init, StampsFollow
<1>7. PlaysStamped
  BY <1>5 DEF Init, Silence, PlaysStamped, Ahead
<1>8. MeterSane
  BY DEF Init, MeterSane, MeterNotInflated
<1> QED BY <1>3, <1>4, <1>6, <1>7, <1>8 DEF IInv

LEMMA NextIInv == IInv /\ [Next]_vars => IInv'
BY LinesStep, LevelCurrentStep, StampsStep, PlaysStep, MeterStep DEF IInv

(* The lines and the level need nothing of the sizes.                      *)
LEMMA RingsInvariant == Spec => [](Lines /\ LevelCurrent)
<1>1. Init => Lines /\ LevelCurrent
  BY InitIInv DEF IInv
<1>2. Lines /\ LevelCurrent /\ [Next]_vars => (Lines /\ LevelCurrent)'
  BY LinesStep, LevelCurrentStep
<1> QED BY <1>1, <1>2, PTL DEF Spec

(* Whatever the sizes of slices, blocks, rings and callbacks, and however  *)
(* they overflow or run dry, both outputs play whole blocks in order.      *)
THEOREM BlocksStayWhole == Spec => []WholeBlocks
<1>1. Lines /\ LevelCurrent => WholeBlocks
  BY LaterLine DEF Lines, Line, WholeBlocks
<1> QED BY <1>1, RingsInvariant, PTL

(* The gate's level is at most one slice behind the block it judges.       *)
THEOREM LevelIsCurrent == Spec => LevelKeepsUp
<1>1. LevelCurrent /\ [Next]_vars => [blocks' # blocks => input_rms >= in_ring[Block] - 1]_vars
  <2> SUFFICES ASSUME LevelCurrent, Next, blocks' # blocks
               PROVE  input_rms >= in_ring[Block] - 1
    BY DEF vars
  <2>1. ProcessBlock
    BY DEF Next, CapturePush, CaptureStamp, MirrorBlock, VirtualOutCallback,
       MonitorCallback, ToggleMonitor
  <2>2. Block \in 1..Len(in_ring) /\ in_ring[Block] \in 1..MaxSlices
    BY <2>1 DEF ProcessBlock, LevelCurrent
  <2> QED BY <2>2 DEF LevelCurrent
<1> QED BY <1>1, RingsInvariant, PTL DEF Spec, LevelKeepsUp

(* However the stamps, the samples and the blocks overflow their rings and *)
(* however long the outputs starve or capture stalls, the pair that the    *)
(* meter takes is no older than what is playing, but for the slice that    *)
(* overtook its stamp, and was left since the callback before.             *)
THEOREM MeterIsHonest == Spec => []MeterNotInflated
<1>1. IInv => MeterNotInflated
  BY DEF IInv, MeterSane
<1> QED BY <1>1, InitIInv, NextIInv, PTL DEF Spec

=============================================================================
