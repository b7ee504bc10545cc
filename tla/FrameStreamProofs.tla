-------------------------- MODULE FrameStreamProofs --------------------------
(***************************************************************************)
(* Theorems about FrameStream, for messages of any size, any number of     *)
(* them, any buffer, and any way to cut up the writes and the reads: what  *)
(* is on the wire is always one piece of the stream of all frames, that    *)
(* begins where the receiver is and ends where the sender is.              *)
(***************************************************************************)
EXTENDS FrameStream, SequenceTheorems, FiniteSetTheorems, TLAPS

-----------------------------------------------------------------------------
(* Sequences taken apart and put together. *)

LEMMA FunctionIsSeq ==
    ASSUME NEW S, NEW m \in Nat, NEW f \in [1..m -> S]
    PROVE  f \in Seq(S)
BY SeqDef

LEMMA TakeIs ==
    ASSUME NEW S, NEW s \in Seq(S), NEW k \in 0..Len(s)
    PROVE  /\ SubSeq(s, 1, k) \in Seq(S)
           /\ Len(SubSeq(s, 1, k)) = k
           /\ \A i \in 1..k : SubSeq(s, 1, k)[i] = s[i]
<1>1. \A i \in 1..k : s[i] \in S
  BY ElementOfSeq
<1> QED  BY <1>1, SubSeqProperties

LEMMA DropIs ==
    ASSUME NEW S, NEW s \in Seq(S), NEW k \in 0..Len(s)
    PROVE  /\ SubSeq(s, k + 1, Len(s)) \in Seq(S)
           /\ Len(SubSeq(s, k + 1, Len(s))) = Len(s) - k
           /\ \A i \in 1..(Len(s) - k) : SubSeq(s, k + 1, Len(s))[i] = s[k + i]
<1>1. Len(s) \in Nat /\ \A i \in (k + 1)..Len(s) : s[i] \in S
  BY ElementOfSeq
<1> QED  BY <1>1, SubSeqProperties

-----------------------------------------------------------------------------
(* The stream of all frames. *)

Units == Nat \X Nat

FrameSize(sz, id) == HeaderSize + Nonce + sz[id]

IsUnit(sz, u) == u \in Units /\ u[1] \in 1..Len(sz) /\ u[2] \in 1..FrameSize(sz, u[1])

\* The unit that comes after u.
Follow(sz, u) == IF u[2] < FrameSize(sz, u[1]) THEN <<u[1], u[2] + 1>> ELSE <<u[1] + 1, 1>>

\* A piece of the stream of all frames, with nothing missing in it.
Contiguous(sz, units) ==
    /\ \A i \in 1..Len(units) : IsUnit(sz, units[i])
    /\ \A i \in 1..(Len(units) - 1) : units[i + 1] = Follow(sz, units[i])
    /\ \A i \in 1..Len(units), d \in Nat :
           i + d <= Len(units) /\ units[i][2] + d <= FrameSize(sz, units[i][1]) =>
               units[i + d] = <<units[i][1], units[i][2] + d>>

LEMMA FrameSizeIs ==
    ASSUME NEW sz \in Seq(Nat), NEW id \in 1..Len(sz)
    PROVE  FrameSize(sz, id) \in Nat /\ FrameSize(sz, id) > HeaderSize
BY UnitsAssumption, ElementOfSeq DEF FrameSize

\* A longer list of messages leaves the pieces of the stream as they are.
LEMMA ContiguousStays ==
    ASSUME NEW sz \in Seq(Nat), NEW sz2 \in Seq(Nat), Len(sz) <= Len(sz2),
           \A i \in 1..Len(sz) : sz2[i] = sz[i],
           NEW units \in Seq(Units), Contiguous(sz, units)
    PROVE  /\ Contiguous(sz2, units)
           /\ \A i \in 1..Len(units) : Follow(sz2, units[i]) = Follow(sz, units[i])
<1>1. \A id \in 1..Len(sz) : FrameSize(sz2, id) = FrameSize(sz, id)
  BY DEF FrameSize
<1>2. \A i \in 1..Len(units) : units[i][1] \in 1..Len(sz)
  BY DEF Contiguous, IsUnit
<1>3. \A i \in 1..Len(units) : Follow(sz2, units[i]) = Follow(sz, units[i])
  BY <1>1, <1>2 DEF Follow
<1>4. \A i \in 1..Len(units) : IsUnit(sz2, units[i])
  BY <1>1, <1>2 DEF Contiguous, IsUnit
<1>5. \A i \in 1..(Len(units) - 1) : units[i + 1] = Follow(sz2, units[i])
  <2> TAKE i \in 1..(Len(units) - 1)
  <2>1. i \in 1..Len(units)
    BY LenProperties
  <2> QED  BY <1>3, <2>1 DEF Contiguous
<1> QED  BY <1>1, <1>2, <1>3, <1>4, <1>5 DEF Contiguous

\* What is left of a piece when its beginning has been read is a piece.
LEMMA ContiguousDrop ==
    ASSUME NEW sz, NEW units \in Seq(Units), Contiguous(sz, units), NEW k \in 0..Len(units)
    PROVE  Contiguous(sz, SubSeq(units, k + 1, Len(units)))
<1> DEFINE rest == SubSeq(units, k + 1, Len(units))
<1>1. /\ Len(rest) = Len(units) - k /\ Len(units) \in Nat
      /\ \A i \in 1..Len(rest) : rest[i] = units[k + i]
  BY DropIs
<1> HIDE DEF rest
<1>2. \A i \in 1..Len(rest) : IsUnit(sz, rest[i])
  <2> TAKE i \in 1..Len(rest)
  <2>1. rest[i] = units[k + i] /\ k + i \in 1..Len(units)
    BY <1>1
  <2> QED  BY <2>1 DEF Contiguous
<1>3. \A i \in 1..(Len(rest) - 1) : rest[i + 1] = Follow(sz, rest[i])
  <2> TAKE i \in 1..(Len(rest) - 1)
  <2>1. rest[i] = units[k + i] /\ rest[i + 1] = units[(k + i) + 1]
    BY <1>1
  <2>2. k + i \in 1..(Len(units) - 1)
    BY <1>1
  <2> QED  BY <2>1, <2>2 DEF Contiguous
<1>4. ASSUME NEW i \in 1..Len(rest), NEW d \in Nat, i + d <= Len(rest),
             rest[i][2] + d <= FrameSize(sz, rest[i][1])
      PROVE  rest[i + d] = <<rest[i][1], rest[i][2] + d>>
  <2>1. rest[i] = units[k + i] /\ rest[i + d] = units[(k + i) + d]
    BY <1>1, <1>4
  <2>2. k + i \in 1..Len(units) /\ (k + i) + d <= Len(units)
    BY <1>1, <1>4
  <2> QED  BY <1>4, <2>1, <2>2 DEF Contiguous
<1> QED  BY <1>2, <1>3, <1>4 DEF Contiguous, rest

\* The rest of the frame a piece begins in comes first in it.
LEMMA ContiguousBegins ==
    ASSUME NEW sz \in Seq(Nat),
           NEW units \in Seq(Units), Contiguous(sz, units), units # <<>>,
           NEW k \in 1..Len(units), units[1][2] + k - 1 <= FrameSize(sz, units[1][1])
    PROVE  \A i \in 1..k : units[i] = <<units[1][1], units[1][2] + i - 1>>
<1>1. Len(units) \in Nat /\ 1 \in 1..Len(units)
  BY EmptySeq, LenProperties
<1>2. IsUnit(sz, units[1])
  BY <1>1 DEF Contiguous
<1> SUFFICES ASSUME NEW i \in 1..k PROVE units[i] = <<units[1][1], units[1][2] + i - 1>>
  OBVIOUS
<1>3. i - 1 \in Nat /\ 1 + (i - 1) = i /\ i <= Len(units)
  BY <1>1
<1>4. units[1][2] \in Nat /\ FrameSize(sz, units[1][1]) \in Nat
  BY <1>2, FrameSizeIs DEF IsUnit
<1>5. units[1][2] + (i - 1) <= FrameSize(sz, units[1][1])
  BY <1>4
<1>6. units[1 + (i - 1)] = <<units[1][1], units[1][2] + (i - 1)>>
  BY <1>1, <1>3, <1>5 DEF Contiguous
<1> QED  BY <1>3, <1>4, <1>6

\* all is units and then k units of a frame, of which done come before them.
Joins(sz, all, units, old, last, done, k) ==
    /\ Contiguous(sz, units) /\ old = Len(units) /\ Len(all) = old + k
    /\ last \in 1..Len(sz) /\ done + k <= FrameSize(sz, last)
    /\ units # <<>> => Follow(sz, units[old]) = <<last, done + 1>>
    /\ \A i \in 1..old : all[i] = units[i]
    /\ \A j \in 1..k : all[old + j] = <<last, done + j>>

\* A piece that goes on with units of one frame where it ends is a piece.
LEMMA ContiguousJoin ==
    ASSUME NEW sz \in Seq(Nat), NEW all, NEW units \in Seq(Units), NEW old \in Nat,
           NEW last \in Nat, NEW done \in Nat, NEW k \in Nat \ {0},
           Joins(sz, all, units, old, last, done, k)
    PROVE  Contiguous(sz, all)
<1> DEFINE size == FrameSize(sz, last)
<1>1. size \in Nat /\ done + k <= size
  BY FrameSizeIs DEF Joins
<1> HIDE DEF size
<1>2. /\ Contiguous(sz, units) /\ old = Len(units) /\ last \in 1..Len(sz)
      /\ units # <<>> => Follow(sz, units[old]) = <<last, done + 1>>
      /\ old > 0 => units # <<>>
  BY EmptySeq DEF Joins
<1>3. Len(all) = old + k
  BY DEF Joins
<1>4. /\ \A i \in 1..old : all[i] = units[i]
      /\ \A j \in 1..k : all[old + j] = <<last, done + j>>
  BY DEF Joins
<1>5. \A i \in 1..Len(all) :
         i \in Nat /\ (i \in 1..old \/ \E g \in 1..k : i = old + g)
  <2> TAKE i \in 1..Len(all)
  <2>1. i \in Nat /\ 1 <= i /\ i <= old + k
    BY <1>3
  <2>2. i > old => i - old \in 1..k /\ i = old + (i - old)
    BY <2>1
  <2> QED  BY <2>1, <2>2
<1>6. \A i \in 1..Len(all) : IsUnit(sz, all[i])
  <2> TAKE i \in 1..Len(all)
  <2>1. CASE i \in 1..old
    BY <1>2, <1>4, <2>1 DEF Contiguous
  <2>2. ASSUME NEW g \in 1..k, i = old + g PROVE IsUnit(sz, all[i])
    <3>1. done + g \in Nat /\ done + g >= 1 /\ done + g <= size
      BY <1>1
    <3>2. all[i] = <<last, done + g>>
      BY <1>4, <2>2
    <3> QED  BY <1>2, <3>1, <3>2 DEF IsUnit, Units, size
  <2> QED  BY <1>5, <2>1, <2>2
<1>7. \A i \in 1..(Len(all) - 1) : all[i + 1] = Follow(sz, all[i])
  <2> TAKE i \in 1..(Len(all) - 1)
  <2>1. i \in 1..Len(all) /\ i \in Nat /\ i + 1 <= old + k
    BY <1>3
  <2>2. CASE i < old
    <3>1. i \in 1..old /\ i + 1 \in 1..old /\ i \in 1..(old - 1)
      BY <2>1, <2>2
    <3> QED  BY <1>2, <1>4, <3>1 DEF Contiguous
  <2>3. CASE i = old
    <3>1. i \in 1..old /\ 1 \in 1..k
      BY <2>1, <2>3
    <3>2. all[i] = units[old] /\ all[i + 1] = <<last, done + 1>> /\ old > 0
      BY <1>4, <2>1, <2>3, <3>1
    <3> QED  BY <1>2, <3>2
  <2>4. ASSUME NEW g \in 1..k, i = old + g PROVE all[i + 1] = Follow(sz, all[i])
    <3>1. g + 1 \in 1..k /\ i + 1 = old + (g + 1)
      BY <2>1, <2>4
    <3>2. all[i] = <<last, done + g>> /\ all[i + 1] = <<last, done + (g + 1)>>
      BY <1>4, <2>4, <3>1
    <3>3. done + g < size /\ done + (g + 1) = (done + g) + 1
      BY <1>1, <3>1
    <3> QED  BY <3>2, <3>3 DEF Follow, size
  <2> QED  BY <1>5, <2>1, <2>2, <2>3, <2>4
<1>8. ASSUME NEW i \in 1..Len(all), NEW d \in Nat, i + d <= Len(all),
             all[i][2] + d <= FrameSize(sz, all[i][1])
      PROVE  all[i + d] = <<all[i][1], all[i][2] + d>>
  <2>1. i \in Nat /\ 1 <= i /\ i + d <= old + k
    BY <1>3, <1>8
  <2>2. CASE i + d <= old
    <3>1. i \in 1..old /\ i + d \in 1..old
      BY <2>1, <2>2
    <3>2. units[i] = all[i] /\ units[i + d] = all[i + d]
      BY <1>4, <3>1
    <3>3. i \in 1..Len(units) /\ i + d <= Len(units)
      BY <1>2, <2>2, <3>1
    <3> QED  BY <1>2, <1>8, <3>2, <3>3 DEF Contiguous
  <2>3. ASSUME NEW g \in 1..k, i = old + g
        PROVE  all[i + d] = <<all[i][1], all[i][2] + d>>
    <3>1. g + d \in 1..k /\ i + d = old + (g + d) /\ done + (g + d) = (done + g) + d
      BY <2>1, <2>3
    <3>2. all[i] = <<last, done + g>> /\ all[i + d] = <<last, done + (g + d)>>
      BY <1>4, <2>3, <3>1
    <3> QED  BY <3>1, <3>2
  <2>4. CASE i <= old /\ i + d > old
    <3>1. i \in 1..old
      BY <2>1, <2>4
    <3>2. units[i] = all[i] /\ IsUnit(sz, units[i])
      BY <1>2, <1>4, <3>1 DEF Contiguous
    <3>3. PICK id \in 1..Len(sz), at \in Nat : units[i] = <<id, at>>
      <4>1. units[i] \in Nat \X Nat /\ units[i][1] \in 1..Len(sz)
        BY <3>2 DEF IsUnit, Units
      <4>2. units[i] = <<units[i][1], units[i][2]>> /\ units[i][2] \in Nat
        BY <4>1
      <4> QED  BY <4>1, <4>2
    <3>4. FrameSize(sz, id) \in Nat /\ at + d <= FrameSize(sz, id)
      BY <1>8, <3>2, <3>3, FrameSizeIs
    <3>5. PICK g \in Nat, h \in 1..k : old = i + g /\ d = g + h
      <4>1. old - i \in Nat /\ old = i + (old - i)
        BY <2>1, <2>4
      <4>2. d - (old - i) \in 1..k /\ d = (old - i) + (d - (old - i))
        BY <2>1, <2>4
      <4> QED  BY <4>1, <4>2
    <3>6. at + g < FrameSize(sz, id)
      BY <3>4, <3>5
    <3>7. units[i + g] = <<id, at + g>>
      <4>1. units[i][1] = id /\ units[i][2] = at
        BY <3>3
      <4>2. at + g <= FrameSize(sz, id)
        BY <3>4, <3>6
      <4>3. i \in 1..Len(units) /\ i + g <= Len(units)
        BY <1>2, <3>1, <3>5
      <4> QED  BY <1>2, <4>1, <4>2, <4>3 DEF Contiguous
    <3>8. Follow(sz, units[old]) = <<id, (at + g) + 1>>
      BY <3>5, <3>6, <3>7 DEF Follow
    <3>9. id = last /\ (at + g) + 1 = done + 1
      <4>1. units # <<>>
        BY <1>2, <2>1, <2>4
      <4> QED  BY <1>2, <3>8, <4>1
    <3>10. done + h = at + d
      BY <3>5, <3>9
    <3>11. all[i + d] = <<last, done + h>>
      <4>1. i + d = old + h
        BY <2>1, <3>5
      <4> QED  BY <1>4, <4>1
    <3> QED  BY <3>2, <3>3, <3>9, <3>10, <3>11
  <2>5. CASE i <= old
    BY <2>1, <2>2, <2>4, <2>5
  <2>6. i <= old \/ \E g \in 1..k : i = old + g
    BY <1>5
  <2> QED  BY <2>3, <2>5, <2>6
<1> QED  BY <1>6, <1>7, <1>8 DEF Contiguous

-----------------------------------------------------------------------------
(* The invariant. *)

Typed ==
    /\ kind \in {"tcp", "sctp"}
    /\ sizes \in Seq(Sizes) /\ Len(sizes) <= MaxMsgs
    /\ left \in Seq(Units) /\ wire \in Seq(Units) /\ got \in Seq(Units)
    /\ returned \in 0..Len(sizes)
    /\ wopen \in BOOLEAN /\ ropen \in BOOLEAN /\ reset \in BOOLEAN
    /\ Len(wire) <= Capacity
    /\ Len(got) < IF frame_len = Unknown THEN HeaderSize ELSE frame_len
    /\ frame_len \in {Unknown} \cup 0..Limit
    /\ delivered \in Seq(Message \cup {Garbage})

\* What send has still to write is the end of the last frame.
LeftOK == left # <<>> =>
    /\ wopen /\ Len(sizes) > 0 /\ Len(left) <= FrameSize(sizes, Len(sizes))
    /\ \A i \in 1..Len(left) :
           left[i] = <<Len(sizes), FrameSize(sizes, Len(sizes)) - Len(left) + i>>

\* The receiver is before the length, or in the body, of the frame that comes
\* after those it has delivered.
ReadBefore == IF frame_len = Unknown THEN 0 ELSE HeaderSize
Expected   == <<Len(delivered) + 1, ReadBefore + Len(got) + 1>>

GotOK ==
    /\ \A i \in 1..Len(got) : got[i] = <<Len(delivered) + 1, ReadBefore + i>>
    /\ frame_len # Unknown => /\ Len(delivered) < Len(sizes)
                              /\ frame_len = Nonce + sizes[Len(delivered) + 1]

\* The unit after the wire's last, and the one send writes next.
WireEnd == IF wire = <<>> THEN Expected ELSE Follow(sizes, wire[Len(wire)])
ToWrite == IF left = <<>> THEN <<Len(sizes) + 1, 1>> ELSE left[1]

\* The wire holds the stream from where the receiver is to where the sender
\* is, or to where the sender stopped.
StreamOK ==
    ropen => /\ GotOK
             /\ Contiguous(sizes, wire)
             /\ wire # <<>> => wire[1] = Expected
             /\ wopen => WireEnd = ToWrite

FrameInv == Typed /\ LeftOK /\ StreamOK

LEMMA TypedIs ==
    ASSUME Typed
    PROVE  /\ sizes \in Seq(Nat) /\ Len(sizes) \in Nat /\ DOMAIN sizes = 1..Len(sizes)
           /\ \A i \in 1..Len(sizes) : sizes[i] \in Sizes /\ sizes[i] \in Nat
           /\ Len(left) \in Nat /\ Len(wire) \in Nat /\ Len(got) \in Nat
           /\ Len(delivered) \in Nat
           /\ left = <<>> <=> Len(left) = 0
           /\ wire = <<>> <=> Len(wire) = 0
<1>1. sizes \in Seq(Nat)
  BY UnitsAssumption, SeqMonotonic DEF Typed
<1> QED  BY <1>1, LenProperties, ElementOfSeq, EmptySeq, UnitsAssumption DEF Typed

LEMMA InitFrame == Init => FrameInv
<1> SUFFICES ASSUME Init PROVE FrameInv
  OBVIOUS
<1>1. Typed
  <2>1. /\ sizes = <<>> /\ left = <<>> /\ wire = <<>> /\ got = <<>> /\ delivered = <<>>
        /\ kind \in {"tcp", "sctp"} /\ returned = 0 /\ frame_len = Unknown
        /\ wopen = TRUE /\ ropen = TRUE /\ reset = FALSE
    BY DEF Init
  <2>2. Len(<<>>) = 0 /\ \A S : <<>> \in Seq(S)
    BY EmptySeq
  <2>3. 0 < HeaderSize /\ 0 <= Capacity /\ 0 <= MaxMsgs /\ 0 \in 0..0
    BY UnitsAssumption
  <2> QED  BY <2>1, <2>2, <2>3 DEF Typed
<1>2. LeftOK
  BY DEF Init, LeftOK
<1>3. StreamOK
  BY EmptySeq
     DEF Init, StreamOK, GotOK, Contiguous, WireEnd, ToWrite, Expected, ReadBefore, Unknown
<1> QED  BY <1>1, <1>2, <1>3 DEF FrameInv

-----------------------------------------------------------------------------
(* The sender. *)

\* One write takes some of what is left, never more.
LEMMA PiecesAre ==
    ASSUME Typed
    PROVE  Pieces \subseteq 1..Len(left)
<1> DEFINE header == {i \in DOMAIN left : left[i][2] <= HeaderSize}
<1>1. DOMAIN left = 1..Len(left) /\ Len(left) \in Nat
  BY LenProperties DEF Typed
<1>2. /\ IsFiniteSet(1..Len(left)) /\ Cardinality(1..Len(left)) = Len(left)
      /\ header \subseteq 1..Len(left)
  <2>1. IsFiniteSet(1..Len(left)) /\ Cardinality(1..Len(left)) = Len(left)
    <3>1. \A m \in Nat : IsFiniteSet(1..m) /\ Cardinality(1..m) = m
      <4> TAKE m \in Nat
      <4>1. IsFiniteSet(1..m) /\ Cardinality(1..m) = IF 1 > m THEN 0 ELSE m - 1 + 1
        BY FS_Interval
      <4> QED  BY <4>1
    <3> QED  BY <1>1, <3>1
  <2>2. header \subseteq 1..Len(left)
    BY <1>1
  <2> QED  BY <2>1, <2>2
<1> HIDE DEF header
<1>3. Cardinality(header) \in Nat /\ Cardinality(header) <= Len(left)
  BY <1>2, FS_Subset, FS_CardinalityType
<1>4. HeaderLeft \in 0..Len(left)
  BY <1>1, <1>3 DEF HeaderLeft, header
<1> QED  BY <1>1, <1>4 DEF Pieces

LEMMA CallSendStep ==
    ASSUME FrameInv, NEW size \in Sizes, CallSend(size)
    PROVE  FrameInv'
<1> DEFINE n == Len(sizes)
           frame == Frame(n + 1, size)
           total == HeaderSize + Nonce + size
<1>1. /\ n \in Nat /\ total \in Nat /\ total > 0 /\ Typed /\ sizes \in Seq(Nat)
      /\ wopen /\ left = <<>> /\ n < MaxMsgs
  BY TypedIs, UnitsAssumption DEF FrameInv, CallSend
<1>2. /\ sizes' \in Seq(Sizes) /\ sizes' \in Seq(Nat) /\ Len(sizes') = n + 1
      /\ \A i \in 1..n : sizes'[i] = sizes[i]
      /\ sizes'[n + 1] = size
  <2>1. size \in Nat /\ sizes' = Append(sizes, size) /\ sizes \in Seq(Sizes)
    BY UnitsAssumption DEF CallSend, FrameInv, Typed
  <2> QED  BY <1>1, <2>1, AppendProperties
<1>3. /\ left' \in Seq(Units) /\ Len(left') = total /\ left' # <<>>
      /\ \A i \in 1..total : left'[i] = <<n + 1, i>>
  <2>1. left' = [i \in 1..total |-> <<n + 1, i>>]
    BY DEF CallSend, Frame
  <2>2. \A i \in 1..total : <<n + 1, i>> \in Units
    BY <1>1 DEF Units
  <2>3. left' \in Seq(Units)
    BY <1>1, <2>1, <2>2, FunctionIsSeq
  <2>4. Len(left') = total
    BY <1>1, <2>1
  <2> QED  BY <1>1, <2>1, <2>3, <2>4, EmptySeq
<1>4. UNCHANGED <<kind, returned, wopen, wire, reset, ropen, got, frame_len, delivered>>
  BY DEF CallSend, receiver
<1> HIDE DEF n, frame, total
<1>5. Typed'
  BY <1>1, <1>2, <1>3, <1>4, UnitsAssumption DEF Typed, n
<1>6. FrameSize(sizes', n + 1) = total
  BY <1>2 DEF FrameSize, total
<1>7. LeftOK'
  BY <1>1, <1>2, <1>3, <1>4, <1>6 DEF LeftOK
<1>8. StreamOK'
  <2> SUFFICES ASSUME ropen' PROVE StreamOK'
    BY DEF StreamOK
  <2>1. /\ GotOK /\ Contiguous(sizes, wire) /\ wire \in Seq(Units)
        /\ wire # <<>> => wire[1] = Expected
        /\ WireEnd = <<n + 1, 1>>
    BY <1>1, <1>4 DEF FrameInv, StreamOK, ToWrite, Typed, n
  <2>2. /\ Contiguous(sizes', wire)
        /\ \A i \in 1..Len(wire) : Follow(sizes', wire[i]) = Follow(sizes, wire[i])
    <3>1. Len(sizes) <= Len(sizes') /\ \A i \in 1..Len(sizes) : sizes'[i] = sizes[i]
      BY <1>1, <1>2 DEF n
    <3> QED  BY <1>1, <1>2, <2>1, <3>1, ContiguousStays
  <2>3. GotOK'
    <3>1. Len(delivered) \in Nat
      BY <1>1, TypedIs
    <3>2. \A i \in 1..Len(got') : got'[i] = <<Len(delivered') + 1, ReadBefore' + i>>
      BY <1>4, <2>1 DEF GotOK, ReadBefore
    <3>3. ASSUME frame_len' # Unknown
          PROVE  /\ Len(delivered') < Len(sizes')
                 /\ frame_len' = Nonce + sizes'[Len(delivered') + 1]
      <4>1. Len(delivered) < n /\ frame_len = Nonce + sizes[Len(delivered) + 1]
        BY <1>4, <2>1, <3>3 DEF GotOK, n
      <4>2. Len(delivered) + 1 \in 1..n
        BY <1>1, <3>1, <4>1
      <4> QED  BY <1>1, <1>2, <1>4, <3>1, <4>1, <4>2
    <3> QED  BY <3>2, <3>3 DEF GotOK
  <2>4. Expected' = Expected
    BY <1>4 DEF Expected, ReadBefore
  <2>5. WireEnd' = WireEnd
    <3>1. wire # <<>> => Len(wire) \in 1..Len(wire)
      BY <1>1, TypedIs
    <3> QED  BY <1>4, <2>2, <2>4, <3>1 DEF WireEnd
  <2>6. ToWrite' = <<n + 1, 1>>
    BY <1>1, <1>3 DEF ToWrite
  <2> QED  BY <1>4, <2>1, <2>2, <2>3, <2>4, <2>5, <2>6 DEF StreamOK
<1> QED  BY <1>5, <1>7, <1>8 DEF FrameInv

LEMMA WriteStep ==
    ASSUME FrameInv, NEW k \in 1..Capacity, Write(k)
    PROVE  FrameInv'
<1> DEFINE n     == Len(sizes)
           total == FrameSize(sizes, n)
           done  == total - Len(left)
           more  == SubSeq(left, 1, k)
<1>1. /\ Typed /\ k \in 1..Len(left) /\ k \in Nat \ {0} /\ Len(left) \in Nat /\ left # <<>>
      /\ wopen /\ Len(wire) + k <= Capacity
      /\ n \in 1..Len(sizes) /\ n \in Nat /\ sizes \in Seq(Nat)
      /\ wire \in Seq(Units) /\ left \in Seq(Units)
  <2>1. Typed /\ k \in 1..Len(left) /\ Len(wire) + k <= Capacity
    BY PiecesAre DEF Write, FrameInv
  <2>2. left # <<>> /\ Len(left) \in Nat /\ sizes \in Seq(Nat) /\ n \in Nat /\ k \in Nat \ {0}
    BY <2>1, TypedIs
  <2> QED  BY <2>1, <2>2 DEF FrameInv, LeftOK, Typed
<1>2. /\ total \in Nat /\ done \in Nat /\ done + Len(left) = total
      /\ \A i \in 1..Len(left) : left[i] = <<n, done + i>>
  <2>1. total \in Nat /\ Len(left) <= total
    BY <1>1, FrameSizeIs DEF FrameInv, LeftOK
  <2>2. \A i \in 1..Len(left) : left[i] = <<n, done + i>>
    BY <1>1 DEF FrameInv, LeftOK
  <2> QED  BY <1>1, <2>1, <2>2
<1>3. /\ left' \in Seq(Units) /\ Len(left') = Len(left) - k
      /\ \A i \in 1..(Len(left) - k) : left'[i] = left[k + i]
  <2>1. left' = SubSeq(left, k + 1, Len(left)) /\ k \in 0..Len(left)
    BY <1>1 DEF Write
  <2> QED  BY <1>1, <2>1, DropIs
<1>4. /\ more \in Seq(Units) /\ Len(more) = k
      /\ \A i \in 1..k : more[i] = left[i]
  <2>1. k \in 0..Len(left)
    BY <1>1
  <2> QED  BY <1>1, <2>1, TakeIs
<1>5. /\ wire \o more \in Seq(Units) /\ Len(wire \o more) = Len(wire) + k
      /\ \A i \in 1..(Len(wire) + k) : (wire \o more)[i] =
             IF i <= Len(wire) THEN wire[i] ELSE more[i - Len(wire)]
  BY <1>1, <1>4, ConcatProperties
<1>6. /\ UNCHANGED <<kind, sizes, wopen, reset, ropen, got, frame_len, delivered>>
      /\ wire' = IF ropen THEN wire \o more ELSE wire
      /\ returned' \in {returned, n}
  BY DEF Write, receiver
<1>7. Len(wire) \in Nat
  BY <1>1, TypedIs
<1> HIDE DEF n, total, done, more
<1>8. Typed'
  <2>1. wire' \in Seq(Units) /\ Len(wire') <= Capacity
    BY <1>1, <1>5, <1>6 DEF Typed
  <2>2. returned' \in 0..Len(sizes)
    BY <1>1, <1>6 DEF Typed, n
  <2> QED  BY <1>1, <1>3, <1>6, <2>1, <2>2 DEF Typed
<1>9. LeftOK'
  <2> SUFFICES ASSUME left' # <<>> PROVE LeftOK'
    BY DEF LeftOK
  <2>1. Len(left') <= total /\ Len(sizes') > 0 /\ wopen'
    BY <1>1, <1>2, <1>3, <1>6
  <2>2. ASSUME NEW i \in 1..Len(left') PROVE left'[i] = <<n, total - Len(left') + i>>
    <3>1. k + i \in 1..Len(left) /\ i \in 1..(Len(left) - k)
      BY <1>1, <1>3
    <3>2. left'[i] = <<n, done + (k + i)>>
      BY <1>2, <1>3, <3>1
    <3>3. done + (k + i) = total - Len(left') + i
      <4>1. /\ i \in Nat /\ k \in Nat /\ done \in Nat /\ Len(left) \in Nat /\ total \in Nat
            /\ done + Len(left) = total /\ Len(left') = Len(left) - k
        BY <1>1, <1>2, <1>3
      <4>2. PICK b \in Nat : b = Len(left)
        BY <4>1
      <4>3. done + b = total /\ Len(left') = b - k
        BY <4>1, <4>2
      <4> QED  BY <4>1, <4>3
    <3> QED  BY <3>2, <3>3
  <2> QED  BY <1>6, <2>1, <2>2 DEF LeftOK, n, total
<1>10. StreamOK'
  <2> SUFFICES ASSUME ropen' PROVE StreamOK'
    BY DEF StreamOK
  <2>1. /\ GotOK /\ Contiguous(sizes, wire)
        /\ wire # <<>> => wire[1] = Expected
        /\ WireEnd = left[1]
    BY <1>1, <1>6 DEF FrameInv, StreamOK, ToWrite
  <2>2. GotOK' /\ Expected' = Expected
    BY <1>6, <2>1 DEF GotOK, ReadBefore, Expected
  <2>3. wire' = wire \o more
    BY <1>6
  <2>4. left[1] = <<n, done + 1>>
    BY <1>1, <1>2
  <2>5. /\ \A i \in 1..Len(wire) : wire'[i] = wire[i]
        /\ \A j \in 1..k : wire'[Len(wire) + j] = <<n, done + j>>
    <3>1. ASSUME NEW j \in 1..k PROVE wire'[Len(wire) + j] = <<n, done + j>>
      <4>1. /\ Len(wire) + j \in 1..(Len(wire) + k) /\ ~(Len(wire) + j <= Len(wire))
            /\ (Len(wire) + j) - Len(wire) = j /\ j \in 1..Len(left)
        BY <1>1, <1>7
      <4> QED  BY <1>2, <1>4, <1>5, <2>3, <4>1
    <3>2. ASSUME NEW i \in 1..Len(wire) PROVE wire'[i] = wire[i]
      <4>1. i \in 1..(Len(wire) + k) /\ i <= Len(wire)
        BY <1>1, <1>7
      <4> QED  BY <1>5, <2>3, <4>1
    <3> QED  BY <3>1, <3>2
  <2>6. Contiguous(sizes, wire')
    <3>1. wire # <<>> => Follow(sizes, wire[Len(wire)]) = <<n, done + 1>>
      BY <2>1, <2>4 DEF WireEnd
    <3>2. done + k <= FrameSize(sizes, n)
      BY <1>1, <1>2 DEF total
    <3>3. Joins(sizes, wire', wire, Len(wire), n, done, k)
      BY <1>1, <1>5, <2>1, <2>3, <2>5, <3>1, <3>2 DEF Joins
    <3> QED  BY <1>1, <1>2, <1>7, <3>3, ContiguousJoin
  <2>7. wire'[1] = Expected
    <3>1. CASE wire = <<>>
      <4>1. Len(wire) = 0 /\ 1 \in 1..k /\ Len(wire) + 1 = 1
        BY <1>1, <3>1, TypedIs
      <4> QED  BY <2>1, <2>4, <2>5, <3>1, <4>1 DEF WireEnd
    <3>2. CASE wire # <<>>
      <4>1. 1 \in 1..Len(wire)
        BY <1>1, <3>2, TypedIs
      <4> QED  BY <2>1, <2>5, <3>2, <4>1
    <3> QED  BY <3>1, <3>2
  <2>8. WireEnd' = ToWrite'
    <3>1. wire' # <<>> /\ wire'[Len(wire')] = <<n, done + k>> /\ k \in 1..k
      <4>1. Len(wire') = Len(wire) + k /\ Len(wire') > 0 /\ k \in 1..k
        BY <1>1, <1>5, <1>7, <2>3
      <4>2. wire' # <<>>
        BY <4>1, EmptySeq
      <4> QED  BY <2>5, <4>1, <4>2
    <3>2. WireEnd' = Follow(sizes, <<n, done + k>>)
      BY <1>6, <3>1 DEF WireEnd
    <3>3. CASE k = Len(left)
      <4>1. left' = <<>> /\ done + k = total
        BY <1>2, <1>3, <3>3, EmptySeq
      <4>2. Follow(sizes, <<n, done + k>>) = <<n + 1, 1>>
        BY <1>2, <4>1 DEF Follow, total
      <4> QED  BY <1>6, <3>2, <4>1, <4>2 DEF ToWrite, n
    <3>4. CASE k # Len(left)
      <4>1. Len(left) - k \in Nat \ {0} /\ 1 \in 1..(Len(left) - k) /\ k + 1 \in 1..Len(left)
            /\ done + k < total
        BY <1>1, <1>2, <3>4
      <4>2. left' # <<>> /\ left'[1] = <<n, done + (k + 1)>>
        BY <1>2, <1>3, <4>1, EmptySeq
      <4>3. Follow(sizes, <<n, done + k>>) = <<n, (done + k) + 1>>
        BY <4>1 DEF Follow, total
      <4>4. (done + k) + 1 = done + (k + 1)
        BY <1>1, <1>2
      <4> QED  BY <3>2, <4>2, <4>3, <4>4 DEF ToWrite
    <3> QED  BY <3>3, <3>4
  <2> QED  BY <1>6, <2>2, <2>6, <2>7, <2>8 DEF StreamOK
<1> QED  BY <1>8, <1>9, <1>10 DEF FrameInv

LEMMA SendEndsStep ==
    ASSUME FrameInv, SendFails \/ SenderCloses
    PROVE  FrameInv'
<1>1. /\ UNCHANGED <<kind, sizes, returned, ropen, got, frame_len, delivered>>
      /\ left' = <<>> /\ wire' \in {wire, <<>>} /\ reset' \in {reset, TRUE}
      /\ wopen' \in {wopen, FALSE}
  BY DEF SendFails, SenderCloses, receiver
<1>2. Typed'
  <2>1. <<>> \in Seq(Units) /\ Len(<<>>) = 0 /\ 0 <= Capacity
    BY EmptySeq, UnitsAssumption
  <2> QED  BY <1>1, <2>1 DEF FrameInv, Typed
<1>3. LeftOK'
  BY <1>1 DEF LeftOK
<1>4. StreamOK'
  <2> SUFFICES ASSUME ropen' PROVE StreamOK'
    BY DEF StreamOK
  <2>1. /\ GotOK /\ Contiguous(sizes, wire) /\ ~wopen'
        /\ wire # <<>> => wire[1] = Expected
    BY <1>1 DEF FrameInv, StreamOK, SendFails, SenderCloses
  <2>2. GotOK' /\ Expected' = Expected
    BY <1>1, <2>1 DEF GotOK, ReadBefore, Expected
  <2>3. Contiguous(sizes, <<>>)
    BY EmptySeq DEF Contiguous
  <2> QED  BY <1>1, <2>1, <2>2, <2>3 DEF StreamOK
<1> QED  BY <1>2, <1>3, <1>4 DEF FrameInv

-----------------------------------------------------------------------------
(* The receiver. *)

\* What one read adds to got is the next units of the frame recieve is in.
LEMMA ReadIs ==
    ASSUME FrameInv, ropen, NEW k \in 1..Len(wire),
           Len(got) + k <= IF frame_len = Unknown THEN HeaderSize ELSE frame_len
    PROVE  LET id    == Len(delivered) + 1
               units == got \o SubSeq(wire, 1, k)
               at    == ReadBefore + (Len(got) + k)
           IN  /\ id \in 1..Len(sizes)
               /\ units \in Seq(Units) /\ Len(units) = Len(got) + k
               /\ \A i \in 1..(Len(got) + k) : units[i] = <<id, ReadBefore + i>>
               /\ \A i \in 1..k : wire[i] = <<id, ReadBefore + (Len(got) + i)>>
               /\ wire[k] = <<id, at>> /\ at <= FrameSize(sizes, id)
<1> DEFINE id    == Len(delivered) + 1
           units == got \o SubSeq(wire, 1, k)
           gotten == Len(got)
           size  == FrameSize(sizes, id)
<1>1. /\ Typed /\ GotOK /\ Contiguous(sizes, wire) /\ wire \in Seq(Units) /\ got \in Seq(Units)
      /\ Len(wire) \in Nat /\ gotten \in Nat /\ sizes \in Seq(Nat) /\ Len(delivered) \in Nat
      /\ k \in Nat \ {0} /\ wire # <<>> /\ wire[1] = Expected
  <2>1. Typed /\ Len(wire) \in Nat /\ gotten \in Nat /\ sizes \in Seq(Nat) /\ Len(delivered) \in Nat
    BY TypedIs DEF FrameInv
  <2>2. k \in Nat \ {0} /\ wire # <<>>
    BY <2>1, EmptySeq
  <2> QED  BY <2>1, <2>2 DEF FrameInv, StreamOK, Typed
<1>2. id \in 1..Len(sizes) /\ size \in Nat /\ size = HeaderSize + (Nonce + sizes[id])
      /\ sizes[id] \in Nat
  <2>1. 1 \in 1..Len(wire)
    BY <1>1
  <2>2. IsUnit(sizes, Expected)
    BY <1>1, <2>1 DEF Contiguous
  <2>3. id \in 1..Len(sizes)
    BY <2>2 DEF IsUnit, Expected
  <2>4. sizes[id] \in Nat
    BY <1>1, <2>3, TypedIs
  <2> QED  BY <1>1, <2>3, <2>4, FrameSizeIs, UnitsAssumption DEF FrameSize
<1>3. ReadBefore \in Nat /\ ReadBefore + (gotten + k) <= size
  <2>1. CASE frame_len = Unknown
    <3>1. gotten + k <= HeaderSize /\ ReadBefore = 0 /\ HeaderSize <= size
      <4>1. HeaderSize <= size
        BY <1>2, UnitsAssumption
      <4> QED  BY <2>1, <4>1 DEF ReadBefore
    <3> QED  BY <1>1, <1>2, <3>1, UnitsAssumption
  <2>2. CASE frame_len # Unknown
    <3>1. gotten + k <= Nonce + sizes[id] /\ ReadBefore = HeaderSize
      BY <1>1, <2>2 DEF GotOK, ReadBefore
    <3> QED  BY <1>1, <1>2, <3>1, UnitsAssumption
  <2> QED  BY <2>1, <2>2
<1>4. /\ SubSeq(wire, 1, k) \in Seq(Units) /\ Len(SubSeq(wire, 1, k)) = k
      /\ \A i \in 1..k : SubSeq(wire, 1, k)[i] = wire[i]
  <2>1. k \in 0..Len(wire)
    BY <1>1
  <2> QED  BY <1>1, <2>1, TakeIs
<1>5. /\ units \in Seq(Units) /\ Len(units) = gotten + k
      /\ \A i \in 1..(gotten + k) :
             units[i] = IF i <= gotten THEN got[i] ELSE SubSeq(wire, 1, k)[i - gotten]
  BY <1>1, <1>4, ConcatProperties
<1>6. \A i \in 1..k : wire[i] = <<id, ReadBefore + gotten + 1 + i - 1>>
  <2>1. wire[1][1] = id /\ wire[1][2] = ReadBefore + gotten + 1
    BY <1>1 DEF Expected
  <2>2. ReadBefore + gotten + 1 + k - 1 <= size
    BY <1>1, <1>3
  <2>3. wire[1][2] + k - 1 <= FrameSize(sizes, wire[1][1])
    BY <2>1, <2>2
  <2> QED  BY <1>1, <2>1, <2>3, ContiguousBegins
<1>7. \A i \in 1..gotten : got[i] = <<id, ReadBefore + i>>
  BY <1>1 DEF GotOK
<1> HIDE DEF id, units, gotten, size
<1>8. ASSUME NEW i \in 1..(gotten + k) PROVE units[i] = <<id, ReadBefore + i>>
  <2>1. CASE i <= gotten
    <3>1. i \in 1..gotten
      BY <1>1, <2>1
    <3> QED  BY <1>5, <1>7, <2>1, <3>1
  <2>2. CASE ~(i <= gotten)
    <3>1. PICK j \in 1..k : i = gotten + j /\ i - gotten = j
      <4>1. i - gotten \in 1..k /\ i = gotten + (i - gotten)
        BY <1>1, <2>2
      <4> QED  BY <4>1
    <3>2. units[i] = <<id, ReadBefore + gotten + 1 + j - 1>>
      BY <1>4, <1>5, <1>6, <2>2, <3>1
    <3>3. ReadBefore + gotten + 1 + j - 1 = ReadBefore + i
      BY <1>1, <1>3, <3>1
    <3> QED  BY <3>2, <3>3
  <2> QED  BY <2>1, <2>2
<1>9. \A i \in 1..k : wire[i] = <<id, ReadBefore + (gotten + i)>>
  <2> TAKE i \in 1..k
  <2>1. ReadBefore + gotten + 1 + i - 1 = ReadBefore + (gotten + i)
    BY <1>1, <1>3
  <2> QED  BY <1>6, <2>1
<1>10. k \in 1..k
  BY <1>1
<1> QED  BY <1>2, <1>3, <1>5, <1>8, <1>9, <1>10 DEF id, units, gotten, size

\* The wire loses what was read, and begins where the receiver now is.
LEMMA ReadKeepsStream ==
    ASSUME FrameInv, ropen, NEW k \in 1..Len(wire), sender' = sender,
           wire' = SubSeq(wire, k + 1, Len(wire)),
           GotOK', Expected' = Follow(sizes, wire[k])
    PROVE  /\ wire' \in Seq(Units) /\ Len(wire') <= Capacity
           /\ LeftOK' /\ StreamOK'
<1>1. /\ wire \in Seq(Units) /\ Len(wire) \in Nat /\ Len(wire) <= Capacity
      /\ k \in 0..Len(wire) /\ k \in Nat
      /\ Contiguous(sizes, wire)
      /\ wopen => WireEnd = ToWrite
      /\ wire # <<>> /\ LeftOK
  BY TypedIs DEF FrameInv, StreamOK, Typed
<1>2. /\ wire' \in Seq(Units) /\ Len(wire') = Len(wire) - k
      /\ \A i \in 1..(Len(wire) - k) : wire'[i] = wire[k + i]
  BY <1>1, DropIs
<1>3. sizes' = sizes /\ left' = left /\ wopen' = wopen
  BY DEF sender
<1>4. Contiguous(sizes, wire')
  <2>1. Contiguous(sizes, SubSeq(wire, k + 1, Len(wire)))
    BY <1>1, ContiguousDrop
  <2> QED  BY <2>1, Zenon
<1>5. wire' # <<>> => wire'[1] = Expected'
  <2> SUFFICES ASSUME wire' # <<>> PROVE wire'[1] = Expected'
    OBVIOUS
  <2>1. 1 \in 1..(Len(wire) - k) /\ k \in 1..(Len(wire) - 1)
    <3>1. Len(wire') \in Nat \ {0}
      BY <1>2, EmptySeq
    <3> QED  BY <1>1, <1>2, <3>1
  <2>2. wire'[1] = wire[k + 1]
    BY <1>2, <2>1
  <2>3. wire[k + 1] = Follow(sizes, wire[k])
    BY <1>1, <2>1 DEF Contiguous
  <2> QED  BY <2>2, <2>3
<1>6. WireEnd' = WireEnd
  <2>1. CASE wire' = <<>>
    <3>1. k = Len(wire)
      <4>1. Len(wire') = 0
        BY <2>1, EmptySeq
      <4>2. Len(wire) - k = 0
        BY <1>2, <4>1
      <4> QED  BY <1>1, <4>2
    <3> QED  BY <1>1, <2>1, <3>1 DEF WireEnd
  <2>2. CASE wire' # <<>>
    <3>1. Len(wire') \in Nat \ {0}
      BY <1>2, <2>2, EmptySeq
    <3>2. Len(wire') \in 1..(Len(wire) - k) /\ k + Len(wire') = Len(wire)
      BY <1>1, <1>2, <3>1
    <3>3. wire'[Len(wire')] = wire[Len(wire)]
      BY <1>2, <3>2
    <3> QED  BY <1>1, <1>3, <2>2, <3>3 DEF WireEnd
  <2> QED  BY <2>1, <2>2
<1>7. LeftOK' /\ ToWrite' = ToWrite
  BY <1>1, <1>3 DEF LeftOK, ToWrite
<1>8. Len(wire') <= Capacity
  BY <1>1, <1>2, UnitsAssumption
<1> QED  BY <1>1, <1>2, <1>3, <1>4, <1>5, <1>6, <1>7, <1>8 DEF StreamOK

LEMMA EndSessionStep ==
    ASSUME FrameInv, EndSession, UNCHANGED <<sender, reset>>
    PROVE  FrameInv'
<1>1. /\ UNCHANGED <<kind, sizes, left, returned, wopen, reset, delivered>>
      /\ ropen' = FALSE /\ wire' = <<>> /\ got' = <<>> /\ frame_len' = Unknown
  BY DEF EndSession, sender
<1>2. <<>> \in Seq(Units) /\ Len(<<>>) = 0 /\ 0 <= Capacity /\ 0 < HeaderSize
  BY EmptySeq, UnitsAssumption
<1> QED  BY <1>1, <1>2 DEF FrameInv, Typed, LeftOK, StreamOK

\* A whole header names the length of its frame, and nothing else.
LEMMA LengthsAre ==
    ASSUME Typed, NEW units \in Seq(Units), Len(units) = HeaderSize,
           NEW id \in 1..Len(sizes), \A i \in 1..HeaderSize : units[i] = <<id, i>>
    PROVE  LengthsIn(units) = {Nonce + sizes[id]}
<1>1. units = [k \in 1..HeaderSize |-> <<id, k>>]
  BY LenProperties
<1>2. units[1][1] = id
  <2>1. 1 \in 1..HeaderSize
    BY UnitsAssumption
  <2> QED  BY <2>1
<1>3. id \in DOMAIN sizes
  BY TypedIs
<1> QED  BY <1>1, <1>2, <1>3 DEF LengthsIn

\* A whole body deciphers to its message.
LEMMA DecryptedIs ==
    ASSUME Typed, NEW units \in Seq(Units), NEW id \in 1..Len(sizes),
           Len(units) = Nonce + sizes[id],
           \A i \in 1..Len(units) : units[i] = <<id, HeaderSize + i>>
    PROVE  Decrypted(units) = [id |-> id, size |-> sizes[id]]
<1>1. units = [k \in 1..(Nonce + sizes[id]) |-> <<id, HeaderSize + k>>]
  BY LenProperties
<1>2. id \in DOMAIN sizes /\ sizes[id] \in Nat /\ Nonce \in Nat \ {0}
  BY TypedIs, UnitsAssumption
<1>3. units[1][1] = id
  <2>1. 1 \in 1..Len(units)
    BY <1>2
  <2> QED  BY <2>1
<1>4. Len(units) - Nonce = sizes[id]
  BY <1>2
<1> QED  BY <1>1, <1>2, <1>3, <1>4 DEF Decrypted

LEMMA ReadHeaderStep ==
    ASSUME FrameInv, NEW k \in 1..Capacity, ReadHeader(k)
    PROVE  /\ FrameInv'
           /\ sizes' = sizes /\ delivered' = delivered /\ ropen' \in {ropen, FALSE}
<1> DEFINE id     == Len(delivered) + 1
           header == got \o SubSeq(wire, 1, k)
           gotten == Len(got)
<1>1. /\ Typed /\ ropen /\ frame_len = Unknown /\ k \in 1..Len(wire) /\ k \in Nat \ {0}
      /\ gotten \in Nat /\ gotten + k <= HeaderSize /\ Len(delivered) \in Nat
      /\ sender' = sender /\ sizes' = sizes /\ reset' = reset
  <2>1. Typed /\ Len(wire) \in Nat /\ gotten \in Nat /\ Len(delivered) \in Nat
    BY TypedIs DEF FrameInv
  <2>2. k \in 1..(HeaderSize - gotten) /\ k <= Len(wire) /\ k \in Nat \ {0}
    BY UnitsAssumption DEF ReadHeader
  <2>3. k \in 1..Len(wire) /\ gotten + k <= HeaderSize
    BY <2>1, <2>2, UnitsAssumption
  <2> QED  BY <2>1, <2>2, <2>3 DEF ReadHeader, sender
<1>2. ReadBefore = 0
  BY <1>1 DEF ReadBefore
<1>3. /\ id \in 1..Len(sizes)
      /\ header \in Seq(Units) /\ Len(header) = gotten + k
      /\ \A i \in 1..(gotten + k) : header[i] = <<id, 0 + i>>
      /\ wire[k] = <<id, 0 + (gotten + k)>>
  BY <1>1, <1>2, ReadIs
<1>4. FrameSize(sizes, id) \in Nat /\ FrameSize(sizes, id) > HeaderSize
  BY <1>1, <1>3, TypedIs, FrameSizeIs
<1>5. Follow(sizes, wire[k]) = <<id, (gotten + k) + 1>>
  <2>1. wire[k] = <<id, gotten + k>> /\ gotten + k < FrameSize(sizes, id)
    BY <1>1, <1>3, <1>4, UnitsAssumption
  <2> QED  BY <2>1 DEF Follow
<1> HIDE DEF id, header, gotten
<1>6. ASSUME EndSession PROVE FrameInv' /\ delivered' = delivered /\ ropen' = FALSE
  BY <1>1, <1>6, EndSessionStep DEF EndSession
<1>7. ASSUME got' = header, wire' = SubSeq(wire, k + 1, Len(wire)),
             UNCHANGED <<ropen, frame_len, delivered>>, Len(header) < HeaderSize
      PROVE  FrameInv'
  <2>1. ReadBefore' = 0 /\ Len(delivered') + 1 = id /\ frame_len' = Unknown
    BY <1>1, <1>7 DEF ReadBefore, id
  <2>2. GotOK'
    BY <1>3, <1>7, <2>1 DEF GotOK
  <2>3. Expected' = Follow(sizes, wire[k])
    <3>1. Expected' = <<id, 0 + (gotten + k) + 1>>
      BY <1>3, <1>7, <2>1 DEF Expected
    <3>2. 0 + (gotten + k) + 1 = (gotten + k) + 1
      BY <1>1
    <3> QED  BY <1>5, <3>1, <3>2
  <2>4. wire' \in Seq(Units) /\ Len(wire') <= Capacity /\ LeftOK' /\ StreamOK'
    BY <1>1, <1>7, <2>2, <2>3, ReadKeepsStream
  <2>5. Typed'
    BY <1>1, <1>3, <1>7, <2>1, <2>4 DEF Typed, sender
  <2> QED  BY <2>4, <2>5 DEF FrameInv
<1>8. ASSUME NEW length \in LengthsIn(header), ~TooLong(length), ~(length < Nonce),
             frame_len' = length, got' = <<>>, wire' = SubSeq(wire, k + 1, Len(wire)),
             UNCHANGED <<ropen, delivered>>, ~(Len(header) < HeaderSize)
      PROVE  FrameInv'
  <2>1. Len(header) = HeaderSize /\ gotten + k = HeaderSize
    BY <1>1, <1>3, <1>8, UnitsAssumption
  <2>2. length = Nonce + sizes[id]
    <3>1. \A i \in 1..HeaderSize : header[i] = <<id, i>>
      BY <1>3, <2>1, UnitsAssumption
    <3> QED  BY <1>1, <1>3, <1>8, <2>1, <3>1, LengthsAre
  <2>3. sizes[id] \in Nat /\ length \in Nat /\ length > 0 /\ length <= Limit
    <3>1. sizes[id] \in Nat
      BY <1>1, <1>3, TypedIs
    <3> QED  BY <1>8, <2>2, <3>1, UnitsAssumption DEF TooLong
  <2>4. length # Unknown
    BY <2>3 DEF Unknown
  <2>5. ReadBefore' = HeaderSize /\ Len(delivered') + 1 = id /\ Len(got') = 0
    BY <1>8, <2>4, EmptySeq DEF ReadBefore, id
  <2>6. GotOK'
    <3>1. Len(delivered) < Len(sizes)
      BY <1>1, <1>3, TypedIs DEF id
    <3> QED  BY <1>1, <1>8, <2>2, <2>5, <3>1 DEF GotOK, id
  <2>7. Expected' = Follow(sizes, wire[k])
    <3>1. Expected' = <<id, HeaderSize + 0 + 1>>
      BY <2>5 DEF Expected
    <3>2. HeaderSize + 0 + 1 = (gotten + k) + 1
      BY <2>1, UnitsAssumption
    <3> QED  BY <1>5, <3>1, <3>2
  <2>8. wire' \in Seq(Units) /\ Len(wire') <= Capacity /\ LeftOK' /\ StreamOK'
    BY <1>1, <1>8, <2>6, <2>7, ReadKeepsStream
  <2>9. Typed'
    <3>1. got' \in Seq(Units) /\ Len(got') < length /\ length \in 0..Limit
      BY <1>8, <2>3, <2>5, EmptySeq, UnitsAssumption
    <3> QED  BY <1>1, <1>8, <2>4, <2>8, <3>1 DEF Typed, sender
  <2> QED  BY <2>8, <2>9 DEF FrameInv
<1>9. \/ EndSession
      \/ /\ got' = header /\ wire' = SubSeq(wire, k + 1, Len(wire))
         /\ UNCHANGED <<ropen, frame_len, delivered>> /\ Len(header) < HeaderSize
      \/ \E length \in LengthsIn(header) :
            /\ ~TooLong(length) /\ ~(length < Nonce)
            /\ frame_len' = length /\ got' = <<>> /\ wire' = SubSeq(wire, k + 1, Len(wire))
            /\ UNCHANGED <<ropen, delivered>> /\ ~(Len(header) < HeaderSize)
  BY DEF ReadHeader, header
<1> QED  BY <1>1, <1>6, <1>7, <1>8, <1>9

LEMMA ReadBodyStep ==
    ASSUME FrameInv, NEW k \in 1..Capacity, ReadBody(k)
    PROVE  LET id == Len(delivered) + 1
           IN  /\ FrameInv'
               /\ sizes' = sizes
               /\ \/ delivered' = delivered /\ ropen' \in {ropen, FALSE}
                  \/ /\ ropen' = ropen /\ id \in 1..Len(sizes)
                     /\ delivered' = Append(delivered, [id |-> id, size |-> sizes[id]])
<1> DEFINE id     == Len(delivered) + 1
           body   == got \o SubSeq(wire, 1, k)
           gotten == Len(got)
           msg    == [id |-> id, size |-> sizes[id]]
<1>1. /\ Typed /\ ropen /\ frame_len # Unknown /\ frame_len \in Nat /\ k \in 1..Len(wire)
      /\ k \in Nat \ {0} /\ gotten \in Nat /\ gotten + k <= frame_len /\ Len(delivered) \in Nat
      /\ sender' = sender /\ sizes' = sizes /\ reset' = reset
  <2>1. Typed /\ Len(wire) \in Nat /\ gotten \in Nat /\ Len(delivered) \in Nat
    BY TypedIs DEF FrameInv
  <2>2. ropen /\ frame_len # Unknown /\ frame_len \in Nat
    BY <2>1, UnitsAssumption DEF ReadBody, Typed
  <2>3. k \in 1..(frame_len - gotten) /\ k <= Len(wire) /\ k \in Nat \ {0}
    BY UnitsAssumption DEF ReadBody
  <2>4. k \in 1..Len(wire) /\ gotten + k <= frame_len
    BY <2>1, <2>2, <2>3
  <2> QED  BY <2>1, <2>2, <2>3, <2>4 DEF ReadBody, sender
<1>2. ReadBefore = HeaderSize
  BY <1>1 DEF ReadBefore
<1>3. /\ id \in 1..Len(sizes)
      /\ body \in Seq(Units) /\ Len(body) = gotten + k
      /\ \A i \in 1..(gotten + k) : body[i] = <<id, HeaderSize + i>>
      /\ wire[k] = <<id, HeaderSize + (gotten + k)>>
  BY <1>1, <1>2, ReadIs
<1>4. frame_len = Nonce + sizes[id] /\ sizes[id] \in Nat
      /\ FrameSize(sizes, id) = HeaderSize + frame_len
  <2>1. sizes[id] \in Nat
    BY <1>1, <1>3, TypedIs
  <2>2. frame_len = Nonce + sizes[id]
    BY <1>1 DEF FrameInv, StreamOK, GotOK
  <2> QED  BY <2>1, <2>2, UnitsAssumption DEF FrameSize
<1>5. Decrypted(body) = msg \/ Len(body) # frame_len
  BY <1>1, <1>3, <1>4, DecryptedIs
<1>6. msg \in Message \cup {Garbage}
  <2>1. id \in 1..MaxMsgs
    BY <1>1, <1>3, TypedIs, UnitsAssumption DEF Typed
  <2>2. sizes[id] \in Sizes
    BY <1>1, <1>3, TypedIs
  <2> QED  BY <2>1, <2>2 DEF Message
<1> HIDE DEF id, body, gotten, msg
<1>7. ASSUME EndSession PROVE FrameInv' /\ delivered' = delivered /\ ropen' = FALSE
  BY <1>1, <1>7, EndSessionStep DEF EndSession
<1>8. ASSUME got' = body, wire' = SubSeq(wire, k + 1, Len(wire)),
             UNCHANGED <<ropen, frame_len, delivered>>, Len(body) # frame_len
      PROVE  FrameInv'
  <2>1. ReadBefore' = HeaderSize /\ Len(delivered') + 1 = id
    BY <1>1, <1>8 DEF ReadBefore, id
  <2>2. gotten + k < frame_len
    BY <1>1, <1>3, <1>8
  <2>3. GotOK'
    <3>1. Len(delivered) < Len(sizes)
      BY <1>1, <1>3, TypedIs DEF id
    <3> QED  BY <1>1, <1>3, <1>4, <1>8, <2>1, <3>1 DEF GotOK, id
  <2>4. Expected' = Follow(sizes, wire[k])
    <3>1. Expected' = <<id, HeaderSize + (gotten + k) + 1>>
      BY <1>3, <1>8, <2>1 DEF Expected
    <3>2. HeaderSize + (gotten + k) < FrameSize(sizes, id)
      BY <1>1, <1>4, <2>2, UnitsAssumption
    <3> QED  BY <1>3, <3>1, <3>2 DEF Follow
  <2>5. wire' \in Seq(Units) /\ Len(wire') <= Capacity /\ LeftOK' /\ StreamOK'
    BY <1>1, <1>8, <2>3, <2>4, ReadKeepsStream
  <2>6. Typed'
    BY <1>1, <1>3, <1>8, <2>2, <2>5 DEF Typed, sender
  <2> QED  BY <2>5, <2>6 DEF FrameInv
<1>9. ASSUME delivered' = Append(delivered, Decrypted(body)), got' = <<>>,
             frame_len' = Unknown, wire' = SubSeq(wire, k + 1, Len(wire)), ropen' = ropen,
             Len(body) = frame_len
      PROVE  FrameInv' /\ delivered' = Append(delivered, msg)
  <2>1. delivered' = Append(delivered, msg)
    BY <1>5, <1>9
  <2>2. /\ delivered' \in Seq(Message \cup {Garbage})
        /\ Len(delivered') = Len(delivered) + 1
    BY <1>1, <1>6, <2>1, AppendProperties DEF Typed
  <2>3. ReadBefore' = 0 /\ Len(got') = 0 /\ got' \in Seq(Units)
    BY <1>9, EmptySeq DEF ReadBefore
  <2>4. GotOK'
    BY <1>9, <2>3 DEF GotOK
  <2>5. Expected' = Follow(sizes, wire[k])
    <3>1. Expected' = <<id + 1, 1>>
      BY <2>2, <2>3 DEF Expected, id
    <3>2. HeaderSize + (gotten + k) = FrameSize(sizes, id)
      BY <1>3, <1>4, <1>9
    <3>3. FrameSize(sizes, id) \in Nat
      BY <1>1, <1>4, UnitsAssumption
    <3> QED  BY <1>3, <3>1, <3>2, <3>3 DEF Follow
  <2>6. wire' \in Seq(Units) /\ Len(wire') <= Capacity /\ LeftOK' /\ StreamOK'
    BY <1>1, <1>9, <2>4, <2>5, ReadKeepsStream
  <2>7. Typed'
    BY <1>1, <1>9, <2>2, <2>3, <2>6, UnitsAssumption DEF Typed, sender
  <2> QED  BY <2>1, <2>6, <2>7 DEF FrameInv
<1>10. \/ EndSession
       \/ /\ got' = body /\ wire' = SubSeq(wire, k + 1, Len(wire))
          /\ UNCHANGED <<ropen, frame_len, delivered>> /\ Len(body) # frame_len
       \/ /\ delivered' = Append(delivered, Decrypted(body)) /\ got' = <<>>
          /\ frame_len' = Unknown /\ wire' = SubSeq(wire, k + 1, Len(wire))
          /\ ropen' = ropen /\ Len(body) = frame_len
  BY DEF ReadBody, IsWhole, body
<1> QED  BY <1>1, <1>3, <1>7, <1>8, <1>9, <1>10 DEF id, msg

\* Every step keeps the invariant, hands over at most the next message, and
\* never takes one back.
LEMMA FrameStep ==
    ASSUME FrameInv, [Next]_vars
    PROVE  /\ FrameInv'
           /\ \/ UNCHANGED <<sizes, delivered>> /\ ropen' \in {ropen, FALSE}
              \/ /\ \E size \in Sizes : sizes' = Append(sizes, size)
                 /\ Len(sizes) < MaxMsgs /\ UNCHANGED <<delivered, ropen>>
              \/ /\ ropen /\ UNCHANGED <<sizes, ropen>>
                 /\ Len(delivered) + 1 \in 1..Len(sizes)
                 /\ delivered' = Append(delivered, [id   |-> Len(delivered) + 1,
                                                    size |-> sizes[Len(delivered) + 1]])
<1>1. CASE UNCHANGED vars
  BY <1>1 DEF vars, sender, receiver, FrameInv, Typed, LeftOK, StreamOK, GotOK, Contiguous,
              IsUnit, Follow, FrameSize, Expected, ReadBefore, WireEnd, ToWrite
<1>2. ASSUME NEW size \in Sizes, CallSend(size)
      PROVE  /\ FrameInv' /\ sizes' = Append(sizes, size)
             /\ Len(sizes) < MaxMsgs /\ UNCHANGED <<delivered, ropen>>
  BY <1>2, CallSendStep DEF CallSend, receiver
<1>3. ASSUME NEW k \in 1..Capacity, Write(k)
      PROVE  FrameInv' /\ UNCHANGED <<sizes, delivered, ropen>>
  BY <1>3, WriteStep DEF Write, receiver
<1>4. CASE SendFails \/ SenderCloses
  <2>1. FrameInv' /\ UNCHANGED <<sizes, delivered, ropen>>
    BY <1>4, SendEndsStep DEF SendFails, SenderCloses, receiver
  <2> QED  BY <2>1
<1>5. ASSUME NEW k \in 1..Capacity, ReadHeader(k)
      PROVE  FrameInv' /\ UNCHANGED <<sizes, delivered>> /\ ropen' \in {ropen, FALSE}
  BY <1>5, ReadHeaderStep
<1>6. CASE ReadEnds
  <2>1. FrameInv' /\ UNCHANGED <<sizes, delivered>> /\ ropen' = FALSE
    BY <1>6, EndSessionStep DEF ReadEnds, EndSession, sender
  <2> QED  BY <2>1
<1>7. CASE \E k \in 1..Capacity : ReadBody(k)
  <2> PICK k \in 1..Capacity : ReadBody(k)
    BY <1>7
  <2>1. ropen
    BY DEF ReadBody
  <2> QED  BY <2>1, ReadBodyStep
<1> QED  BY <1>1, <1>2, <1>3, <1>4, <1>5, <1>6, <1>7 DEF Next, Receive

LEMMA FrameInvHolds == Spec => []FrameInv
<1>1. FrameInv /\ [Next]_vars => FrameInv'
  BY FrameStep
<1> QED  BY InitFrame, <1>1, PTL DEF Spec

-----------------------------------------------------------------------------
(* What has been reported as sent. *)

\* While the receiver is open the end of every reported frame it has not
\* delivered is on the wire, and send has reported all but the message in its
\* hands.  It has closed at a message it does not take, or when the sender had
\* closed and nothing that was reported was left.
KeptOK ==
    ~reset =>
        IF ropen
        THEN /\ \A i \in (Len(delivered) + 1)..returned : OnItsWay(i)
             /\ wopen => returned = IF left = <<>> THEN Len(sizes) ELSE Len(sizes) - 1
        ELSE \/ ~wopen /\ returned <= Len(delivered)
             \/ Len(delivered) < Len(sizes) /\ ~Deliverable(Len(delivered) + 1)

LEMMA CallSendKeeps ==
    ASSUME FrameInv, KeptOK, NEW size \in Sizes, CallSend(size)
    PROVE  KeptOK'
<1>1. /\ Len(sizes) \in Nat /\ Len(delivered) \in Nat /\ returned \in 0..Len(sizes)
      /\ left = <<>> /\ wopen
      /\ UNCHANGED <<returned, wopen, wire, reset, ropen, delivered>>
  BY TypedIs DEF FrameInv, Typed, CallSend, receiver
<1>2. /\ Len(sizes') = Len(sizes) + 1 /\ \A i \in 1..Len(sizes) : sizes'[i] = sizes[i]
      /\ sizes' \in Seq(Nat)
  <2>1. size \in Nat /\ sizes \in Seq(Nat) /\ sizes' = Append(sizes, size)
    BY TypedIs, UnitsAssumption DEF FrameInv, CallSend
  <2> QED  BY <2>1, AppendProperties
<1>3. left' # <<>>
  <2>1. Len(left') = HeaderSize + Nonce + size /\ Len(left') > 0
    <3>1. left' = [k \in 1..(HeaderSize + Nonce + size) |-> <<Len(sizes) + 1, k>>]
      BY DEF CallSend, Frame
    <3>2. HeaderSize + Nonce + size \in Nat \ {0}
      BY UnitsAssumption
    <3> QED  BY <3>1, <3>2
  <2> QED  BY <2>1, EmptySeq
<1>4. CASE ropen
  <2>1. \A i \in (Len(delivered) + 1)..returned : OnItsWay(i) => OnItsWay(i)'
    <3> TAKE i \in (Len(delivered) + 1)..returned
    <3>1. i \in 1..Len(sizes)
      BY <1>1
    <3>2. sizes'[i] = sizes[i] /\ wire' = wire
      BY <1>1, <1>2, <3>1
    <3> QED  BY <3>2 DEF OnItsWay
  <2> QED  BY <1>1, <1>2, <1>3, <1>4, <2>1 DEF KeptOK
<1>5. CASE ~ropen
  <2>1. Len(delivered) < Len(sizes) =>
            (~Deliverable(Len(delivered) + 1) => ~Deliverable(Len(delivered) + 1)')
    <3> SUFFICES ASSUME Len(delivered) < Len(sizes)
                 PROVE  Deliverable(Len(delivered) + 1)' => Deliverable(Len(delivered) + 1)
      OBVIOUS
    <3>1. \A j \in 1..(Len(delivered) + 1) : sizes'[j] = sizes[j]
      BY <1>1, <1>2
    <3> QED  BY <1>1, <3>1 DEF Deliverable
  <2> QED  BY <1>1, <1>2, <1>5, <2>1 DEF KeptOK
<1> QED  BY <1>4, <1>5

\* The write that ends a frame puts its last unit on the wire, after all others.
LEMMA WriteKeeps ==
    ASSUME FrameInv, KeptOK, NEW k \in 1..Capacity, Write(k)
    PROVE  KeptOK'
<1> DEFINE n == Len(sizes)
           w == Len(wire)
           l == Len(left)
<1>1. /\ Typed /\ n \in Nat /\ w \in Nat /\ l \in Nat /\ Len(delivered) \in Nat
      /\ k \in 1..l /\ left # <<>> /\ wopen /\ left \in Seq(Units) /\ wire \in Seq(Units)
      /\ n > 0 /\ left[l] = <<n, FrameSize(sizes, n)>> /\ returned \in 0..n
  <2>1. Typed /\ n \in Nat /\ w \in Nat /\ l \in Nat /\ Len(delivered) \in Nat /\ k \in 1..l
    BY PiecesAre, TypedIs DEF Write, FrameInv
  <2>2. left # <<>> /\ l \in 1..l
    BY <2>1, TypedIs
  <2>3. n > 0 /\ wopen /\ left[l] = <<n, FrameSize(sizes, n) - l + l>>
    BY <2>2 DEF FrameInv, LeftOK
  <2>4. FrameSize(sizes, n) \in Nat
    BY <2>1, <2>3, TypedIs, FrameSizeIs
  <2>5. FrameSize(sizes, n) - l + l = FrameSize(sizes, n)
    BY <2>1, <2>4
  <2> QED  BY <2>1, <2>2, <2>3, <2>5 DEF Typed
<1>2. /\ UNCHANGED <<sizes, wopen, reset, ropen, delivered>>
      /\ returned' = IF k = l THEN n ELSE returned
      /\ ropen => wire' = wire \o SubSeq(left, 1, k)
      /\ left' = SubSeq(left, k + 1, l)
  BY DEF Write, receiver
<1>3. left' = <<>> <=> k = l
  <2>1. k \in 0..l /\ left' \in Seq(Units) /\ Len(left') = l - k
    <3>1. k \in 0..l
      BY <1>1
    <3> QED  BY <1>1, <1>2, <3>1, DropIs
  <2>2. left' = <<>> <=> l - k = 0
    BY <2>1, EmptySeq
  <2> QED  BY <1>1, <2>2
<1>4. CASE ropen
  <2>1. /\ Len(wire') = w + k /\ DOMAIN wire' = 1..(w + k) /\ DOMAIN wire = 1..w
        /\ \A i \in 1..w : wire'[i] = wire[i]
        /\ wire'[w + k] = left[k]
    <3>1. k \in 0..l /\ k \in 1..k
      BY <1>1
    <3>2. /\ SubSeq(left, 1, k) \in Seq(Units) /\ Len(SubSeq(left, 1, k)) = k
          /\ SubSeq(left, 1, k)[k] = left[k]
      BY <1>1, <3>1, TakeIs
    <3> DEFINE more == SubSeq(left, 1, k)
    <3> HIDE DEF more
    <3>3. /\ wire \o more \in Seq(Units) /\ Len(wire \o more) = w + k
          /\ \A i \in 1..(w + k) : (wire \o more)[i] =
                 IF i <= w THEN wire[i] ELSE more[i - w]
      BY <1>1, <3>2, ConcatProperties DEF more
    <3>4. /\ wire' \in Seq(Units) /\ Len(wire') = w + k
          /\ \A i \in 1..(w + k) : wire'[i] =
                 IF i <= w THEN wire[i] ELSE SubSeq(left, 1, k)[i - w]
      BY <1>2, <1>4, <3>3 DEF more
    <3>5. w + k \in 1..(w + k) /\ ~(w + k <= w) /\ w + k - w = k
          /\ \A i \in 1..w : i \in 1..(w + k) /\ i <= w
      BY <1>1
    <3> QED  BY <1>1, <3>2, <3>4, <3>5, LenProperties
  <2>2. \A i \in (Len(delivered) + 1)..returned : OnItsWay(i) => OnItsWay(i)'
    <3>1. 1..w \subseteq 1..(w + k)
      BY <1>1
    <3> QED  BY <1>2, <2>1, <3>1 DEF OnItsWay
  <2>3. k = l => \A i \in {n} : OnItsWay(i)'
    <3>1. w + k \in 1..(w + k)
      BY <1>1
    <3> QED  BY <1>1, <1>2, <2>1, <3>1 DEF OnItsWay, FrameSize
  <2>4. ~reset => returned = n - 1
    BY <1>1, <1>4 DEF KeptOK
  <2>5. ~reset /\ k = l =>
            \A i \in (Len(delivered) + 1)..n : i = n \/ i \in (Len(delivered) + 1)..returned
    BY <1>1, <2>4
  <2> HIDE DEF n, w, l
  <2>6. n' = n
    BY <1>2 DEF n
  <2>7. ~reset => \A i \in (Len(delivered) + 1)..returned' : OnItsWay(i)'
    <3> SUFFICES ASSUME ~reset, NEW i \in (Len(delivered) + 1)..returned'
                 PROVE  OnItsWay(i)'
      OBVIOUS
    <3>1. CASE k # l
      BY <1>2, <1>4, <2>2, <3>1 DEF KeptOK
    <3>2. CASE k = l
      <4>1. i = n \/ i \in (Len(delivered) + 1)..returned
        BY <1>2, <2>5, <3>2
      <4> QED  BY <1>4, <2>2, <2>3, <3>2, <4>1 DEF KeptOK
    <3> QED  BY <3>1, <3>2
  <2> QED  BY <1>2, <1>3, <1>4, <2>4, <2>6, <2>7 DEF KeptOK, n
<1>5. CASE ~ropen
  <2>1. Deliverable(Len(delivered) + 1)' <=> Deliverable(Len(delivered) + 1)
    BY <1>2 DEF Deliverable
  <2> QED  BY <1>1, <1>2, <1>5, <2>1 DEF KeptOK
<1> QED  BY <1>4, <1>5

\* send fails only when the receiver has closed; the sender that closes leaves
\* the wire as it is, or resets the connection.
LEMMA SendEndsKeeps ==
    ASSUME FrameInv, KeptOK, SendFails \/ SenderCloses
    PROVE  KeptOK'
<1>1. UNCHANGED <<sizes, returned, ropen, delivered>>
  BY DEF SendFails, SenderCloses, receiver
<1>2. /\ Deliverable(Len(delivered) + 1)' <=> Deliverable(Len(delivered) + 1)
      /\ wire' = wire => \A i \in Nat : OnItsWay(i)' <=> OnItsWay(i)
  BY <1>1 DEF Deliverable, OnItsWay
<1>3. Len(delivered) + 1 \in Nat /\ returned \in Nat
  BY TypedIs DEF FrameInv, Typed
<1>4. \A i \in (Len(delivered) + 1)..returned : i \in Nat
  BY <1>3
<1>5. CASE SendFails
  BY <1>1, <1>2, <1>5 DEF SendFails, receiver, KeptOK
<1>6. CASE SenderCloses
  BY <1>1, <1>2, <1>4, <1>6 DEF SenderCloses, KeptOK
<1> QED  BY <1>5, <1>6

\* A read that delivers nothing leaves the end of the frame it is in on the
\* wire, and every read leaves the ends of the frames after that.
LEMMA ReadKeeps ==
    ASSUME FrameInv, KeptOK, ropen, ropen', UNCHANGED <<sender, reset>>,
           NEW k \in 1..Len(wire), wire' = SubSeq(wire, k + 1, Len(wire)),
           Len(got) + k <= IF frame_len = Unknown THEN HeaderSize ELSE frame_len,
           \/ Len(delivered') = Len(delivered) + 1
           \/ /\ Len(delivered') = Len(delivered)
              /\ ReadBefore + (Len(got) + k) < FrameSize(sizes, Len(delivered) + 1)
    PROVE  KeptOK'
<1> DEFINE d == Len(delivered)
           w == Len(wire)
           at(i) == ReadBefore + (Len(got) + i)
<1>1. /\ d \in Nat /\ w \in Nat /\ k \in 0..w /\ wire \in Seq(Units) /\ Len(got) \in Nat
      /\ UNCHANGED <<sizes, left, returned, wopen, reset>> /\ returned \in Nat
      /\ ReadBefore \in Nat
  <2>1. ReadBefore \in Nat
    BY UnitsAssumption DEF ReadBefore
  <2> QED  BY <2>1, TypedIs DEF FrameInv, Typed, sender
<1>2. \A i \in 1..k : wire[i] = <<d + 1, at(i)>>
  BY ReadIs
<1>3. /\ wire' \in Seq(Units) /\ Len(wire') = w - k
      /\ \A i \in 1..(w - k) : wire'[i] = wire[k + i]
      /\ DOMAIN wire = 1..w /\ DOMAIN wire' = 1..(w - k)
  BY <1>1, DropIs, LenProperties
<1> SUFFICES ASSUME ~reset, NEW i \in (Len(delivered') + 1)..returned PROVE OnItsWay(i)'
  BY <1>1 DEF KeptOK
<1>4. i \in Nat /\ i > d /\ (i = d + 1 => d = Len(delivered'))
  BY <1>1
<1>5. OnItsWay(i)
  BY <1>1, <1>4 DEF KeptOK
<1>6. PICK n \in 1..w : wire[n] = <<i, FrameSize(sizes, i)>>
  BY <1>3, <1>5 DEF OnItsWay, FrameSize
<1>7. ~(n <= k)
  <2> SUFFICES ASSUME n <= k PROVE FALSE
    OBVIOUS
  <2>1. wire[n] = <<d + 1, at(n)>>
    BY <1>2
  <2>2. i = d + 1 /\ at(n) = FrameSize(sizes, d + 1)
    BY <1>6, <2>1
  <2>3. at(k) < FrameSize(sizes, d + 1)
    BY <1>1, <1>4, <2>2
  <2>4. at(n) <= at(k)
    BY <1>1
  <2> QED  BY <1>1, <2>2, <2>3, <2>4
<1>8. n - k \in 1..(w - k) /\ wire'[n - k] = wire[n]
  <2>1. n - k \in 1..(w - k) /\ k + (n - k) = n
    BY <1>1, <1>7
  <2> QED  BY <1>3, <2>1
<1>9. sizes' = sizes
  BY <1>1
<1> QED  BY <1>3, <1>6, <1>8, <1>9 DEF OnItsWay, FrameSize

\* recieve closes at a message it does not take, or when there is nothing left.
LEMMA EndSessionKeeps ==
    ASSUME FrameInv, KeptOK, EndSession, ropen, UNCHANGED <<sender, reset>>,
           \/ ~wopen /\ wire = <<>>
           \/ Len(delivered) < Len(sizes) /\ ~Deliverable(Len(delivered) + 1)
    PROVE  KeptOK'
<1>1. /\ UNCHANGED <<sizes, returned, wopen, delivered, reset>> /\ ~ropen'
      /\ Len(delivered) \in Nat /\ returned \in Nat
  BY TypedIs DEF EndSession, sender, FrameInv, Typed
<1>2. CASE ~wopen /\ wire = <<>>
  <2>1. ASSUME ~reset, Len(delivered) < returned PROVE FALSE
    <3>1. Len(delivered) + 1 \in (Len(delivered) + 1)..returned
      BY <1>1, <2>1
    <3>2. OnItsWay(Len(delivered) + 1)
      BY <2>1, <3>1 DEF KeptOK
    <3>3. DOMAIN wire = {}
      BY <1>2
    <3> QED  BY <3>2, <3>3 DEF OnItsWay
  <2> QED  BY <1>1, <1>2, <2>1 DEF KeptOK
<1>3. CASE Len(delivered) < Len(sizes) /\ ~Deliverable(Len(delivered) + 1)
  <2>1. ~Deliverable(Len(delivered) + 1)'
    BY <1>1, <1>3 DEF Deliverable
  <2> QED  BY <1>1, <1>3, <2>1 DEF KeptOK
<1> QED  BY <1>2, <1>3

LEMMA ReadHeaderKeeps ==
    ASSUME FrameInv, KeptOK, NEW k \in 1..Capacity, ReadHeader(k)
    PROVE  KeptOK'
<1> DEFINE d      == Len(delivered)
           header == got \o SubSeq(wire, 1, k)
<1>1. /\ Typed /\ ropen /\ frame_len = Unknown /\ k \in 1..Len(wire) /\ k \in Nat
      /\ Len(got) \in Nat /\ Len(got) + k <= HeaderSize /\ d \in Nat
      /\ UNCHANGED <<sender, reset>> /\ ReadBefore = 0
  <2>1. Typed /\ Len(wire) \in Nat /\ Len(got) \in Nat /\ d \in Nat /\ HeaderSize \in Nat
    BY TypedIs, UnitsAssumption DEF FrameInv
  <2>2. k \in 1..(HeaderSize - Len(got)) /\ k <= Len(wire) /\ k \in Nat \ {0}
    BY UnitsAssumption DEF ReadHeader
  <2>3. k \in 1..Len(wire) /\ Len(got) + k <= HeaderSize
    BY <2>1, <2>2
  <2> QED  BY <2>1, <2>2, <2>3 DEF ReadHeader, ReadBefore
<1>2. /\ d + 1 \in 1..Len(sizes)
      /\ header \in Seq(Units) /\ Len(header) = Len(got) + k
      /\ \A i \in 1..(Len(got) + k) : header[i] = <<d + 1, 0 + i>>
  BY <1>1, ReadIs
<1>3. CASE wire' = SubSeq(wire, k + 1, Len(wire)) /\ UNCHANGED <<ropen, delivered>>
  <2>1. ReadBefore + (Len(got) + k) < FrameSize(sizes, d + 1)
    <3>1. FrameSize(sizes, d + 1) \in Nat /\ FrameSize(sizes, d + 1) > HeaderSize
      BY <1>1, <1>2, TypedIs, FrameSizeIs
    <3> QED  BY <1>1, <3>1, UnitsAssumption
  <2> QED  BY <1>1, <1>3, <2>1, ReadKeeps
<1>4. ASSUME EndSession, ~(Len(header) < HeaderSize),
             NEW length \in LengthsIn(header), TooLong(length) \/ length < Nonce
      PROVE  KeptOK'
  <2>1. Len(header) = HeaderSize /\ Len(got) + k = HeaderSize
    BY <1>1, <1>2, <1>4, UnitsAssumption
  <2>2. length = Nonce + sizes[d + 1]
    <3>1. \A i \in 1..HeaderSize : header[i] = <<d + 1, i>>
      BY <1>2, <2>1, UnitsAssumption
    <3> QED  BY <1>1, <1>2, <1>4, <2>1, <3>1, LengthsAre
  <2>3. sizes[d + 1] \in Nat
    BY <1>1, <1>2, TypedIs
  <2>4. Nonce + sizes[d + 1] > Limit
    BY <1>4, <2>2, <2>3, UnitsAssumption DEF TooLong
  <2>5. d < Len(sizes) /\ d + 1 \in 1..(d + 1)
    BY <1>1, <1>2, TypedIs
  <2>6. ~Deliverable(d + 1)
    BY <2>3, <2>4, <2>5, UnitsAssumption DEF Deliverable
  <2> QED  BY <1>1, <1>4, <2>5, <2>6, EndSessionKeeps
<1>5. \/ wire' = SubSeq(wire, k + 1, Len(wire)) /\ UNCHANGED <<ropen, delivered>>
      \/ /\ EndSession /\ ~(Len(header) < HeaderSize)
         /\ \E length \in LengthsIn(header) : TooLong(length) \/ length < Nonce
  BY DEF ReadHeader
<1> QED  BY <1>3, <1>4, <1>5

LEMMA ReadBodyKeeps ==
    ASSUME FrameInv, KeptOK, NEW k \in 1..Capacity, ReadBody(k)
    PROVE  KeptOK'
<1> DEFINE d    == Len(delivered)
           body == got \o SubSeq(wire, 1, k)
<1>1. /\ Typed /\ ropen /\ frame_len # Unknown /\ frame_len \in Nat /\ k \in 1..Len(wire)
      /\ Len(got) \in Nat /\ Len(got) + k <= frame_len /\ d \in Nat /\ k \in Nat
      /\ UNCHANGED <<sender, reset>> /\ ReadBefore = HeaderSize
  <2>1. Typed /\ Len(wire) \in Nat /\ Len(got) \in Nat /\ d \in Nat
    BY TypedIs DEF FrameInv
  <2>2. frame_len # Unknown /\ frame_len \in Nat
    BY <2>1, UnitsAssumption DEF ReadBody, Typed
  <2>3. k \in 1..(frame_len - Len(got)) /\ k <= Len(wire) /\ k \in Nat \ {0}
    BY UnitsAssumption DEF ReadBody
  <2>4. k \in 1..Len(wire) /\ Len(got) + k <= frame_len
    BY <2>1, <2>2, <2>3
  <2> QED  BY <2>1, <2>2, <2>3, <2>4 DEF ReadBody, ReadBefore
<1>2. d + 1 \in 1..Len(sizes) /\ Len(body) = Len(got) + k
  BY <1>1, ReadIs
<1>3. /\ sizes[d + 1] \in Nat /\ frame_len = Nonce + sizes[d + 1]
      /\ FrameSize(sizes, d + 1) = HeaderSize + frame_len /\ d < Len(sizes)
  <2>1. sizes[d + 1] \in Nat /\ d < Len(sizes)
    BY <1>1, <1>2, TypedIs
  <2>2. frame_len = Nonce + sizes[d + 1]
    BY <1>1 DEF FrameInv, StreamOK, GotOK
  <2> QED  BY <2>1, <2>2, UnitsAssumption DEF FrameSize
<1>4. ASSUME wire' = SubSeq(wire, k + 1, Len(wire)), UNCHANGED <<ropen, delivered>>,
             Len(body) # frame_len
      PROVE  KeptOK'
  <2>1. Len(got) + k < frame_len
    <3>1. Len(got) + k # frame_len
      BY <1>2, <1>4
    <3> QED  BY <1>1, <3>1
  <2>2. ReadBefore + (Len(got) + k) < FrameSize(sizes, d + 1)
    BY <1>1, <1>3, <2>1, UnitsAssumption
  <2> QED  BY <1>1, <1>4, <2>2, ReadKeeps
<1>5. ASSUME wire' = SubSeq(wire, k + 1, Len(wire)), ropen' = ropen,
             delivered' = Append(delivered, Decrypted(body))
      PROVE  KeptOK'
  <2>1. Len(delivered') = d + 1
    BY <1>1, <1>5 DEF Typed
  <2> QED  BY <1>1, <1>5, <2>1, ReadKeeps
<1>6. ASSUME EndSession, Len(body) = frame_len, Len(body) <= Nonce
      PROVE  KeptOK'
  <2>1. ~(sizes[d + 1] > 0) /\ d + 1 \in 1..(d + 1)
    BY <1>1, <1>3, <1>6, UnitsAssumption
  <2>2. ~Deliverable(d + 1)
    BY <2>1 DEF Deliverable
  <2> QED  BY <1>1, <1>3, <1>6, <2>2, EndSessionKeeps
<1>7. \/ /\ wire' = SubSeq(wire, k + 1, Len(wire)) /\ UNCHANGED <<ropen, delivered>>
         /\ Len(body) # frame_len
      \/ /\ wire' = SubSeq(wire, k + 1, Len(wire)) /\ ropen' = ropen
         /\ delivered' = Append(delivered, Decrypted(body))
      \/ EndSession /\ Len(body) = frame_len /\ Len(body) <= Nonce
  BY DEF ReadBody, IsWhole
<1> QED  BY <1>4, <1>5, <1>6, <1>7

LEMMA KeptStep == FrameInv /\ KeptOK /\ [Next]_vars => KeptOK'
<1> SUFFICES ASSUME FrameInv, KeptOK, [Next]_vars PROVE KeptOK'
  OBVIOUS
<1>1. CASE UNCHANGED vars
  BY <1>1 DEF vars, sender, receiver, KeptOK, OnItsWay, Deliverable
<1>2. CASE \E size \in Sizes : CallSend(size)
  BY <1>2, CallSendKeeps
<1>3. CASE \E k \in 1..Capacity : Write(k)
  BY <1>3, WriteKeeps
<1>4. CASE SendFails \/ SenderCloses
  BY <1>4, SendEndsKeeps
<1>5. CASE \E k \in 1..Capacity : ReadHeader(k) \/ ReadBody(k)
  BY <1>5, ReadHeaderKeeps, ReadBodyKeeps
<1>6. CASE ReadEnds
  BY <1>6, EndSessionKeeps DEF ReadEnds
<1> QED  BY <1>1, <1>2, <1>3, <1>4, <1>5, <1>6 DEF Next, Receive

-----------------------------------------------------------------------------
(* The theorems. *)

\* What is left of a call of send is the end of its frame.
LEMMA LeftIsSuffix ==
    ASSUME Typed, LeftOK, left # <<>>
    PROVE  IsSuffix(left, Frame(Len(sizes), Last(sizes)))
<1> DEFINE n     == Len(sizes)
           total == FrameSize(sizes, n)
           frame == Frame(n, Last(sizes))
           l     == Len(left)
<1>1. /\ n \in 1..Len(sizes) /\ total \in Nat /\ l \in Nat /\ l <= total
      /\ \A i \in 1..l : left[i] = <<n, total - l + i>>
  BY TypedIs, FrameSizeIs DEF LeftOK
<1>2. frame = [k \in 1..total |-> <<n, k>>]
  BY DEF Frame, Last, FrameSize
<1>3. Len(frame) = total
  BY <1>1, <1>2
<1> HIDE DEF n, total, frame, l
<1>4. Reverse(left) = [i \in 1..l |-> <<n, total - i + 1>>]
  <2>1. Reverse(left) = [i \in 1..l |-> left[(l - i) + 1]]
    BY DEF Reverse, l
  <2>2. \A i \in 1..l : left[(l - i) + 1] = <<n, total - i + 1>>
    <3> TAKE i \in 1..l
    <3>1. (l - i) + 1 \in 1..l /\ total - l + ((l - i) + 1) = total - i + 1
      BY <1>1
    <3>2. left[(l - i) + 1] = <<n, total - l + ((l - i) + 1)>>
      BY <1>1, <3>1
    <3> QED  BY <3>1, <3>2
  <2> QED  BY <2>1, <2>2
<1>5. Reverse(frame) = [i \in 1..total |-> <<n, total - i + 1>>]
  <2>1. Reverse(frame) = [i \in 1..total |-> frame[(total - i) + 1]]
    BY <1>3 DEF Reverse
  <2>2. \A i \in 1..total : frame[(total - i) + 1] = <<n, total - i + 1>>
    <3> TAKE i \in 1..total
    <3>1. (total - i) + 1 \in 1..total /\ (total - i) + 1 = total - i + 1
      BY <1>1
    <3> QED  BY <1>2, <3>1
  <2> QED  BY <2>1, <2>2
<1>6. Len(Reverse(left)) = l /\ Len(Reverse(frame)) = total
  BY <1>1, <1>4, <1>5
<1>7. SubSeq(Reverse(left), 1, l) = SubSeq(Reverse(frame), 1, l)
  <2>1. \A i \in 1..total : <<n, total - i + 1>> \in Units
    BY <1>1 DEF Units
  <2>2. \A i \in 1..l : i \in 1..total
    BY <1>1
  <2>3. Reverse(left) \in Seq(Units) /\ Reverse(frame) \in Seq(Units)
    <3>1. Reverse(frame) \in [1..total -> Units]
      BY <1>5, <2>1
    <3>2. Reverse(left) \in [1..l -> Units]
      BY <1>4, <2>1, <2>2
    <3> QED  BY <1>1, <3>1, <3>2, FunctionIsSeq
  <2>4. l \in 0..Len(Reverse(left)) /\ l \in 0..Len(Reverse(frame))
    BY <1>1, <1>6
  <2>5. /\ SubSeq(Reverse(left), 1, l) \in Seq(Units) /\ Len(SubSeq(Reverse(left), 1, l)) = l
        /\ \A i \in 1..l : SubSeq(Reverse(left), 1, l)[i] = Reverse(left)[i]
    BY <2>3, <2>4, TakeIs
  <2>6. /\ SubSeq(Reverse(frame), 1, l) \in Seq(Units) /\ Len(SubSeq(Reverse(frame), 1, l)) = l
        /\ \A i \in 1..l : SubSeq(Reverse(frame), 1, l)[i] = Reverse(frame)[i]
    BY <2>3, <2>4, TakeIs
  <2>7. \A i \in 1..l : Reverse(left)[i] = Reverse(frame)[i]
    BY <1>4, <1>5, <2>2
  <2> QED  BY <2>5, <2>6, <2>7, SeqEqual
<1> QED  BY <1>1, <1>6, <1>7 DEF IsSuffix, IsPrefix, frame, n

\* Both ends keep their types: send never loses its place in a frame, recieve
\* never reads past one nor takes a length over the limit.
THEOREM FrameTypesCorrect == Spec => []FrameTypeOK
<1>1. FrameInv => FrameTypeOK
  BY LeftIsSuffix, Zenon DEF FrameInv, Typed, FrameTypeOK
<1> QED  BY <1>1, FrameInvHolds, PTL

\* A message whose send has returned its size is not lost: it is delivered, or
\* its end is still before the receiver, which is open; the safety half of
\* SentIsReceived.
THEOREM ReportedMessagesAreKept == Spec => []ReportedIsKept
<1>1. Init => KeptOK
  <2> SUFFICES ASSUME Init PROVE KeptOK
    OBVIOUS
  <2>1. ropen /\ returned = 0 /\ left = <<>> /\ Len(sizes) = 0 /\ Len(delivered) = 0
    BY EmptySeq DEF Init
  <2> QED  BY <2>1 DEF KeptOK
<1>2. FrameInv /\ KeptOK => ReportedIsKept
  <2> SUFFICES ASSUME FrameInv, KeptOK, NEW i \in 1..returned, Deliverable(i), ~reset,
                      ~(i <= Len(delivered))
               PROVE  ropen /\ OnItsWay(i)
    BY DEF ReportedIsKept
  <2>1. /\ Len(delivered) \in Nat /\ returned \in Nat /\ i \in Nat
        /\ i \in (Len(delivered) + 1)..returned
    BY TypedIs DEF FrameInv, Typed
  <2>2. Deliverable(Len(delivered) + 1)
    <3>1. 1..(Len(delivered) + 1) \subseteq 1..i
      BY <2>1
    <3> QED  BY <3>1 DEF Deliverable
  <2> QED  BY <2>1, <2>2 DEF KeptOK
<1>3. FrameInv /\ KeptOK /\ [Next]_vars => KeptOK'
  BY KeptStep
<1> QED  BY <1>1, <1>2, <1>3, FrameInvHolds, PTL DEF Spec

\* However the writes and the reads are cut up, whenever either end closes or
\* dies, recieve returns the messages that were sent, whole, once and in order.
THEOREM FramesImplementChannel == Spec => ImplementsChannel
<1>1. Init => Channel!Init
  <2> SUFFICES ASSUME Init PROVE Channel!Init
    OBVIOUS
  <2>1. [i \in DOMAIN sizes |-> [id |-> i, size |-> sizes[i]]] = <<>>
    BY DEF Init
  <2> QED  BY <2>1 DEF Init, Channel!Init
<1>2. FrameInv /\ [Next]_vars => [Channel!Next]_(Channel!vars)
  <2> SUFFICES ASSUME FrameInv, [Next]_vars PROVE [Channel!Next]_(Channel!vars)
    OBVIOUS
  <2>1. /\ sizes \in Seq(Sizes) /\ DOMAIN sizes = 1..Len(sizes) /\ Len(sizes) \in Nat
        /\ Len(delivered) \in Nat /\ ropen \in BOOLEAN
    BY TypedIs DEF FrameInv, Typed
  <2> DEFINE sent == [i \in 1..Len(sizes) |-> [id |-> i, size |-> sizes[i]]]
  <2>2. Len(sent) = Len(sizes)
    BY <2>1
  <2>3. CASE UNCHANGED <<sizes, delivered>> /\ ropen' \in {ropen, FALSE}
    BY <2>1, <2>3 DEF Channel!Next, Channel!Close, Channel!vars
  <2>4. ASSUME NEW size \in Sizes, sizes' = Append(sizes, size), Len(sizes) < MaxMsgs,
               UNCHANGED <<delivered, ropen>>
        PROVE  Channel!Send
    <3> DEFINE m == [id |-> Len(sizes) + 1, size |-> size]
    <3>1. m \in Message
      <4>1. Len(sizes) + 1 \in 1..MaxMsgs
        BY <2>1, <2>4, UnitsAssumption
      <4> QED  BY <4>1 DEF Message
    <3>2. /\ Len(sizes') = Len(sizes) + 1 /\ DOMAIN sizes' = 1..(Len(sizes) + 1)
          /\ \A i \in 1..Len(sizes) : sizes'[i] = sizes[i]
          /\ sizes'[Len(sizes) + 1] = size
      BY <2>1, <2>4, AppendProperties, LenProperties
    <3>3. [i \in 1..(Len(sizes) + 1) |-> [id |-> i, size |-> sizes'[i]]] = Append(sent, m)
      BY <2>1, <2>2, <3>2
    <3>4. [i \in DOMAIN sizes' |-> [id |-> i, size |-> sizes'[i]]]
             = Append([i \in DOMAIN sizes |-> [id |-> i, size |-> sizes[i]]], m)
      BY <2>1, <3>2, <3>3
    <3> HIDE DEF m
    <3> QED  BY <2>4, <3>1, <3>4 DEF Channel!Send
  <2>5. ASSUME ropen, UNCHANGED <<sizes, ropen>>, Len(delivered) + 1 \in 1..Len(sizes),
               delivered' = Append(delivered, [id   |-> Len(delivered) + 1,
                                               size |-> sizes[Len(delivered) + 1]])
        PROVE  Channel!Deliver
    <3>1. sent[Len(delivered) + 1] = [id   |-> Len(delivered) + 1,
                                      size |-> sizes[Len(delivered) + 1]]
      BY <2>5
    <3>2. Len(delivered) < Len(sent)
      BY <2>1, <2>2, <2>5
    <3> QED  BY <2>1, <2>5, <3>1, <3>2 DEF Channel!Deliver
  <2> QED  BY <2>3, <2>4, <2>5, FrameStep DEF Channel!Next
<1> QED  BY <1>1, <1>2, FrameInvHolds, PTL DEF Spec, ImplementsChannel, Channel!Spec
=============================================================================
