--------------------------- MODULE Preedit_proofs ---------------------------
(***************************************************************************)
(* The text that update_preedit composes and the segments it underlines,   *)
(* for a buffer of any length, any intervals and any place of the cursor.  *)
(***************************************************************************)
EXTENDS Preedit, SequenceTheorems, TLAPS

\* The bopomofo is still to come exactly while the cursor has not been reached.
PushedAtCursor ==
    /\ length \in Nat /\ cursor \in 0..length /\ bopomofo_len \in Nat /\ at \in 0..length
    /\ need_push_bopomofo =>
          bopomofo_len > 0 /\ at <= cursor /\ (at > 0 => at < cursor)
    /\ ~need_push_bopomofo /\ bopomofo_len > 0 => cursor <= at
    /\ done => at = length

IInv == PushedAtCursor /\ TextSoFar

\* Texts that follow each other in the buffer make one text.
LEMMA TextsJoin ==
    ASSUME NEW s \in Nat, NEW m \in Nat, NEW e \in Nat, s <= m, m <= e
    PROVE  TextOf(s, m) \o TextOf(m, e) = TextOf(s, e)
<1> DEFINE p == TextOf(s, m)
           q == TextOf(m, e)
           r == TextOf(s, e)
<1>1. /\ p \in Seq(Nat) /\ Len(p) = m - s /\ \A k \in 1..(m - s) : p[k] = s + k
      /\ q \in Seq(Nat) /\ Len(q) = e - m /\ \A k \in 1..(e - m) : q[k] = m + k
      /\ r \in Seq(Nat) /\ Len(r) = e - s /\ \A k \in 1..(e - s) : r[k] = s + k
  BY DEF TextOf
<1> HIDE DEF p, q, r
<1>2. /\ p \o q \in Seq(Nat)
      /\ Len(p \o q) = Len(p) + Len(q)
      /\ \A k \in 1..(Len(p) + Len(q)) :
            (p \o q)[k] = IF k <= Len(p) THEN p[k] ELSE q[k - Len(p)]
  BY <1>1, ConcatProperties
<1>3. Len(p) + Len(q) = e - s
  BY <1>1
<1>4. Len(p \o q) = Len(r)
  BY <1>1, <1>2, <1>3
<1>5. \A k \in 1..Len(r) : (p \o q)[k] = r[k]
  <2> SUFFICES ASSUME NEW k \in 1..(e - s)
               PROVE  (p \o q)[k] = r[k]
    BY <1>1
  <2>1. CASE k <= m - s
    BY <2>1, <1>1, <1>2, <1>3
  <2>2. CASE ~(k <= m - s)
    <3>1. k - (m - s) \in 1..(e - m)
      BY <2>2
    <3>2. q[k - (m - s)] = m + (k - (m - s))
      BY <3>1, <1>1
    <3>3. (p \o q)[k] = q[k - (m - s)]
      BY <2>2, <1>1, <1>2, <1>3
    <3> QED
      BY <3>2, <3>3, <1>1
  <2> QED
    BY <2>1, <2>2
<1>6. p \o q = r
  BY <1>1, <1>2, <1>4, <1>5, SeqEqual
<1> QED
  BY <1>6 DEF p, q, r

\* A text is a sequence, and an empty interval has none.
LEMMA TextTypes ==
    ASSUME NEW s \in Nat, NEW e \in Nat, s <= e
    PROVE  TextOf(s, e) \in Seq(Nat) /\ TextOf(s, s) = <<>>
BY DEF TextOf

LEMMA Associative ==
    ASSUME NEW p \in Seq(Nat), NEW q \in Seq(Nat), NEW r \in Seq(Nat)
    PROVE  (p \o q) \o r = p \o (q \o r)
OBVIOUS

\* What the loop appends in front of the cursor, around it and behind it.
LEMMA BeforeCursor ==
    ASSUME NEW c \in Nat, NEW m \in Nat, NEW e \in Nat, m <= c, c <= e,
           NEW b \in Seq(Nat)
    PROVE  TextOf(0, m) \o TextOf(m, c) \o b \o TextOf(c, e)
             = TextOf(0, c) \o b \o TextOf(c, e)
<1>1. 0 \in Nat /\ 0 <= m
  OBVIOUS
<1>2. TextOf(0, m) \o TextOf(m, c) = TextOf(0, c)
  BY <1>1, TextsJoin
<1> QED
  BY <1>2, Zenon

LEMMA BehindCursor ==
    ASSUME NEW c \in Nat, NEW m \in Nat, NEW e \in Nat, c <= m, m <= e,
           NEW b \in Seq(Nat)
    PROVE  (TextOf(0, c) \o b \o TextOf(c, m)) \o TextOf(m, e)
             = TextOf(0, c) \o b \o TextOf(c, e)
<1> DEFINE p == TextOf(0, c)
           q == TextOf(c, m)
           r == TextOf(m, e)
<1>1. p \in Seq(Nat) /\ q \in Seq(Nat) /\ r \in Seq(Nat)
  BY TextTypes, SMTT(30)
<1>2. q \o r = TextOf(c, e)
  BY TextsJoin
<1> HIDE DEF p, q, r
<1>3. p \o b \in Seq(Nat)
  BY <1>1, ConcatProperties
<1>4. ((p \o b) \o q) \o r = (p \o b) \o (q \o r)
  BY <1>1, <1>3, Associative, Zenon
<1> QED
  BY <1>4, <1>2, Zenon DEF p, q, r

LEMMA AroundNothing ==
    ASSUME NEW b \in Seq(Nat)
    PROVE  TextOf(0, 0) \o b = TextOf(0, 0) \o b \o TextOf(0, 0)
<1>1. TextOf(0, 0) = <<>> /\ TextOf(0, 0) \in Seq(Nat)
  BY TextTypes
<1>2. TextOf(0, 0) \o b \in Seq(Nat)
  BY <1>1, ConcatProperties
<1> QED
  BY <1>1, <1>2, ConcatEmptySeq

LEMMA BopomofoTypes ==
    ASSUME length \in Nat, bopomofo_len \in Nat
    PROVE  Bopomofo \in Seq(Nat)
<1>1. length + bopomofo_len \in Nat /\ length <= length + bopomofo_len
  OBVIOUS
<1> QED
  BY <1>1, TextTypes DEF Bopomofo
-----------------------------------------------------------------------------
LEMMA InitHolds == Init => IInv
<1> SUFFICES ASSUME Init
             PROVE  IInv
  OBVIOUS
<1>1. length \in Nat /\ cursor \in 0..length /\ bopomofo_len \in Nat /\ at \in 0..length
  BY LengthAssumption DEF Init
<1>2. at = 0 /\ ~done /\ (need_push_bopomofo <=> bopomofo_len > 0)
  BY Zenon DEF Init
<1>3. PushedAtCursor
  BY <1>1, <1>2 DEF PushedAtCursor
<1>4. composition_buf = TextOf(0, at)
  BY <1>2, TextTypes DEF Init
<1>5. bopomofo_len = 0 \/ need_push_bopomofo
  BY <1>1, <1>2
<1> QED
  BY <1>2, <1>3, <1>4, <1>5, Zenon DEF IInv, TextSoFar

\* A turn of the loop, in front of the cursor, at it and behind it.
LEMMA ReadIntervalStep ==
    ASSUME IInv, NEW end \in (at + 1)..length, ReadInterval(end)
    PROVE  IInv'
<1>1. /\ length \in Nat /\ cursor \in 0..length /\ bopomofo_len \in Nat
      /\ at \in 0..length /\ end \in 0..length /\ at < end
      /\ ~done /\ at' = end
      /\ length' = length /\ cursor' = cursor /\ bopomofo_len' = bopomofo_len
      /\ done' = done
      /\ at \in Nat /\ end \in Nat /\ cursor \in Nat
  BY DEF IInv, PushedAtCursor, ReadInterval, input
<1>2. Bopomofo \in Seq(Nat) /\ Bopomofo' = Bopomofo
  BY <1>1, BopomofoTypes DEF Bopomofo
<1>3. /\ 0 \in Nat /\ at \in Nat /\ end \in Nat /\ cursor \in Nat
      /\ 0 <= at /\ at <= end
  BY <1>1
<1>4. CASE at <= cursor /\ end >= cursor /\ need_push_bopomofo
  <2>1. /\ composition_buf = TextOf(0, at) /\ bopomofo_len > 0
        /\ need_push_bopomofo' = FALSE
        /\ composition_buf' =
               composition_buf \o TextOf(at, cursor) \o Bopomofo \o TextOf(cursor, end)
    BY <1>1, <1>4 DEF IInv, PushedAtCursor, TextSoFar, ReadInterval
  <2>2. composition_buf' = TextOf(0, cursor) \o Bopomofo \o TextOf(cursor, end)
    BY <1>1, <1>2, <1>4, <2>1, BeforeCursor, ZenonT(30)
  <2>3. bopomofo_len' # 0 /\ ~need_push_bopomofo'
    BY <1>1, <2>1
  <2>5. TextSoFar'
    BY <1>1, <1>2, <2>2, <2>3, Zenon DEF TextSoFar
  <2>4. PushedAtCursor'
    BY <1>1, <1>4, <2>1 DEF PushedAtCursor
  <2> QED
    BY <2>4, <2>5 DEF IInv
<1>5. CASE ~(at <= cursor /\ end >= cursor /\ need_push_bopomofo)
  <2>1. /\ need_push_bopomofo' = need_push_bopomofo
        /\ composition_buf' = composition_buf \o TextOf(at, end)
    BY <1>5 DEF ReadInterval
  <2>2. need_push_bopomofo => bopomofo_len > 0 /\ at <= cursor /\ end < cursor
    BY <1>1, <1>5 DEF IInv, PushedAtCursor
  <2>3. ~need_push_bopomofo /\ bopomofo_len > 0 => cursor <= at
    BY DEF IInv, PushedAtCursor
  <2>4. PushedAtCursor'
    BY <1>1, <2>1, <2>2, <2>3 DEF PushedAtCursor
  <2>5. CASE bopomofo_len = 0 \/ need_push_bopomofo
    <3>1. composition_buf = TextOf(0, at)
      BY <1>1, <2>5 DEF IInv, TextSoFar
    <3>2. TextOf(0, at) \o TextOf(at, end) = TextOf(0, end)
      BY <1>3, TextsJoin, Zenon
    <3>3. composition_buf' = TextOf(0, end)
      BY <2>1, <3>1, <3>2
    <3>4. bopomofo_len' = 0 \/ (need_push_bopomofo' /\ ~done')
      BY <1>1, <2>1, <2>5
    <3>5. TextSoFar'
      BY <1>1, <3>3, <3>4, Zenon DEF TextSoFar
    <3> QED
      BY <2>4, <3>5 DEF IInv
  <2>6. CASE bopomofo_len # 0 /\ ~need_push_bopomofo
    <3>1. composition_buf = TextOf(0, cursor) \o Bopomofo \o TextOf(cursor, at)
      BY <2>6 DEF IInv, TextSoFar
    <3>2. cursor <= at
      BY <1>1, <2>3, <2>6
    <3>3. (TextOf(0, cursor) \o Bopomofo \o TextOf(cursor, at)) \o TextOf(at, end)
             = TextOf(0, cursor) \o Bopomofo \o TextOf(cursor, end)
      BY <1>2, <1>3, <3>2, BehindCursor, Zenon
    <3>4. composition_buf' = TextOf(0, cursor) \o Bopomofo \o TextOf(cursor, end)
      BY <2>1, <3>1, <3>3, Zenon
    <3>5. bopomofo_len' # 0 /\ ~need_push_bopomofo'
      BY <1>1, <2>1, <2>6
    <3>6. TextSoFar'
      BY <1>1, <1>2, <3>4, <3>5, Zenon DEF TextSoFar
    <3> QED
      BY <2>4, <3>6 DEF IInv
  <2> QED
    BY <2>5, <2>6
<1> QED
  BY <1>4, <1>5

\* After the loop the bopomofo is still to come only for an empty buffer.
LEMMA FinishStep ==
    ASSUME IInv, Finish
    PROVE  IInv'
<1>1. /\ length \in Nat /\ cursor \in 0..length /\ bopomofo_len \in Nat
      /\ at = length /\ ~done /\ done' = TRUE
      /\ length' = length /\ cursor' = cursor /\ bopomofo_len' = bopomofo_len
      /\ at' = at /\ need_push_bopomofo' = need_push_bopomofo
      /\ cursor \in Nat
  BY DEF IInv, PushedAtCursor, Finish, input
<1>2. Bopomofo \in Seq(Nat) /\ Bopomofo' = Bopomofo
  BY <1>1, BopomofoTypes DEF Bopomofo
<1>3. PushedAtCursor'
  BY <1>1 DEF IInv, PushedAtCursor
<1>4. CASE need_push_bopomofo
  <2>1. at = 0 /\ cursor = 0 /\ bopomofo_len > 0
    BY <1>1, <1>4 DEF IInv, PushedAtCursor
  <2>2. composition_buf = TextOf(0, 0) /\ composition_buf' = composition_buf \o Bopomofo
    BY <1>1, <1>4, <2>1 DEF IInv, TextSoFar, Finish
  <2>3. composition_buf' = TextOf(0, 0) \o Bopomofo \o TextOf(0, 0)
    BY <1>2, <2>2, AroundNothing
  <2> QED
    BY <1>1, <1>2, <1>3, <2>1, <2>3 DEF IInv, TextSoFar, TextOf
<1>5. CASE ~need_push_bopomofo
  <2>1. composition_buf' = composition_buf
    BY <1>5 DEF Finish
  <2> QED
    BY <1>1, <1>2, <1>3, <1>5, <2>1 DEF IInv, TextSoFar, TextOf
<1> QED
  BY <1>4, <1>5

\* At every turn of update_preedit each character is in the text once and in its
\* order, and the bopomofo is at the cursor, whatever the intervals are.
THEOREM TextIsComposed == Spec => []TextSoFar
<1>1. IInv /\ [Next]_vars => IInv'
  <2> SUFFICES ASSUME IInv, [Next]_vars
               PROVE  IInv'
    OBVIOUS
  <2>1. CASE \E end \in (at + 1)..length : ReadInterval(end)
    BY <2>1, ReadIntervalStep
  <2>2. CASE Finish
    BY <2>2, FinishStep
  <2>3. CASE UNCHANGED vars
    BY <2>3 DEF vars, input, IInv, PushedAtCursor, TextSoFar, TextOf, Bopomofo
  <2> QED
    BY <2>1, <2>2, <2>3 DEF Next
<1>2. IInv => TextSoFar
  BY DEF IInv
<1> QED
  BY InitHolds, <1>1, <1>2, PTL DEF Spec
-----------------------------------------------------------------------------
(***************************************************************************)
(* The segments.                                                           *)
(***************************************************************************)

\* What the text is at every turn, and that it stays so.
LEMMA TextStep == IInv /\ [Next]_vars => IInv'
<1> SUFFICES ASSUME IInv, [Next]_vars
             PROVE  IInv'
  OBVIOUS
<1>1. CASE \E end \in (at + 1)..length : ReadInterval(end)
  BY <1>1, ReadIntervalStep
<1>2. CASE Finish
  BY <1>2, FinishStep
<1>3. CASE UNCHANGED vars
  BY <1>3 DEF vars, input, IInv, PushedAtCursor, TextSoFar, TextOf, Bopomofo
<1> QED
  BY <1>1, <1>2, <1>3 DEF Next

Segment == Nat \X Nat

HasSegment(segs, x) == \E i \in DOMAIN segs : segs[i] = x

\* The segments that have been pushed end here.
Covered == IF bopomofo_len > 0 /\ (done \/ ~need_push_bopomofo) THEN at + bopomofo_len ELSE at

\* The bopomofo that has been pushed is a segment of its own, and with the cursor at an
\* end of the buffer the segments cover what has been read.
SegmentsSoFar ==
    /\ segments \in Seq(Segment)
    /\ bopomofo_len > 0 /\ (done \/ ~need_push_bopomofo) =>
          HasSegment(segments, <<cursor, cursor + bopomofo_len>>)
    /\ bopomofo_len > 0 /\ ~need_push_bopomofo => at > 0
    /\ bopomofo_len = 0 \/ cursor = 0 \/ cursor = length => Tile(segments, Covered)

SInv == IInv /\ SegmentsSoFar

\* What Append keeps and adds.
LEMMA Appended ==
    ASSUME NEW segs \in Seq(Segment), NEW x \in Segment
    PROVE  /\ Append(segs, x) \in Seq(Segment)
           /\ Len(Append(segs, x)) = Len(segs) + 1
           /\ \A i \in 1..Len(segs) : Append(segs, x)[i] = segs[i]
           /\ Append(segs, x)[Len(segs) + 1] = x
           /\ DOMAIN Append(segs, x) = 1..(Len(segs) + 1)
           /\ DOMAIN segs = 1..Len(segs)
BY AppendProperties

\* The segment that is pushed is there, and one that was there stays.
LEMMA PushedIsThere ==
    ASSUME NEW segs \in Seq(Segment), NEW x \in Segment
    PROVE  HasSegment(Append(segs, x), x)
<1> DEFINE more == Append(segs, x)
<1>1. Len(segs) \in Nat /\ more[Len(segs) + 1] = x /\ DOMAIN more = 1..(Len(segs) + 1)
  BY Appended
<1> HIDE DEF more
<1>2. Len(segs) + 1 \in DOMAIN more
  BY <1>1
<1>3. HasSegment(more, x)
  BY <1>1, <1>2 DEF HasSegment
<1> QED
  BY <1>3 DEF more

LEMMA PushedStays ==
    ASSUME NEW segs \in Seq(Segment), NEW x \in Segment, NEW y,
           HasSegment(segs, y)
    PROVE  HasSegment(Append(segs, x), y)
<1> DEFINE more == Append(segs, x)
<1>1. /\ Len(segs) \in Nat
      /\ \A i \in 1..Len(segs) : more[i] = segs[i]
      /\ DOMAIN more = 1..(Len(segs) + 1) /\ DOMAIN segs = 1..Len(segs)
  BY Appended
<1> HIDE DEF more
<1>2. PICK i \in DOMAIN segs : segs[i] = y
  BY DEF HasSegment
<1>3. i \in DOMAIN more /\ more[i] = y
  BY <1>1, <1>2
<1> QED
  BY <1>3 DEF more, HasSegment

\* Segments that cover n characters, and the next one, cover up to its end.
LEMMA TileGrows ==
    ASSUME NEW segs \in Seq(Segment), NEW n \in Nat, NEW e \in Nat, n < e, Tile(segs, n)
    PROVE  Tile(Append(segs, <<n, e>>), e)
<1> DEFINE x == <<n, e>>
           more == Append(segs, x)
           last == Len(segs)
<1>0. x \in Segment /\ x[1] = n /\ x[2] = e
  BY DEF Segment
<1> HIDE DEF x
<1>1. /\ last \in Nat
      /\ more \in Seq(Segment)
      /\ Len(more) = last + 1
      /\ \A i \in 1..last : more[i] = segs[i]
      /\ more[last + 1] = x
      /\ DOMAIN more = 1..(last + 1) /\ DOMAIN segs = 1..last
  BY <1>0, Appended
<1>2. last \in Nat /\ (segs = <<>> <=> last = 0)
  BY EmptySeq, LenProperties
<1> HIDE DEF more, last
<1>3. more # <<>>
  BY <1>1, <1>2, EmptySeq
<1>4. CASE segs = <<>>
  <2>1. n = 0 /\ last = 0
    BY <1>2, <1>4 DEF Tile
  <2>2. Len(more) = 1 /\ DOMAIN more = 1..1 /\ more[1] = x
    BY <1>1, <2>1
  <2>3. more[1][1] = 0 /\ more[1][2] = e /\ more[1][1] < more[1][2]
    BY <1>0, <2>1, <2>2
  <2>4. Tile(more, e)
    BY <1>3, <2>2, <2>3 DEF Tile
  <2> QED
    BY <2>4 DEF more, x
<1>5. CASE segs # <<>>
  <2>1. /\ segs[1][1] = 0 /\ segs[last][2] = n
        /\ \A i \in 1..last : segs[i][1] < segs[i][2]
        /\ \A i \in 1..(last - 1) : segs[i][2] = segs[i + 1][1]
    BY <1>1, <1>5 DEF Tile, last
  <2>2. last \in 1..last /\ 1 \in 1..last
    BY <1>2, <1>5
  <2>3. more[1][1] = 0 /\ more[Len(more)][2] = e
    BY <1>0, <1>1, <2>1, <2>2
  <2>4. ASSUME NEW i \in 1..(last + 1)
        PROVE  more[i][1] < more[i][2]
    <3>1. i \in 1..last \/ i = last + 1
      BY <1>2
    <3> QED
      BY <3>1, <1>0, <1>1, <2>1
  <2>5. ASSUME NEW i \in 1..last
        PROVE  more[i][2] = more[i + 1][1]
    <3>1. CASE i = last
      BY <3>1, <1>0, <1>1, <2>1, <2>2
    <3>2. CASE i # last
      <4>1. i \in 1..(last - 1) /\ i + 1 \in 1..last
        BY <3>2, <1>2
      <4> QED
        BY <4>1, <1>1, <2>1
    <3> QED
      BY <3>1, <3>2
  <2>6. Len(more) - 1 = last
    BY <1>1, <1>2
  <2>7. Tile(more, e)
    BY <1>1, <1>3, <2>3, <2>4, <2>5, <2>6 DEF Tile
  <2> QED
    BY <2>7 DEF more, x
<1> QED
  BY <1>4, <1>5

\* Two and three segments are pushed one after the other.
LEMMA TwoThree ==
    ASSUME NEW segs \in Seq(Segment), NEW x \in Segment, NEW y \in Segment,
           NEW z \in Segment
    PROVE  /\ segs \o <<x, y>> = Append(Append(segs, x), y)
           /\ segs \o <<x, y, z>> = Append(Append(Append(segs, x), y), z)
<1>1. /\ <<x, y>> \in Seq(Segment) /\ <<x, y, z>> \in Seq(Segment)
      /\ Len(segs) \in Nat
  OBVIOUS
<1>2. segs \o <<x, y>> = Append(Append(segs, x), y)
  OBVIOUS
<1>3. segs \o <<x, y, z>> = Append(Append(Append(segs, x), y), z)
  OBVIOUS
<1> QED
  BY <1>2, <1>3

\* The parts of a segment that is split, pushed onto segments: the middle one is the
\* syllable's, and split at an end they cover up to the end behind it.
LEMMA TwoParts ==
    ASSUME NEW segs \in Seq(Segment), NEW m \in Nat, NEW c \in Nat, NEW e \in Nat,
           m < c, c < e
    PROVE  /\ segs \o << <<m, c>>, <<c, e>> >> \in Seq(Segment)
           /\ HasSegment(segs \o << <<m, c>>, <<c, e>> >>, <<m, c>>)
           /\ HasSegment(segs \o << <<m, c>>, <<c, e>> >>, <<c, e>>)
           /\ Tile(segs, m) => Tile(segs \o << <<m, c>>, <<c, e>> >>, e)
<1> DEFINE x == <<m, c>>
           y == <<c, e>>
           one == Append(segs, x)
           two == Append(one, y)
<1>1. x \in Segment /\ y \in Segment
  BY DEF Segment
<1>2. Tile(segs, m) => Tile(one, c)
  BY TileGrows
<1> HIDE DEF x, y
<1>3. one \in Seq(Segment)
  BY <1>1, Appended
<1>4. HasSegment(one, x)
  BY <1>1, PushedIsThere
<1> HIDE DEF one
<1>5. two \in Seq(Segment)
  BY <1>1, <1>3, Appended
<1>6. HasSegment(two, x)
  BY <1>1, <1>3, <1>4, PushedStays
<1>7. HasSegment(two, y)
  BY <1>1, <1>3, PushedIsThere
<1>8. Tile(one, c) => Tile(two, e)
  BY <1>3, TileGrows DEF y
<1> HIDE DEF two
<1>9. segs \o <<x, y>> = two
  BY <1>1, TwoThree DEF two, one
<1> QED
  BY <1>2, <1>5, <1>6, <1>7, <1>8, <1>9 DEF x, y

LEMMA ThreeParts ==
    ASSUME NEW segs \in Seq(Segment), NEW x \in Segment, NEW y \in Segment,
           NEW z \in Segment
    PROVE  segs \o <<x, y, z>> \in Seq(Segment) /\ HasSegment(segs \o <<x, y, z>>, y)
<1> DEFINE one == Append(segs, x)
           two == Append(one, y)
           three == Append(two, z)
<1>1. one \in Seq(Segment)
  BY Appended
<1> HIDE DEF one
<1>2. two \in Seq(Segment)
  BY <1>1, Appended
<1>3. HasSegment(two, y)
  BY <1>1, PushedIsThere
<1> HIDE DEF two
<1>4. three \in Seq(Segment)
  BY <1>2, Appended
<1>5. HasSegment(three, y)
  BY <1>2, <1>3, PushedStays
<1> HIDE DEF three
<1>6. segs \o <<x, y, z>> = three
  BY TwoThree DEF three, two, one
<1> QED
  BY <1>4, <1>5, <1>6

\* At the cursor the segment is split, and the last part ends behind the bopomofo.
LEMMA SplitIsPushed ==
    ASSUME SInv, NEW end \in (at + 1)..length, ReadInterval(end),
           at <= cursor, end >= cursor, need_push_bopomofo
    PROVE  SegmentsSoFar'
<1> DEFINE b == bopomofo_len
           syllable == <<cursor, cursor + b>>
           parts == SplitSegments(at, end)
           more == segments \o parts
<1>1. /\ length \in Nat /\ cursor \in 0..length /\ b \in Nat
      /\ at \in Nat /\ end \in Nat /\ cursor \in Nat /\ at < end /\ end <= length
      /\ ~done /\ at' = end /\ b > 0
      /\ length' = length /\ cursor' = cursor /\ b' = b
      /\ done' = done /\ need_push_bopomofo' = FALSE
      /\ segments' = more
  BY DEF SInv, IInv, PushedAtCursor, ReadInterval, input
<1>2. segments \in Seq(Segment)
  BY DEF SInv, SegmentsSoFar
<1>3. Covered = at /\ Covered' = end + b
  BY <1>1 DEF Covered
<1>4. cursor = 0 \/ cursor = length => Tile(segments, at)
  BY <1>3 DEF SInv, SegmentsSoFar
<1>5. /\ cursor + b \in Nat /\ at + b \in Nat /\ end + b \in Nat
      /\ cursor < cursor + b
  BY <1>1
<1>6. /\ more \in Seq(Segment)
      /\ HasSegment(more, syllable)
      /\ cursor = 0 \/ cursor = length => Tile(more, end + b)
  <2>1. CASE cursor = at
    <3> DEFINE two == segments \o << <<cursor, cursor + b>>, <<cursor + b, end + b>> >>
    <3>1. more = two
      BY <2>1 DEF SplitSegments
    <3>2. cursor + b < end + b
      BY <1>1, <2>1
    <3>3. /\ two \in Seq(Segment)
          /\ HasSegment(two, syllable)
          /\ Tile(segments, cursor) => Tile(two, end + b)
      BY <1>1, <1>2, <1>5, <3>2, TwoParts, Zenon
    <3> HIDE DEF more, two
    <3> QED
      BY <1>4, <2>1, <3>1, <3>3
  <2>2. CASE cursor # at /\ cursor = end
    <3> DEFINE two == segments \o << <<at, cursor>>, <<cursor, cursor + b>> >>
    <3>1. more = two
      BY <2>2 DEF SplitSegments
    <3>2. at < cursor
      BY <1>1, <2>2
    <3>3. /\ two \in Seq(Segment)
          /\ HasSegment(two, syllable)
          /\ Tile(segments, at) => Tile(two, cursor + b)
      BY <1>1, <1>2, <1>5, <3>2, TwoParts, Zenon
    <3> HIDE DEF more, two
    <3> QED
      BY <1>4, <2>2, <3>1, <3>3
  <2>3. CASE cursor # at /\ cursor # end
    <3> DEFINE three == segments \o << <<at, cursor>>, syllable, <<cursor + b, end>> >>
    <3>1. more = three
      BY <2>3 DEF SplitSegments
    <3>2. <<at, cursor>> \in Segment /\ syllable \in Segment /\ <<cursor + b, end>> \in Segment
      BY <1>1, <1>5 DEF Segment
    <3>3. cursor # 0 /\ cursor # length
      BY <1>1, <2>3
    <3> HIDE DEF syllable
    <3>4. three \in Seq(Segment) /\ HasSegment(three, syllable)
      BY <1>2, <3>2, ThreeParts, Zenon
    <3> HIDE DEF more, three
    <3> QED
      BY <3>1, <3>3, <3>4
  <2> QED
    BY <2>1, <2>2, <2>3
<1> HIDE DEF more
<1>7. /\ segments' \in Seq(Segment)
      /\ at' > 0 /\ b' # 0 /\ bopomofo_len' > 0
      /\ HasSegment(segments', <<cursor', cursor' + b'>>)
      /\ cursor' = 0 \/ cursor' = length' => Tile(segments', Covered')
  BY <1>1, <1>3, <1>6 DEF HasSegment
<1> QED
  BY <1>7 DEF SegmentsSoFar

\* Away from the cursor the segment is pushed whole, moved if it is behind.
LEMMA PlainIsPushed ==
    ASSUME SInv, NEW end \in (at + 1)..length, ReadInterval(end),
           ~(at <= cursor /\ end >= cursor /\ need_push_bopomofo)
    PROVE  SegmentsSoFar'
<1> DEFINE b == bopomofo_len
           plain == PlainSegment(at, end)
<1>1. /\ length \in Nat /\ cursor \in 0..length /\ b \in Nat
      /\ at \in Nat /\ end \in Nat /\ cursor \in Nat /\ at < end /\ end <= length
      /\ ~done /\ at' = end
      /\ length' = length /\ cursor' = cursor /\ bopomofo_len' = b
      /\ done' = done /\ need_push_bopomofo' = need_push_bopomofo
      /\ segments' = Append(segments, plain)
      /\ need_push_bopomofo => b > 0 /\ end < cursor
      /\ ~need_push_bopomofo /\ b > 0 => cursor <= at
  BY DEF SInv, IInv, PushedAtCursor, ReadInterval, input
<1>2. segments \in Seq(Segment)
  BY DEF SInv, SegmentsSoFar
<1>3. plain \in Segment
  BY <1>1 DEF PlainSegment, Segment
<1>4. segments' \in Seq(Segment)
  BY <1>1, <1>2, <1>3, Appended
<1>5. ASSUME b > 0, ~need_push_bopomofo
      PROVE  HasSegment(segments', <<cursor, cursor + b>>)
  <2>1. HasSegment(segments, <<cursor, cursor + b>>)
    BY <1>5 DEF SInv, SegmentsSoFar
  <2> HIDE DEF plain
  <2> QED
    BY <1>1, <1>2, <1>3, <2>1, PushedStays
<1>6. ASSUME b = 0 \/ cursor = 0 \/ cursor = length
      PROVE  Tile(segments', Covered')
  <2>1. Tile(segments, Covered) /\ (b > 0 /\ ~need_push_bopomofo => at > 0)
    BY <1>6 DEF SInv, SegmentsSoFar
  <2>2. CASE b > 0 /\ ~need_push_bopomofo
    <3>1. Covered = at + b /\ Covered' = end + b
      BY <1>1, <2>2 DEF Covered
    <3>2. cursor < at
      \* The cursor is at the front: where it is at the end, the loop ends when it is passed.
      <4>1. cursor <= at /\ cursor # length
        BY <1>1, <2>2
      <4>2. cursor = 0 /\ at > 0
        BY <1>1, <1>6, <2>1, <2>2, <4>1
      <4> QED
        BY <4>2
    <3>3. plain = <<at + b, end + b>>
      BY <1>1, <2>2, <3>2 DEF PlainSegment
    <3>4. at + b \in Nat /\ end + b \in Nat /\ at + b < end + b
      BY <1>1
    <3> QED
      BY <1>1, <1>2, <2>1, <3>1, <3>3, <3>4, TileGrows
  <2>3. CASE ~(b > 0 /\ ~need_push_bopomofo)
    <3>1. Covered = at /\ Covered' = end
      BY <1>1, <2>3 DEF Covered
    <3>2. plain = <<at, end>>
      BY <1>1, <2>3 DEF PlainSegment
    <3> QED
      BY <1>1, <1>2, <2>1, <3>1, <3>2, TileGrows
  <2> QED
    BY <2>2, <2>3
<1>7. at' > 0
  BY <1>1
<1> QED
  BY <1>1, <1>4, <1>5, <1>6, <1>7 DEF SegmentsSoFar

\* Before the first turn nothing has been pushed.
LEMMA NoSegmentYet == Init => SInv
<1> SUFFICES ASSUME Init
             PROVE  SInv
  OBVIOUS
<1>1. at = 0 /\ segments = <<>> /\ ~done /\ need_push_bopomofo = (bopomofo_len > 0)
  BY DEF Init
<1>2. Covered = 0
  BY <1>1 DEF Covered
<1>3. segments \in Seq(Segment)
  BY <1>1
<1>4. Tile(segments, 0)
  BY <1>1 DEF Tile
<1>5. SegmentsSoFar
  BY <1>1, <1>2, <1>3, <1>4 DEF SegmentsSoFar
<1> QED
  BY <1>5, InitHolds DEF SInv

\* After the loop the bopomofo of an empty buffer is the only segment.
LEMMA LastIsPushed ==
    ASSUME SInv, Finish
    PROVE  SegmentsSoFar'
<1> DEFINE b == bopomofo_len
<1>1. /\ length \in Nat /\ cursor \in 0..length /\ b \in Nat
      /\ at = length /\ ~done /\ done' = TRUE
      /\ length' = length /\ cursor' = cursor /\ b' = b /\ at' = at
      /\ need_push_bopomofo' = need_push_bopomofo
  BY DEF SInv, IInv, PushedAtCursor, Finish, input
<1>2. /\ segments \in Seq(Segment)
      /\ b > 0 /\ ~need_push_bopomofo =>
            /\ at > 0
            /\ HasSegment(segments, <<cursor, cursor + b>>)
      /\ b = 0 \/ cursor = 0 \/ cursor = length => Tile(segments, Covered)
  BY DEF SInv, SegmentsSoFar
<1>3. CASE need_push_bopomofo
  <2>1. at = 0 /\ cursor = 0 /\ length = 0 /\ b > 0
    BY <1>1, <1>3 DEF SInv, IInv, PushedAtCursor
  <2>2. segments' = Append(segments, <<0, b>>)
    BY <1>3 DEF Finish
  <2>3. <<0, b>> \in Segment
    BY <1>1 DEF Segment
  <2>4. segments' \in Seq(Segment)
    BY <1>2, <2>2, <2>3, Appended
  <2>5. HasSegment(segments', <<0, b>>)
    BY <1>2, <2>2, <2>3, PushedIsThere, Zenon
  <2>6. <<cursor', cursor' + b'>> = <<0, b>>
    BY <1>1, <2>1
  <2>7. Tile(segments, 0)
    BY <1>1, <1>2, <1>3, <2>1 DEF Covered
  <2>8. Tile(segments', b)
    <3>1. 0 \in Nat /\ b \in Nat /\ 0 < b
      BY <1>1, <2>1
    <3> QED
      BY <1>2, <2>2, <2>7, <3>1, TileGrows, Zenon
  <2>9. Covered' = b
    BY <1>1, <2>1 DEF Covered
  <2> QED
    BY <1>1, <1>3, <2>4, <2>5, <2>6, <2>8, <2>9 DEF SegmentsSoFar
<1>4. CASE ~need_push_bopomofo
  <2>1. segments' = segments
    BY <1>4 DEF Finish
  <2>2. Covered' = Covered
    BY <1>1, <1>4 DEF Covered
  <2> QED
    BY <1>1, <1>2, <1>4, <2>1, <2>2 DEF SegmentsSoFar
<1> QED
  BY <1>3, <1>4

\* Text and segments are as they should be at every turn.
LEMMA SegmentsInvariant == Spec => []SInv
<1>1. SInv /\ [Next]_vars => SInv'
  <2> SUFFICES ASSUME SInv, [Next]_vars
               PROVE  SInv'
    OBVIOUS
  <2>1. IInv'
    BY TextStep DEF SInv
  <2>2. CASE \E end \in (at + 1)..length : ReadInterval(end)
    <3>1. SegmentsSoFar'
      BY <2>2, SplitIsPushed, PlainIsPushed
    <3> QED
      BY <2>1, <3>1 DEF SInv
  <2>3. CASE Finish
    BY <2>1, <2>3, LastIsPushed DEF SInv
  <2>4. CASE UNCHANGED vars
    <3>1. SegmentsSoFar'
      BY <2>4 DEF SInv, SegmentsSoFar, HasSegment, Covered, Tile, vars, input
    <3> QED
      BY <2>1, <3>1 DEF SInv
  <2> QED
    BY <2>2, <2>3, <2>4 DEF Next
<1> QED
  BY NoSegmentYet, <1>1, PTL DEF Spec

\* When update_preedit is done the bopomofo of the syllable is a segment of its own, at
\* the cursor, whatever the intervals are.
THEOREM BopomofoIsSegment == Spec => []BopomofoHasItsSegment
<1>1. SInv => BopomofoHasItsSegment
  BY DEF SInv, SegmentsSoFar, HasSegment, BopomofoHasItsSegment
<1> QED
  BY SegmentsInvariant, <1>1, PTL

\* Where nothing is typed, or at either end of the buffer, the segments follow each
\* other and cover the composition: the attributes are set on all of it, once.
THEOREM SegmentsCover == Spec => []SegmentsTileAtTheEnds
<1>1. SInv => SegmentsTileAtTheEnds
  <2> SUFFICES ASSUME SInv, done, bopomofo_len = 0 \/ cursor = 0 \/ cursor = length
               PROVE  Tile(segments, length + bopomofo_len)
    BY DEF SegmentsTileAtTheEnds
  <2>1. Tile(segments, Covered)
    BY DEF SInv, SegmentsSoFar
  <2>2. at = length /\ length \in Nat /\ bopomofo_len \in Nat
    BY DEF SInv, IInv, PushedAtCursor
  <2>3. Covered = length + bopomofo_len
    BY <2>2 DEF Covered
  <2> QED
    BY <2>1, <2>3
<1> QED
  BY SegmentsInvariant, <1>1, PTL
-----------------------------------------------------------------------------
\* Parts of the buffer and of the syllable, one after the other, are a text.
LEMMA TextsInside ==
    ASSUME NEW n \in Nat, NEW s \in Nat, NEW e \in Nat, s <= e, e <= n
    PROVE  TextOf(s, e) \in Seq(1..n)
BY DEF TextOf

InputType ==
    /\ length \in 0..MaxLength
    /\ bopomofo_len \in 0..MaxBopomofo
    /\ need_push_bopomofo \in BOOLEAN
    /\ done \in BOOLEAN

\* Every variable has its type at every turn.
THEOREM TypeCorrect == Spec => []TypeOK
<1>1. Init => InputType
  <2> SUFFICES ASSUME Init
               PROVE  InputType
    OBVIOUS
  <2>1. length \in 0..MaxLength /\ bopomofo_len \in 0..MaxBopomofo
    BY DEF Init
  <2>2. need_push_bopomofo = (bopomofo_len > 0) /\ done = FALSE
    BY DEF Init
  <2>3. (bopomofo_len > 0) \in BOOLEAN
    OBVIOUS
  <2> QED
    BY <2>1, <2>2, <2>3, Zenon DEF InputType
<1>2. InputType /\ [Next]_vars => InputType'
  BY DEF InputType, Next, ReadInterval, Finish, vars, input
<1>3. SInv /\ InputType => TypeOK
  <2> SUFFICES ASSUME SInv, InputType
               PROVE  TypeOK
    OBVIOUS
  <2> DEFINE n == length + bopomofo_len
  <2>1. /\ length \in Nat /\ cursor \in 0..length /\ bopomofo_len \in Nat /\ at \in 0..length
        /\ ~need_push_bopomofo /\ bopomofo_len > 0 => cursor <= at
        /\ done => at = length
    BY DEF SInv, IInv, PushedAtCursor
  <2>2. /\ n \in Nat /\ 0 \in Nat /\ at \in Nat /\ cursor \in Nat
        /\ 0 <= at /\ at <= n /\ 0 <= cursor /\ cursor <= n
        /\ length <= n /\ n <= n
    BY <2>1
  <2>3. TextOf(0, at) \in Seq(1..n) /\ TextOf(0, cursor) \in Seq(1..n) /\ Bopomofo \in Seq(1..n)
    BY <2>1, <2>2, TextsInside DEF Bopomofo
  <2>4. composition_buf \in Seq(1..n)
    <3>1. CASE composition_buf = TextOf(0, at)
      BY <2>3, <3>1
    <3>2. CASE ~(composition_buf = TextOf(0, at))
      <4>1. composition_buf = TextOf(0, cursor) \o Bopomofo \o TextOf(cursor, at)
        BY <3>2 DEF SInv, IInv, TextSoFar
      <4>2. bopomofo_len # 0 /\ ~(need_push_bopomofo /\ ~done)
        BY <3>2 DEF SInv, IInv, TextSoFar
      <4>3. cursor <= at
        BY <2>1, <4>2
      <4>4. TextOf(cursor, at) \in Seq(1..n)
        BY <2>2, <4>3, TextsInside
      <4> HIDE DEF n
      <4>5. TextOf(0, cursor) \o Bopomofo \in Seq(1..n)
        BY <2>3, ConcatProperties
      <4> QED
        BY <4>1, <4>4, <4>5, ConcatProperties
    <3> QED
      BY <3>1, <3>2
  <2>5. segments \in Seq(Nat \X Nat)
    BY DEF SInv, SegmentsSoFar, Segment
  <2> QED
    BY <2>1, <2>4, <2>5 DEF TypeOK, InputType
<1> QED
  BY SegmentsInvariant, <1>1, <1>2, <1>3, PTL DEF Spec
=============================================================================
