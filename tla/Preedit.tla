------------------------------ MODULE Preedit ------------------------------
(***************************************************************************)
(* How update_preedit (tip/src/text_service/chewing.rs) makes the text of  *)
(* the composition and the segments that are underlined apart: the         *)
(* intervals of the conversion editor, with the bopomofo put in at the     *)
(* cursor.                                                                 *)
(*                                                                         *)
(* The editor holds the characters 1..length; the bopomofo of the current  *)
(* syllable are the next ones.  A segment <<s, e>> is the text from        *)
(* position s up to position e.                                            *)
(***************************************************************************)
EXTENDS Integers, Sequences

CONSTANTS
    MaxLength,      \* bound: characters in the buffer
    MaxBopomofo     \* bound: bopomofo in a syllable

ASSUME LengthAssumption == MaxLength \in Nat /\ MaxBopomofo \in Nat

VARIABLES
    length,         \* characters in the buffer
    cursor,         \* chewing_editor.cursor()
    bopomofo_len,   \* bopomofo of the syllable being typed
    at,             \* the end of the last interval read
    composition_buf,
    segments,
    need_push_bopomofo,
    done            \* update_preedit has both

input == <<length, cursor, bopomofo_len>>
vars == <<input, at, composition_buf, segments, need_push_bopomofo, done>>
-----------------------------------------------------------------------------
\* The characters from position s up to position e of the buffer.
TextOf(s, e) == [k \in 1..(e - s) |-> s + k]
Bopomofo == TextOf(length, length + bopomofo_len)

Init ==
    /\ length \in 0..MaxLength
    /\ cursor \in 0..length
    /\ bopomofo_len \in 0..MaxBopomofo
    /\ at = 0
    /\ composition_buf = <<>>
    /\ segments = <<>>
    /\ need_push_bopomofo = (bopomofo_len > 0)
    /\ done = FALSE

\* "Bopomofo splits the segment"
SplitSegments(start, end) ==
    IF cursor = start
    THEN << <<cursor, cursor + bopomofo_len>>, <<start + bopomofo_len, end + bopomofo_len>> >>
    ELSE IF cursor = end
    THEN << <<start, end>>, <<cursor, cursor + bopomofo_len>> >>
    ELSE << <<start, cursor>>, <<cursor, cursor + bopomofo_len>>, <<cursor + bopomofo_len, end>> >>

PlainSegment_Unshifted(start, end) == <<start, end>>

PlainSegment_ShiftedBack(start, end) ==
    IF start > cursor THEN <<start + bopomofo_len, end + bopomofo_len>>
    ELSE <<start - bopomofo_len, end - bopomofo_len>>

PlainSegment(start, end) ==
    IF start > cursor /\ bopomofo_len > 0
    THEN <<start + bopomofo_len, end + bopomofo_len>>
    ELSE <<start, end>>

ReadInterval_DropsTail(end) ==
    /\ ~done /\ at < length
    /\ at' = end
    /\ IF at <= cursor /\ end >= cursor /\ need_push_bopomofo
       THEN /\ composition_buf' = composition_buf \o TextOf(at, cursor) \o Bopomofo
            /\ segments' = segments \o SplitSegments(at, end)
            /\ need_push_bopomofo' = FALSE
       ELSE /\ composition_buf' = composition_buf \o TextOf(at, end)
            /\ segments' = Append(segments, PlainSegment(at, end))
            /\ UNCHANGED need_push_bopomofo
    /\ UNCHANGED <<input, done>>

\* One turn of the loop over intervals(): they follow each other and are not empty.
ReadInterval(end) ==
    /\ ~done /\ at < length
    /\ at' = end
    /\ IF at <= cursor /\ end >= cursor /\ need_push_bopomofo
       THEN /\ composition_buf' =
                   composition_buf \o TextOf(at, cursor) \o Bopomofo \o TextOf(cursor, end)
            /\ segments' = segments \o SplitSegments(at, end)
            /\ need_push_bopomofo' = FALSE
       ELSE /\ composition_buf' = composition_buf \o TextOf(at, end)
            /\ segments' = Append(segments, PlainSegment(at, end))
            /\ UNCHANGED need_push_bopomofo
    /\ UNCHANGED <<input, done>>

Finish_NoSegment ==
    /\ ~done /\ at = length
    /\ done' = TRUE
    /\ composition_buf' = IF need_push_bopomofo THEN composition_buf \o Bopomofo
                                                ELSE composition_buf
    /\ UNCHANGED <<input, at, segments, need_push_bopomofo>>

\* After the loop: the bopomofo of an empty buffer.
Finish ==
    /\ ~done /\ at = length
    /\ done' = TRUE
    /\ IF need_push_bopomofo
       THEN /\ composition_buf' = composition_buf \o Bopomofo
            /\ segments' = Append(segments, <<0, bopomofo_len>>)
       ELSE UNCHANGED <<composition_buf, segments>>
    /\ UNCHANGED <<input, at, need_push_bopomofo>>

Next == (\E end \in (at + 1)..length : ReadInterval(end)) \/ Finish

Spec == Init /\ [][Next]_vars
-----------------------------------------------------------------------------
(***************************************************************************)
(* Properties.                                                             *)
(***************************************************************************)

\* Every variable has its type.
TypeOK ==
    /\ length \in 0..MaxLength
    /\ cursor \in 0..length
    /\ bopomofo_len \in 0..MaxBopomofo
    /\ at \in 0..length
    /\ composition_buf \in Seq(1..(length + bopomofo_len))
    /\ segments \in Seq(Nat \X Nat)
    /\ need_push_bopomofo \in BOOLEAN
    /\ done \in BOOLEAN

\* At every turn the text holds each character once, the bopomofo at the cursor:
\* "correctly handle mid-segment inserted bopomofo".
TextSoFar ==
    composition_buf =
        IF bopomofo_len = 0 THEN TextOf(0, at)
        ELSE IF need_push_bopomofo /\ ~done THEN TextOf(0, at)
        ELSE TextOf(0, cursor) \o Bopomofo \o TextOf(cursor, at)

\* The bopomofo is a segment of its own.
BopomofoHasItsSegment ==
    done /\ bopomofo_len > 0 =>
        \E i \in DOMAIN segments : segments[i] = <<cursor, cursor + bopomofo_len>>

\* The segments cover n characters one after the other.
Tile(segs, n) ==
    IF segs = <<>> THEN n = 0
    ELSE /\ segs[1][1] = 0 /\ segs[Len(segs)][2] = n
         /\ \A i \in DOMAIN segs : segs[i][1] < segs[i][2]
         /\ \A i \in 1..(Len(segs) - 1) : segs[i][2] = segs[i + 1][1]

\* Without bopomofo, and with the cursor at either end of the buffer, the segments
\* cover the composition ("draw preedit text segments with different underline
\* style").
SegmentsTileAtTheEnds ==
    done /\ (bopomofo_len = 0 \/ cursor = 0 \/ cursor = length) =>
        Tile(segments, length + bopomofo_len)

\* The same for a cursor anywhere: the segments cover the composition when the
\* bopomofo is typed in the middle of a segment or between two.
SegmentsTile == done => Tile(segments, length + bopomofo_len)
=============================================================================
