------------------------- MODULE Composition_proofs -------------------------
(***************************************************************************)
(* Proofs about Composition, in two parts.                                 *)
(*                                                                         *)
(* The first holds of every behaviour: the types, and the order of the     *)
(* edit sessions that keeps at most one composition of the tip in the      *)
(* document, as long as TSF ends what it is told to end (Invariance and    *)
(* the theorems after it).                                                 *)
(*                                                                         *)
(* The second is about the text, and holds while none of the events that   *)
(* break it happens (Orderly): the editor and the document agree, the      *)
(* characters stay in the order they were typed, and Composition           *)
(* implements TextDelivery (OrderlyInvariance and the theorems after it).  *)
(***************************************************************************)
EXTENDS MCComposition, FlattenTheorems

(***************************************************************************)
(* SessionOrder of a cell c, queue q, pending place p and cells cs, so     *)
(* that it can be said of what a request returns before it is assigned.    *)
(***************************************************************************)
O1(c, q, p) == p # 0 => q[p].op = "set" /\ q[p].cell = c
O2(c, q) ==
    \A i \in DOMAIN q : q[i].op = "end" =>
        /\ q[i].cell # c
        /\ \A j \in DOMAIN q : i < j /\ UsesCell(q[j]) => q[j].cell # q[i].cell
O3(q) ==
    \A i, j \in DOMAIN q :
        i < j /\ UsesCell(q[i]) /\ UsesCell(q[j]) /\ q[i].cell # q[j].cell
        => \E k \in DOMAIN q : i <= k /\ k < j /\ EndsCell(q[k], q[i].cell)
O4(c, q) ==
    \A i \in DOMAIN q : UsesCell(q[i]) /\ q[i].cell # c =>
        \E k \in DOMAIN q : i <= k /\ EndsCell(q[k], q[i].cell)
O5(c, q, cs) ==
    \A d \in Cells : cs[d].state # "none" /\ d # c =>
        \E k \in DOMAIN q : EndsCell(q[k], d)
O6(q, cs) ==
    \A d \in Cells : cs[d].state = "live" =>
        \A j \in DOMAIN q : UsesCell(q[j]) /\ q[j].cell # d =>
            \E k \in DOMAIN q : k < j /\ EndsCell(q[k], d)
O7(cs) == \A d, e \in Cells : cs[d].state = "live" /\ cs[e].state = "live" => d = e

Ordered(c, q, p, cs) ==
    /\ O1(c, q, p) /\ O2(c, q) /\ O3(q) /\ O4(c, q)
    /\ O5(c, q, cs) /\ O6(q, cs) /\ O7(cs)

WellTyped(c, q, p, cs) ==
    /\ c \in Cells
    /\ q \in Seq(Session)
    /\ p \in 0..Len(q)
    /\ cs \in [Cells -> Slot]

LEMMA OrderedIsSessionOrder == SessionOrder <=> Ordered(cell, queue, pending, comps)
BY DEF SessionOrder, Ordered, PendingIsCurrent, NothingAfterEnd, EndedBeforeNext,
       GivenUpIsEnded, OwnedOnce, LiveIsFirst, SingleComposition, IsLive,
       O1, O2, O3, O4, O5, O6, O7

\* Changing the contents of sessions, and ending or forgetting compositions,
\* leaves the order as it is.
LEMMA SameShape ==
    ASSUME NEW c, NEW q, NEW p, NEW cs, NEW q2, NEW p2, NEW cs2,
           WellTyped(c, q, p, cs), WellTyped(c, q2, p2, cs2), Ordered(c, q, p, cs),
           Len(q2) = Len(q),
           \A i \in DOMAIN q : q2[i].op = q[i].op /\ q2[i].cell = q[i].cell,
           p2 \in {p, 0},
           \A d \in Cells : cs2[d].state = cs[d].state \/ cs2[d].state = "none"
                            \/ (cs2[d].state = "dead" /\ cs[d].state = "live")
    PROVE  Ordered(c, q2, p2, cs2)
<1>1. DOMAIN q2 = DOMAIN q
  BY DEF WellTyped
<1>2. O1(c, q2, p2)
  BY DEF Ordered, O1, WellTyped
<1>3. O2(c, q2)
  BY <1>1 DEF Ordered, O2, UsesCell
<1>7. O3(q2)
  <2> SUFFICES ASSUME NEW i \in DOMAIN q, NEW j \in DOMAIN q, i < j,
                      UsesCell(q2[i]), UsesCell(q2[j]), q2[i].cell # q2[j].cell
               PROVE  \E k \in DOMAIN q : i <= k /\ k < j /\ EndsCell(q2[k], q2[i].cell)
    BY <1>1 DEF O3
  <2>1. \E k \in DOMAIN q : i <= k /\ k < j /\ EndsCell(q[k], q[i].cell)
    BY DEF Ordered, O3, UsesCell
  <2> QED
    BY <2>1 DEF EndsCell
<1>8. O4(c, q2)
  BY <1>1 DEF Ordered, O4, UsesCell, EndsCell
<1>4. O5(c, q2, cs2)
  BY <1>1 DEF Ordered, O5, EndsCell
<1>5. O6(q2, cs2)
  BY <1>1 DEF Ordered, O6, EndsCell, UsesCell
<1>6. O7(cs2)
  BY DEF Ordered, O7
<1> QED
  BY <1>2, <1>3, <1>4, <1>5, <1>6, <1>7, <1>8 DEF Ordered

\* A session for the current composition, or for none, may be appended.
LEMMA AppendSession ==
    ASSUME NEW c, NEW q, NEW p, NEW cs, NEW s \in Session, NEW p2,
           WellTyped(c, q, p, cs), Ordered(c, q, p, cs),
           \/ s.op = "set" /\ s.cell = c /\ p2 = Len(q) + 1
           \/ s.op = "insert" /\ p2 = p
    PROVE  WellTyped(c, Append(q, s), p2, cs) /\ Ordered(c, Append(q, s), p2, cs)
<1> DEFINE r == Append(q, s)
<1>1. /\ r \in Seq(Session) /\ Len(r) = Len(q) + 1
      /\ DOMAIN r = 1..(Len(q) + 1) /\ DOMAIN q = 1..Len(q)
      /\ \A i \in DOMAIN q : i \in DOMAIN r /\ r[i] = q[i]
      /\ r[Len(q) + 1] = s /\ Len(q) \in Nat
  BY DEF WellTyped
<1> HIDE DEF r
<1>2. WellTyped(c, r, p2, cs)
  BY <1>1 DEF WellTyped
<1>3. O1(c, r, p2)
  BY <1>1 DEF Ordered, O1, WellTyped
<1>4. O2(c, r)
  BY <1>1 DEF Ordered, O2, UsesCell
<1>5. O3(r)
  <2> SUFFICES ASSUME NEW i \in DOMAIN r, NEW j \in DOMAIN r, i < j,
                      UsesCell(r[i]), UsesCell(r[j]), r[i].cell # r[j].cell
               PROVE  \E k \in DOMAIN r : i <= k /\ k < j /\ EndsCell(r[k], r[i].cell)
    BY DEF O3
  <2>1. CASE j \in DOMAIN q
    BY <2>1, <1>1 DEF Ordered, O3
  <2>2. CASE j = Len(q) + 1
    BY <2>2, <1>1 DEF Ordered, O4, UsesCell
  <2> QED
    BY <2>1, <2>2, <1>1
<1>6. O4(c, r)
  BY <1>1 DEF Ordered, O4, UsesCell
<1>7. O5(c, r, cs)
  BY <1>1 DEF Ordered, O5
<1>8. O6(r, cs)
  <2> SUFFICES ASSUME NEW d \in Cells, cs[d].state = "live",
                      NEW j \in DOMAIN r, UsesCell(r[j]), r[j].cell # d
               PROVE  \E k \in DOMAIN r : k < j /\ EndsCell(r[k], d)
    BY DEF O6
  <2>1. CASE j \in DOMAIN q
    BY <2>1, <1>1 DEF Ordered, O6
  <2>2. CASE j = Len(q) + 1
    BY <2>2, <1>1 DEF Ordered, O5, UsesCell
  <2> QED
    BY <2>1, <2>2, <1>1
<1> QED
  BY <1>2, <1>3, <1>4, <1>5, <1>6, <1>7, <1>8 DEF Ordered, r

\* The current composition may be ended and another cell c2 taken for the next.
LEMMA AppendEnd ==
    ASSUME NEW c, NEW q, NEW p, NEW cs, NEW c2 \in Cells,
           WellTyped(c, q, p, cs), Ordered(c, q, p, cs),
           c2 # c, \A i \in DOMAIN q : q[i].cell # c2
    PROVE  /\ WellTyped(c2, Append(q, EndSession(c)), 0, cs)
           /\ Ordered(c2, Append(q, EndSession(c)), 0, cs)
<1> DEFINE s == EndSession(c)
           r == Append(q, s)
<1>0. s \in Session /\ s.op = "end" /\ s.cell = c
  <2>1. <<>> \in Text
    BY DEF Text
  <2> QED
    BY <2>1 DEF WellTyped, EndSession, Session
<1>1. /\ r \in Seq(Session) /\ Len(r) = Len(q) + 1
      /\ DOMAIN r = 1..(Len(q) + 1) /\ DOMAIN q = 1..Len(q)
      /\ \A i \in DOMAIN q : i \in DOMAIN r /\ r[i] = q[i]
      /\ r[Len(q) + 1] = s /\ Len(q) \in Nat
  BY <1>0 DEF WellTyped
<1> HIDE DEF r, s
<1>2. WellTyped(c2, r, 0, cs)
  BY <1>1 DEF WellTyped
<1>3. O1(c2, r, 0)
  BY DEF O1
<1>4. O2(c2, r)
  BY <1>0, <1>1 DEF Ordered, O2, UsesCell
<1>5. O3(r)
  <2> SUFFICES ASSUME NEW i \in DOMAIN r, NEW j \in DOMAIN r, i < j,
                      UsesCell(r[i]), UsesCell(r[j]), r[i].cell # r[j].cell
               PROVE  \E k \in DOMAIN r : i <= k /\ k < j /\ EndsCell(r[k], r[i].cell)
    BY DEF O3
  <2>1. CASE j \in DOMAIN q
    BY <2>1, <1>1 DEF Ordered, O3
  <2>2. CASE j = Len(q) + 1
    BY <2>2, <1>0, <1>1 DEF Ordered, O4, UsesCell
  <2> QED
    BY <2>1, <2>2, <1>1
<1>6. O4(c2, r)
  <2> SUFFICES ASSUME NEW i \in DOMAIN r, UsesCell(r[i]), r[i].cell # c2
               PROVE  \E k \in DOMAIN r : i <= k /\ EndsCell(r[k], r[i].cell)
    BY DEF O4
  <2>1. CASE r[i].cell = c
    <3>1. Len(q) + 1 \in DOMAIN r /\ i <= Len(q) + 1 /\ EndsCell(r[Len(q) + 1], r[i].cell)
      BY <2>1, <1>0, <1>1 DEF EndsCell
    <3> QED
      BY <3>1
  <2>2. CASE r[i].cell # c
    BY <2>2, <1>0, <1>1 DEF Ordered, O4
  <2> QED
    BY <2>1, <2>2
<1>7. O5(c2, r, cs)
  <2> SUFFICES ASSUME NEW d \in Cells, cs[d].state # "none", d # c2
               PROVE  \E k \in DOMAIN r : EndsCell(r[k], d)
    BY DEF O5
  <2>1. CASE d = c
    BY <2>1, <1>0, <1>1 DEF EndsCell
  <2>2. CASE d # c
    BY <2>2, <1>1 DEF Ordered, O5
  <2> QED
    BY <2>1, <2>2
<1>8. O6(r, cs)
  <2> SUFFICES ASSUME NEW d \in Cells, cs[d].state = "live",
                      NEW j \in DOMAIN r, UsesCell(r[j]), r[j].cell # d
               PROVE  \E k \in DOMAIN r : k < j /\ EndsCell(r[k], d)
    BY DEF O6
  <2>1. CASE j \in DOMAIN q
    BY <2>1, <1>1 DEF Ordered, O6
  <2>2. CASE j = Len(q) + 1
    <3>1. \E k \in DOMAIN q : EndsCell(q[k], d)
      BY <2>2, <1>0, <1>1 DEF Ordered, O5
    <3> QED
      BY <3>1, <2>2, <1>1
  <2> QED
    BY <2>1, <2>2, <1>1
<1> QED
  BY <1>2, <1>3, <1>4, <1>5, <1>6, <1>7, <1>8 DEF Ordered, r, s
-----------------------------------------------------------------------------
(***************************************************************************)
(* What the requests of the handlers preserve.                             *)
(***************************************************************************)
IoRecord == [cell : Cells, queue : Seq(Session), pending : Nat]

Good(io, cs) ==
    /\ io \in IoRecord
    /\ WellTyped(io.cell, io.queue, io.pending, cs)
    /\ Ordered(io.cell, io.queue, io.pending, cs)

Room(io) == Cells \ CellsInUse(io) # {}

LEMMA SetSessionType ==
    ASSUME NEW c \in Cells, NEW commit \in Text, NEW preedit \in Text
    PROVE  /\ SetSession(c, commit, preedit) \in Session
           /\ SetSession(c, commit, preedit).op = "set"
           /\ SetSession(c, commit, preedit).cell = c
BY DEF SetSession, Session

LEMMA SetKeepsOrder ==
    ASSUME NEW io, NEW cs, NEW commit \in Text, NEW preedit \in Text,
           Good(io, cs), Room(io)
    PROVE  /\ Good(SetCompositionString(io, commit, preedit), cs)
           /\ Room(SetCompositionString(io, commit, preedit))
<1> DEFINE r == SetCompositionString(io, commit, preedit)
<1>1. CASE io.pending = 0
  <2> DEFINE s == SetSession(io.cell, commit, preedit)
  <2>1. s \in Session /\ s.op = "set" /\ s.cell = io.cell
    BY SetSessionType DEF Good, IoRecord
  <2>2. r = [cell |-> io.cell, queue |-> Append(io.queue, s), pending |-> Len(io.queue) + 1]
    BY <1>1 DEF SetCompositionString, Good, IoRecord
  <2> HIDE DEF s, r
  <2>3. /\ WellTyped(io.cell, Append(io.queue, s), Len(io.queue) + 1, cs)
        /\ Ordered(io.cell, Append(io.queue, s), Len(io.queue) + 1, cs)
    BY <2>1, AppendSession DEF Good
  <2>4. Good(r, cs)
    BY <2>2, <2>3 DEF Good, IoRecord, WellTyped
  <2>5. CellsInUse(r) = CellsInUse(io)
    BY <2>1, <2>2, SMTT(30) DEF CellsInUse, Good, IoRecord
  <2> QED
    BY <2>4, <2>5 DEF Room, r
<1>2. CASE io.pending # 0
  <2> DEFINE s == SetSession(io.queue[io.pending].cell, commit, preedit)
             q2 == [io.queue EXCEPT ![io.pending] = s]
  <2>1. /\ io.pending \in DOMAIN io.queue
        /\ io.queue[io.pending].op = "set" /\ io.queue[io.pending].cell = io.cell
    BY <1>2 DEF Good, WellTyped, Ordered, O1
  <2>2. s \in Session /\ s.op = "set" /\ s.cell = io.cell
    BY <2>1, SetSessionType DEF Good, IoRecord
  <2>3. r = [cell |-> io.cell, queue |-> q2, pending |-> io.pending]
    BY <1>2, <2>1 DEF SetCompositionString, Good, IoRecord
  <2> HIDE DEF s, r
  <2>4. /\ q2 \in Seq(Session) /\ Len(q2) = Len(io.queue) /\ DOMAIN q2 = DOMAIN io.queue
        /\ \A i \in DOMAIN io.queue : q2[i].op = io.queue[i].op /\ q2[i].cell = io.queue[i].cell
    BY <2>1, <2>2 DEF Good, IoRecord
  <2> HIDE DEF q2
  <2>5. WellTyped(io.cell, q2, io.pending, cs)
    BY <2>4 DEF Good, WellTyped
  <2>6. Ordered(io.cell, q2, io.pending, cs)
    BY <2>4, <2>5, SameShape DEF Good
  <2>7. Good(r, cs)
    BY <2>3, <2>5, <2>6 DEF Good, IoRecord, WellTyped
  <2>8. CellsInUse(r) = CellsInUse(io)
    BY <2>3, <2>4 DEF CellsInUse
  <2> QED
    BY <2>7, <2>8 DEF Room, r
<1> QED
  BY <1>1, <1>2

LEMMA EndKeepsOrder ==
    ASSUME NEW io, NEW cs, Good(io, cs), Room(io)
    PROVE  Good(EndComposition(io), cs)
<1> DEFINE r == EndComposition(io)
           c2 == FreshCell(io)
<1>1. c2 \in Cells /\ c2 \notin CellsInUse(io)
  BY DEF FreshCell, Room
<1>2. r = [cell |-> c2, queue |-> Append(io.queue, EndSession(io.cell)), pending |-> 0]
  BY DEF EndComposition
<1> HIDE DEF r, c2
<1>3. c2 # io.cell /\ \A i \in DOMAIN io.queue : io.queue[i].cell # c2
  BY <1>1 DEF CellsInUse
<1>4. /\ WellTyped(c2, Append(io.queue, EndSession(io.cell)), 0, cs)
      /\ Ordered(c2, Append(io.queue, EndSession(io.cell)), 0, cs)
  BY <1>1, <1>3, AppendEnd DEF Good
<1> QED
  BY <1>2, <1>3, <1>4 DEF Good, IoRecord, WellTyped, r

LEMMA InsertKeepsOrder ==
    ASSUME NEW io, NEW cs, NEW text \in Text, Good(io, cs)
    PROVE  Good(InsertText(io, text), cs)
<1> DEFINE r == InsertText(io, text)
           s == InsertSession(text)
<1>1. s \in Session /\ s.op = "insert"
  BY DEF InsertSession, Session, Text
<1>2. r = [cell |-> io.cell, queue |-> Append(io.queue, s), pending |-> io.pending]
  <2> DEFINE q2 == Append(io.queue, s)
  <2>1. r = [io EXCEPT !.queue = q2]
    BY DEF InsertText
  <2> HIDE DEF q2, r
  <2>2. [io EXCEPT !.queue = q2] = [cell |-> io.cell, queue |-> q2, pending |-> io.pending]
    BY DEF Good, IoRecord
  <2> QED
    BY <2>1, <2>2 DEF q2
<1> HIDE DEF r, s
<1>3. /\ WellTyped(io.cell, Append(io.queue, s), io.pending, cs)
      /\ Ordered(io.cell, Append(io.queue, s), io.pending, cs)
  BY <1>1, AppendSession DEF Good
<1> QED
  BY <1>2, <1>3 DEF Good, IoRecord, WellTyped, r

LEMMA UpdatePreeditKeepsOrder ==
    ASSUME NEW io, NEW cs, NEW commit \in Text, NEW preedit \in Text,
           NEW composing, NEW candidates, Good(io, cs), Room(io)
    PROVE  Good(UpdatePreedit(io, commit, preedit, composing, candidates), cs)
<1>1. /\ Good(SetCompositionString(io, commit, preedit), cs)
      /\ Room(SetCompositionString(io, commit, preedit))
  BY SetKeepsOrder
<1> QED
  BY <1>1, EndKeepsOrder DEF UpdatePreedit

\* The tail of a termination, with any of the compositions just ended.
LEMMA ClearKeepsOrder ==
    ASSUME NEW io, NEW cs, Good(io, cs)
    PROVE  /\ ClearPending(io).cell = io.cell
           /\ Good(ClearPending(io), [cs EXCEPT ![io.cell] = NoComposition])
<1> DEFINE r == ClearPending(io)
           cs2 == [cs EXCEPT ![io.cell] = NoComposition]
<1>1. NoComposition \in Slot /\ NoComposition.state = "none"
  BY DEF NoComposition, Slot, Text
<1>2. /\ cs2 \in [Cells -> Slot]
      /\ \A d \in Cells : cs2[d].state = cs[d].state \/ cs2[d].state = "none"
  BY <1>1 DEF Good, WellTyped
<1> HIDE DEF cs2
<1>3. CASE io.pending = 0
  <2>1. r = io
    BY <1>3 DEF ClearPending
  <2>2. WellTyped(io.cell, io.queue, io.pending, cs2)
    BY <1>2 DEF Good, WellTyped
  <2>3. Ordered(io.cell, io.queue, io.pending, cs2)
    BY <1>2, <2>2, SameShape DEF Good
  <2> QED
    BY <2>1, <2>2, <2>3 DEF Good, cs2
<1>4. CASE io.pending # 0
  <2> DEFINE s == [io.queue[io.pending] EXCEPT !.armed = FALSE]
             q2 == [io.queue EXCEPT ![io.pending] = s]
  <2>1. io.pending \in DOMAIN io.queue /\ io.queue[io.pending] \in Session
    BY <1>4 DEF Good, WellTyped
  <2>2. /\ s \in Session /\ s.op = io.queue[io.pending].op
        /\ s.cell = io.queue[io.pending].cell
    BY <2>1 DEF Session
  <2>3. r = [cell |-> io.cell, queue |-> q2, pending |-> 0]
    BY <1>4, <2>1 DEF ClearPending, Good, IoRecord
  <2> HIDE DEF s, r
  <2>4. /\ q2 \in Seq(Session) /\ Len(q2) = Len(io.queue)
        /\ \A i \in DOMAIN io.queue : q2[i].op = io.queue[i].op /\ q2[i].cell = io.queue[i].cell
    BY <2>1, <2>2 DEF Good, IoRecord
  <2> HIDE DEF q2
  <2>5. WellTyped(io.cell, q2, 0, cs2)
    BY <1>2, <2>4 DEF Good, WellTyped
  <2>6. Ordered(io.cell, q2, 0, cs2)
    BY <1>2, <2>4, <2>5, SameShape DEF Good
  <2> QED
    BY <2>3, <2>5, <2>6 DEF Good, IoRecord, WellTyped, r, cs2
<1> QED
  BY <1>3, <1>4

LEMMA TakenKeepsOrder ==
    ASSUME NEW io, NEW cs, NEW c \in Cells, Good(io, cs), cs[c].state = "live"
    PROVE  Good(io, [cs EXCEPT ![c] = [state |-> "dead", text |-> <<>>]])
<1> DEFINE cs2 == [cs EXCEPT ![c] = [state |-> "dead", text |-> <<>>]]
<1>1. /\ cs2 \in [Cells -> Slot]
      /\ \A d \in Cells : cs2[d].state = cs[d].state
                          \/ (cs2[d].state = "dead" /\ cs[d].state = "live")
  BY DEF Good, WellTyped, Slot, Text
<1> HIDE DEF cs2
<1>2. WellTyped(io.cell, io.queue, io.pending, cs2)
  BY <1>1 DEF Good, WellTyped
<1>3. Ordered(io.cell, io.queue, io.pending, cs2)
  BY <1>1, <1>2, SameShape DEF Good
<1> QED
  BY <1>2, <1>3 DEF Good, cs2
\* TSF takes the oldest session off the queue and runs it: a set may start the
\* composition of its cell, an end empties its cell.
LEMMA RunKeepsOrder ==
    ASSUME NEW c, NEW q, NEW p, NEW cs, NEW cs2,
           WellTyped(c, q, p, cs), Ordered(c, q, p, cs), q # <<>>,
           cs2 \in [Cells -> Slot],
           \/ /\ q[1].op = "set"
              /\ \A d \in Cells : cs2[d].state = cs[d].state
                                  \/ (d = q[1].cell /\ cs2[d].state = "live")
           \/ /\ q[1].op = "end"
              /\ \A d \in Cells : \/ d = q[1].cell /\ cs2[d].state = "none"
                                  \/ d # q[1].cell /\ cs2[d].state = cs[d].state
           \/ /\ q[1].op = "insert"
              /\ \A d \in Cells : cs2[d].state = cs[d].state
    PROVE  /\ WellTyped(c, Tail(q), IF p = 0 THEN 0 ELSE p - 1, cs2)
           /\ Ordered(c, Tail(q), IF p = 0 THEN 0 ELSE p - 1, cs2)
<1> DEFINE r == Tail(q)
           p2 == IF p = 0 THEN 0 ELSE p - 1
<1>1. /\ r \in Seq(Session) /\ Len(q) \in Nat /\ Len(q) > 0 /\ Len(r) = Len(q) - 1
      /\ DOMAIN q = 1..Len(q) /\ DOMAIN r = 1..(Len(q) - 1)
      /\ \A i \in DOMAIN r : r[i] = q[i + 1] /\ i + 1 \in DOMAIN q
  BY DEF WellTyped
<1>2. 1 \in DOMAIN q /\ q[1] \in Session
  BY <1>1 DEF WellTyped
<1> HIDE DEF r
\* A session that is not the first keeps its place, one nearer to the front.
<1>3. ASSUME NEW k \in DOMAIN q, k # 1
      PROVE  k - 1 \in DOMAIN r /\ r[k - 1] = q[k]
  BY <1>1, <1>3
<1>4. WellTyped(c, r, p2, cs2)
  BY <1>1 DEF WellTyped
<1>5. O1(c, r, p2)
  <2> SUFFICES ASSUME p2 # 0
               PROVE  r[p2].op = "set" /\ r[p2].cell = c
    BY DEF O1
  <2>1. p \in DOMAIN q /\ p # 1 /\ p2 = p - 1
    BY <1>1 DEF WellTyped
  <2>2. r[p2] = q[p]
    BY <1>3, <2>1
  <2> QED
    BY <2>1, <2>2, <1>1 DEF Ordered, O1
<1>6. O2(c, r)
  <2> SUFFICES ASSUME NEW i \in DOMAIN r, r[i].op = "end"
               PROVE  /\ r[i].cell # c
                      /\ \A j \in DOMAIN r : i < j /\ UsesCell(r[j]) => r[j].cell # r[i].cell
    BY DEF O2
  <2>1. r[i] = q[i + 1] /\ i + 1 \in DOMAIN q
    BY <1>1
  <2>2. ASSUME NEW j \in DOMAIN r, i < j, UsesCell(r[j])
        PROVE  r[j].cell # r[i].cell
    <3>1. r[j] = q[j + 1] /\ j + 1 \in DOMAIN q /\ i + 1 < j + 1
      BY <1>1, <2>2
    <3> QED
      BY <2>1, <2>2, <3>1 DEF Ordered, O2
  <2> QED
    BY <2>1, <2>2 DEF Ordered, O2
<1>7. O3(r)
  <2> SUFFICES ASSUME NEW i \in DOMAIN r, NEW j \in DOMAIN r, i < j,
                      UsesCell(r[i]), UsesCell(r[j]), r[i].cell # r[j].cell
               PROVE  \E k \in DOMAIN r : i <= k /\ k < j /\ EndsCell(r[k], r[i].cell)
    BY DEF O3
  <2>3. /\ r[i] = q[i + 1] /\ r[j] = q[j + 1] /\ i + 1 < j + 1
        /\ i + 1 \in DOMAIN q /\ j + 1 \in DOMAIN q
    BY <1>1
  <2>1. PICK k \in DOMAIN q : i + 1 <= k /\ k < j + 1 /\ EndsCell(q[k], r[i].cell)
    BY <2>3 DEF Ordered, O3
  <2>2. k - 1 \in DOMAIN r /\ r[k - 1] = q[k] /\ i <= k - 1 /\ k - 1 < j
    BY <1>1, <1>3, <2>1
  <2> QED
    BY <2>1, <2>2
<1>8. O4(c, r)
  <2> SUFFICES ASSUME NEW i \in DOMAIN r, UsesCell(r[i]), r[i].cell # c
               PROVE  \E k \in DOMAIN r : i <= k /\ EndsCell(r[k], r[i].cell)
    BY DEF O4
  <2>1. PICK k \in DOMAIN q : i + 1 <= k /\ EndsCell(q[k], r[i].cell)
    BY <1>1 DEF Ordered, O4
  <2>2. k - 1 \in DOMAIN r /\ r[k - 1] = q[k] /\ i <= k - 1
    BY <1>1, <1>3, <2>1
  <2> QED
    BY <2>1, <2>2
<1>9. O5(c, r, cs2)
  <2> SUFFICES ASSUME NEW d \in Cells, cs2[d].state # "none", d # c
               PROVE  \E k \in DOMAIN r : EndsCell(r[k], d)
    BY DEF O5
  <2>1. \E k \in DOMAIN q : k # 1 /\ EndsCell(q[k], d)
    <3>1. CASE cs[d].state # "none"
      BY <3>1 DEF Ordered, O5, EndsCell
    <3>2. CASE cs[d].state = "none"
      <4>1. q[1].op = "set" /\ d = q[1].cell
        BY <3>2
      <4> QED
        BY <4>1, <1>2 DEF Ordered, O4, UsesCell, EndsCell
    <3> QED
      BY <3>1, <3>2
  <2> QED
    BY <2>1, <1>3
<1>10. O6(r, cs2)
  <2> SUFFICES ASSUME NEW d \in Cells, cs2[d].state = "live",
                      NEW j \in DOMAIN r, UsesCell(r[j]), r[j].cell # d
               PROVE  \E k \in DOMAIN r : k < j /\ EndsCell(r[k], d)
    BY DEF O6
  <2>1. \E k \in DOMAIN q : k # 1 /\ k < j + 1 /\ EndsCell(q[k], d)
    <3>1. CASE cs[d].state = "live"
      <4>1. \E k \in DOMAIN q : k < j + 1 /\ EndsCell(q[k], d)
        BY <3>1, <1>1 DEF Ordered, O6
      <4> QED
        BY <4>1 DEF EndsCell
    <3>2. CASE cs[d].state # "live"
      <4>1. q[1].op = "set" /\ d = q[1].cell
        BY <3>2
      <4>2. /\ j + 1 \in DOMAIN q /\ 1 < j + 1
            /\ UsesCell(q[1]) /\ UsesCell(q[j + 1]) /\ q[1].cell # q[j + 1].cell
        BY <4>1, <1>1 DEF UsesCell
      <4>3. \E k \in DOMAIN q : k < j + 1 /\ EndsCell(q[k], d)
        BY <4>1, <4>2, <1>2 DEF Ordered, O3
      <4> QED
        BY <4>1, <4>3 DEF EndsCell
    <3> QED
      BY <3>1, <3>2
  <2>2. PICK k \in DOMAIN q : k # 1 /\ k < j + 1 /\ EndsCell(q[k], d)
    BY <2>1
  <2>3. k - 1 \in DOMAIN r /\ r[k - 1] = q[k] /\ k - 1 < j
    BY <1>1, <1>3, <2>2
  <2> QED
    BY <2>2, <2>3
<1>11. O7(cs2)
  <2> SUFFICES ASSUME NEW d \in Cells, NEW e \in Cells, d # e,
                      cs2[d].state = "live", cs2[e].state = "live"
               PROVE  FALSE
    BY DEF O7
  \* A composition that is live keeps the sessions of the others behind its end.
  <2>1. ASSUME NEW x \in Cells, cs[x].state = "live", q[1].op = "set", q[1].cell # x
        PROVE  FALSE
    <3>1. \E k \in DOMAIN q : k < 1
      BY <2>1, <1>2 DEF Ordered, O6, UsesCell
    <3> QED
      BY <3>1, <1>1
  <2>2. cs[d].state = "live" \/ cs[e].state = "live"
    OBVIOUS
  <2>3. ~(cs[d].state = "live" /\ cs[e].state = "live")
    BY DEF Ordered, O7
  <2> QED
    BY <2>1, <2>2, <2>3
<1> QED
  BY <1>4, <1>5, <1>6, <1>7, <1>8, <1>9, <1>10, <1>11 DEF Ordered, r
-----------------------------------------------------------------------------
(***************************************************************************)
(* The inductive invariant: the types, the order of the sessions, and why  *)
(* a composition may have no reference.                                    *)
(***************************************************************************)
OtherTypes ==
    /\ ed \in Editor
    /\ cand \in BOOLEAN
    /\ terminated \in BOOLEAN
    /\ enabled \in BOOLEAN
    /\ hasFocus \in BOOLEAN
    /\ keyBusy \in BOOLEAN
    /\ doc \in Text
    /\ typed \in Nat
    /\ sent \in Text
    /\ dropped \in SUBSET Nat
    /\ orphans \in Seq(Text)
    /\ disturbed \in BOOLEAN

\* A live composition has lost its last reference only for one of the two reasons.
Explained == orphans # <<>> => disturbed

IInv == OtherTypes /\ Good(Io, comps) /\ Explained

LEMMA InvariantImplies == IInv => TypeOK /\ SessionOrder /\ OneInTheDocument
<1> SUFFICES ASSUME IInv
             PROVE  TypeOK /\ SessionOrder /\ OneInTheDocument
  OBVIOUS
<1>1. TypeOK /\ SessionOrder
  BY OrderedIsSessionOrder DEF IInv, OtherTypes, Good, Io, WellTyped, TypeOK
<1>2. OneInTheDocument
  BY <1>1 DEF OneInTheDocument, SessionOrder, IInv, Explained
<1> QED
  BY <1>1, <1>2

LEMMA EditorTypes ==
    /\ NewEditor \in Editor
    /\ <<>> \in Text
    /\ \A e \in Editor : Preedit(e) \in Text /\ e.sel \in BOOLEAN
BY DEF NewEditor, Editor, Preedit, Text

LEMMA InitInvariant == Init => IInv
<1> SUFFICES ASSUME Init
             PROVE  IInv
  OBVIOUS
<1>0. orphans \in Seq(Text)
  BY DEF Init
<1>1. OtherTypes
  BY <1>0, EditorTypes DEF Init, OtherTypes
<1>2. cell \in Cells
  BY CellsAssumption DEF Init
<1>3. comps \in [Cells -> Slot] /\ \A c \in Cells : comps[c].state = "none"
  BY DEF Init, Slot, NoComposition, Text
<1>4. WellTyped(cell, queue, pending, comps)
  BY <1>2, <1>3 DEF Init, WellTyped
<1>5. Ordered(cell, queue, pending, comps)
  BY <1>3 DEF Init, Ordered, O1, O2, O3, O4, O5, O6, O7
<1>6. Io \in IoRecord
  BY <1>4 DEF Io, IoRecord, WellTyped
<1> QED
  BY <1>1, <1>4, <1>5, <1>6 DEF IInv, Good, Io, Explained, Init

\* What a handler computed is what it leaves.
LEMMA AssignGood ==
    ASSUME NEW io, NEW cs, Good(io, cs), Assign(io), comps' = cs
    PROVE  Good(Io, comps)'
<1>1. Io' = io
  BY DEF Good, IoRecord, Io, Assign
<1> QED
  BY <1>1 DEF Good

LEMMA RoomForRequests == HasRoom => Room(Io)
BY DEF HasRoom, Room

\* When the application ends the live composition, no other is live.
LEMMA NoneLiveAfterTaken ==
    ASSUME IInv, NEW c \in Cells, IsLive(c)
    PROVE  Good(Io, Taken(c)) /\ \A d \in Cells : Taken(c)[d].state # "live"
<1>1. Good(Io, comps) /\ comps[c].state = "live"
  BY DEF IInv, IsLive
<1>2. comps \in [Cells -> Slot] /\ O7(comps)
  BY <1>1 DEF Good, WellTyped, Ordered
<1>3. \A d \in Cells : Taken(c)[d].state # "live"
  BY <1>1, <1>2 DEF Taken, O7
<1> QED
  BY <1>1, <1>3, TakenKeepsOrder DEF Taken

LEMMA TextFacts ==
    /\ \A s, t \in Text : s \o t \in Text
    /\ \A n \in Nat : <<n>> \in Text
    /\ \A s \in Text, n \in Nat : Append(s, n) \in Text
    /\ \A s \in Text : Chars(s) \in SUBSET Nat
    /\ \A s \in Text : s # <<>> =>
          /\ Head(s) \in Nat /\ Tail(s) \in Text
          /\ SubSeq(s, 1, Len(s) - 1) \in Text /\ s[Len(s)] \in Nat
<1>1. \A s, t \in Text : s \o t \in Text
  BY DEF Text
<1>2. \A n \in Nat : <<n>> \in Text
  BY DEF Text
<1>3. \A s \in Text, n \in Nat : Append(s, n) \in Text
  BY DEF Text
<1>4. \A s \in Text : Chars(s) \in SUBSET Nat
  BY DEF Text, Chars
<1>5. ASSUME NEW s \in Text, s # <<>>
      PROVE  /\ Head(s) \in Nat /\ Tail(s) \in Text
             /\ SubSeq(s, 1, Len(s) - 1) \in Text /\ s[Len(s)] \in Nat
  <2>1. s \in Seq(Nat) /\ Len(s) \in Nat /\ Len(s) > 0
    BY <1>5 DEF Text
  <2> QED
    BY <2>1 DEF Text
<1> QED
  BY <1>1, <1>2, <1>3, <1>4, <1>5

\* What the application may end: the composition of a cell, or one without.
EndsIn(end, x) ==
    /\ IsLive(x) /\ end.comps = Taken(x)
    /\ end.orphans = orphans /\ end.text = comps[x].text
EndsOrphan(end, i) ==
    end.comps = comps /\ end.orphans = RemoveAt(orphans, i) /\ end.text = orphans[i]

LEMMA EndingsAre ==
    ASSUME NEW end \in Endings
    PROVE  \/ \E x \in Cells : EndsIn(end, x)
           \/ \E i \in DOMAIN orphans : EndsOrphan(end, i)
<1>1. CASE \E c \in {d \in Cells : IsLive(d)} :
             end = [comps |-> Taken(c), orphans |-> orphans, text |-> comps[c].text]
  BY <1>1 DEF EndsIn
<1>2. CASE \E i \in DOMAIN orphans :
             end = [comps |-> comps, orphans |-> RemoveAt(orphans, i), text |-> orphans[i]]
  BY <1>2 DEF EndsOrphan
<1> QED
  BY <1>1, <1>2, Zenon DEF Endings

LEMMA RemoveAtType ==
    ASSUME NEW T, NEW s \in Seq(T), NEW i \in DOMAIN s
    PROVE  RemoveAt(s, i) \in Seq(T) /\ s[i] \in T
<1>1. i \in 1..Len(s) /\ Len(s) \in Nat
  OBVIOUS
<1>2. SubSeq(s, 1, i - 1) \in Seq(T) /\ SubSeq(s, i + 1, Len(s)) \in Seq(T)
  BY <1>1
<1> QED
  BY <1>1, <1>2 DEF RemoveAt

\* It leaves the requests io in order, and a live composition only where there was
\* one that nothing refers to.
LEMMA EndingKeeps ==
    ASSUME IInv, NEW end \in Endings, NEW io, Good(io, comps)
    PROVE  /\ Good(io, end.comps)
           /\ doc \o end.text \in Text /\ end.orphans \in Seq(Text)
           /\ end.orphans # <<>> => disturbed
           /\ \A d \in Cells : end.comps[d].state = "live" => disturbed
<1>1. /\ comps \in [Cells -> Slot] /\ doc \in Text /\ orphans \in Seq(Text)
      /\ orphans # <<>> => disturbed
  BY DEF IInv, Good, WellTyped, OtherTypes, Explained
<1>2. ASSUME NEW x \in Cells, EndsIn(end, x)
      PROVE  /\ Good(io, end.comps)
             /\ doc \o end.text \in Text /\ end.orphans \in Seq(Text)
             /\ end.orphans # <<>> => disturbed
             /\ \A d \in Cells : end.comps[d].state = "live" => disturbed
  <2>1. Good(io, Taken(x))
    BY <1>2, TakenKeepsOrder DEF EndsIn, IsLive, Taken
  <2>2. \A d \in Cells : Taken(x)[d].state # "live"
    BY <1>2, NoneLiveAfterTaken DEF EndsIn
  <2>3. doc \o comps[x].text \in Text
    BY <1>1, TextFacts DEF Slot
  <2> QED
    BY <1>1, <1>2, <2>1, <2>2, <2>3, Zenon DEF EndsIn
<1>3. ASSUME NEW i \in DOMAIN orphans, EndsOrphan(end, i)
      PROVE  /\ Good(io, end.comps)
             /\ doc \o end.text \in Text /\ end.orphans \in Seq(Text)
             /\ end.orphans # <<>> => disturbed
             /\ \A d \in Cells : end.comps[d].state = "live" => disturbed
  <2>1. RemoveAt(orphans, i) \in Seq(Text) /\ orphans[i] \in Text
    BY <1>1, RemoveAtType
  <2>2. doc \o orphans[i] \in Text
    BY <1>1, <2>1, TextFacts
  <2>3. orphans # <<>>
    BY <1>3
  <2> QED
    BY <1>1, <1>3, <2>1, <2>2, <2>3, Zenon DEF EndsOrphan
<1> QED
  BY <1>2, <1>3, EndingsAre

\* Dropping the reference of a cell that may hold a live composition.
LEMMA DropStep ==
    ASSUME NEW cs \in [Cells -> Slot], NEW os \in Seq(Text), NEW c \in Cells, Drop(cs, os, c)
    PROVE  /\ comps' = [cs EXCEPT ![c] = NoComposition]
           /\ orphans' \in Seq(Text)
           /\ orphans' # <<>> => os # <<>> \/ cs[c].state = "live"
<1>1. cs[c].text \in Text
  BY DEF Slot
<1>2. CASE cs[c].state = "live"
  <2>1. Append(os, cs[c].text) \in Seq(Text)
    BY <1>1
  <2> QED
    BY <1>2, <2>1 DEF Drop
<1>3. CASE cs[c].state # "live"
  BY <1>3 DEF Drop
<1> QED
  BY <1>2, <1>3

LEMMA TerminatedTailStep ==
    ASSUME NEW io, NEW cs, NEW os \in Seq(Text), Good(io, cs), TerminatedTail(io, cs, os)
    PROVE  /\ Good(Io, comps)'
           /\ ed' \in Editor /\ cand' \in BOOLEAN /\ orphans' \in Seq(Text)
           /\ orphans' # <<>> => os # <<>> \/ cs[io.cell].state = "live"
<1>1. Good(ClearPending(io), [cs EXCEPT ![io.cell] = NoComposition])
  BY ClearKeepsOrder
<1>2. io.cell \in Cells /\ cs \in [Cells -> Slot]
  BY DEF Good, WellTyped
<1>3. /\ comps' = [cs EXCEPT ![io.cell] = NoComposition]
      /\ orphans' \in Seq(Text)
      /\ orphans' # <<>> => os # <<>> \/ cs[io.cell].state = "live"
  BY <1>2, DropStep DEF TerminatedTail
<1>4. Good(Io, comps)'
  BY <1>1, <1>3, AssignGood DEF TerminatedTail
<1> QED
  BY <1>3, <1>4, EditorTypes DEF TerminatedTail

\* The part of a key handler that is the same for every key.
LEMMA KeyStep ==
    ASSUME IInv, NEW e \in Editor, NEW commit \in Text, NEW printable,
           OnKeyDown(e, commit, printable)
    PROVE  /\ Good(Io, comps)'
           /\ ed' \in Editor /\ cand' \in BOOLEAN /\ doc' \in Text /\ sent' \in Text
           /\ orphans' \in Seq(Text) /\ disturbed' \in BOOLEAN /\ Explained'
           /\ UNCHANGED <<terminated, enabled, hasFocus>> /\ keyBusy' \in BOOLEAN
<1>1. Good(Io, comps) /\ OtherTypes /\ Room(Io) /\ Explained
  BY RoomForRequests DEF OnKeyDown, IInv
<1>2. /\ sent' \in Text /\ keyBusy' \in BOOLEAN
      /\ UNCHANGED <<terminated, enabled, hasFocus, disturbed>>
  BY <1>1 DEF OnKeyDown, OtherTypes, Text
<1>3. CASE CommitImmediately(e, commit)
  <2>1. Good(InsertText(Io, commit), comps)
    BY <1>1, InsertKeepsOrder
  <2>2. Good(Io, comps)'
    BY <1>3, <2>1, AssignGood DEF CommitImmediately
  <2> QED
    BY <1>1, <1>2, <1>3, <2>2 DEF CommitImmediately, OtherTypes, Explained
<1>4. CASE UpdateComposition(e, commit)
  <2>0. PICK shown \in BOOLEAN :
          LET composing == comps[cell].state # "none" \/ shown
              io == UpdatePreedit(Io, commit, Preedit(e), composing, shown)
          IN  \/ /\ Assign(io) /\ ed' = e /\ cand' = shown
                 /\ UNCHANGED <<comps, doc, orphans>>
              \/ \E end \in Endings :
                    /\ TerminatedTail(io, end.comps, end.orphans)
                    /\ doc' = doc \o end.text
    BY <1>4 DEF UpdateComposition, ListAfter, Editor
  <2> DEFINE io == UpdatePreedit(Io, commit, Preedit(e),
                                 comps[cell].state # "none" \/ shown, shown)
  <2>2. Good(io, comps)
    BY <1>1, EditorTypes, UpdatePreeditKeepsOrder
  <2>3. \/ /\ Assign(io) /\ ed' = e /\ cand' = shown
           /\ UNCHANGED <<comps, doc, orphans>>
        \/ \E end \in Endings :
              /\ TerminatedTail(io, end.comps, end.orphans)
              /\ doc' = doc \o end.text
    BY <2>0
  <2> HIDE DEF io
  <2>4. CASE Assign(io) /\ ed' = e /\ cand' = shown /\ UNCHANGED <<comps, doc, orphans>>
    <3>1. Good(Io, comps)'
      BY <2>2, <2>4, AssignGood
    <3> QED
      BY <3>1, <2>4, <1>1, <1>2, EditorTypes DEF OtherTypes, Explained
  <2>5. ASSUME NEW end \in Endings, TerminatedTail(io, end.comps, end.orphans),
               doc' = doc \o end.text
        PROVE  /\ Good(Io, comps)'
               /\ ed' \in Editor /\ cand' \in BOOLEAN /\ doc' \in Text
               /\ orphans' \in Seq(Text) /\ Explained'
    <3>1. io.cell \in Cells
      BY <2>2 DEF Good, WellTyped
    <3>2. /\ Good(io, end.comps)
          /\ doc' \in Text /\ end.orphans \in Seq(Text)
          /\ end.orphans # <<>> => disturbed
          /\ end.comps[io.cell].state = "live" => disturbed
      BY <2>2, <2>5, <3>1, EndingKeeps
    <3>3. /\ Good(Io, comps)'
          /\ ed' \in Editor /\ cand' \in BOOLEAN /\ orphans' \in Seq(Text)
          /\ orphans' # <<>> => disturbed
      BY <2>5, <3>2, TerminatedTailStep
    <3> QED
      BY <1>2, <3>2, <3>3 DEF Explained
  <2> QED
    BY <1>1, <1>2, <2>3, <2>4, <2>5 DEF OtherTypes
<1> QED
  BY <1>3, <1>4 DEF OnKeyDown
-----------------------------------------------------------------------------
(***************************************************************************)
(* Every step keeps the invariant.                                         *)
(***************************************************************************)
LEMMA KeyKeepsInvariant == IInv /\ Key => IInv'
<1> SUFFICES ASSUME IInv, Key
             PROVE  IInv'
  OBVIOUS
<1>1. /\ ed \in Editor /\ ed.buf \in Text /\ ed.syl \in Text
      /\ typed \in Nat /\ dropped \in SUBSET Nat
      /\ terminated \in BOOLEAN /\ enabled \in BOOLEAN /\ hasFocus \in BOOLEAN
  BY DEF IInv, OtherTypes, Editor
\* A key has an editor and a commit of the right types, and adds to typed or to
\* dropped.
<1>2. ASSUME NEW e \in Editor, NEW commit \in Text, NEW printable,
             OnKeyDown(e, commit, printable),
             typed' \in Nat, dropped' \in SUBSET Nat
      PROVE  IInv'
  BY <1>1, <1>2, KeyStep DEF IInv, OtherTypes, Explained
<1>3. CASE TypeBopomofo
  <2>1. [ed EXCEPT !.syl = <<typed + 1>>] \in Editor /\ <<>> \in Text
    BY <1>1, TextFacts, EditorTypes DEF Editor
  <2>2. typed' \in Nat /\ dropped' \in SUBSET Nat
    BY <1>1, <1>3 DEF TypeBopomofo, NewChar
  <2>3. OnKeyDown([ed EXCEPT !.syl = <<typed + 1>>], <<>>, TRUE)
    BY <1>3 DEF TypeBopomofo
  <2> QED
    BY <1>2, <2>1, <2>2, <2>3
<1>4. CASE FinishSyllable
  <2>1. ed.buf \o ed.syl \in Text /\ <<>> \in Text
    BY <1>1, TextFacts, EditorTypes
  <2>2. [ed EXCEPT !.buf = @ \o ed.syl, !.syl = <<>>] \in Editor
    BY <1>1, <2>1 DEF Editor
  <2> QED
    BY <1>1, <1>2, <1>4, <2>1, <2>2 DEF FinishSyllable
<1>5. CASE FinishSyllableAndOverflow
  <2>1. Tail(ed.buf) \o ed.syl \in Text /\ <<Head(ed.buf)>> \in Text /\ <<>> \in Text
    BY <1>1, <1>5, TextFacts, EditorTypes DEF FinishSyllableAndOverflow
  <2>2. [ed EXCEPT !.buf = Tail(@) \o ed.syl, !.syl = <<>>] \in Editor
    BY <1>1, <2>1 DEF Editor
  <2> QED
    BY <1>1, <1>2, <1>5, <2>1, <2>2 DEF FinishSyllableAndOverflow
<1>6. CASE TypeSymbol
  <2>1. Append(ed.buf, typed + 1) \in Text /\ <<typed + 1>> \in Text /\ <<>> \in Text
    BY <1>1, TextFacts, EditorTypes
  <2>2. [ed EXCEPT !.buf = Append(@, typed + 1)] \in Editor
    BY <1>1, <2>1 DEF Editor
  <2>3. typed' \in Nat /\ dropped' \in SUBSET Nat
    BY <1>1, <1>6 DEF TypeSymbol, NewChar
  <2>4. \/ OnKeyDown(ed, <<typed + 1>>, TRUE)
        \/ OnKeyDown([ed EXCEPT !.buf = Append(@, typed + 1)], <<>>, TRUE)
    BY <1>6 DEF TypeSymbol
  <2> QED
    BY <1>1, <1>2, <2>1, <2>2, <2>3, <2>4
<1>7. CASE PressEnter
  BY <1>1, <1>2, <1>7, EditorTypes DEF PressEnter
<1>8. CASE PressBackspace
  <2>1. CASE ed.syl # <<>>
    <3>1. [ed EXCEPT !.syl = <<>>] \in Editor /\ <<>> \in Text
      BY <1>1, EditorTypes DEF Editor
    <3>2. dropped \cup Chars(ed.syl) \in SUBSET Nat
      BY <1>1, TextFacts
    <3> QED
      BY <1>1, <1>2, <1>8, <2>1, <3>1, <3>2 DEF PressBackspace
  <2>2. CASE ed.syl = <<>>
    <3>1. ed.buf # <<>>
      BY <1>1, <1>8, <2>2 DEF PressBackspace, Preedit, Text
    <3>2. SubSeq(ed.buf, 1, Len(ed.buf) - 1) \in Text /\ ed.buf[Len(ed.buf)] \in Nat
      BY <1>1, <3>1, TextFacts
    <3>3. [ed EXCEPT !.buf = SubSeq(@, 1, Len(@) - 1)] \in Editor /\ <<>> \in Text
      BY <1>1, <3>2, EditorTypes DEF Editor
    <3>4. dropped \cup {ed.buf[Len(ed.buf)]} \in SUBSET Nat
      BY <1>1, <3>2
    <3> QED
      BY <1>1, <1>2, <1>8, <2>2, <3>3, <3>4 DEF PressBackspace
  <2> QED
    BY <2>1, <2>2
<1>9. CASE OpenCandidates
  <2>1. [ed EXCEPT !.sel = TRUE] \in Editor /\ <<>> \in Text
    BY <1>1, EditorTypes DEF Editor
  <2> QED
    BY <1>1, <1>2, <1>9, <2>1 DEF OpenCandidates
<1>10. CASE CloseCandidates
  <2>1. [ed EXCEPT !.sel = FALSE] \in Editor /\ <<>> \in Text
    BY <1>1, EditorTypes DEF Editor
  <2> QED
    BY <1>1, <1>2, <1>10, <2>1 DEF CloseCandidates
<1> QED
  BY <1>3, <1>4, <1>5, <1>6, <1>7, <1>8, <1>9, <1>10 DEF Key
LEMMA ToggleKeepsInvariant ==
    ASSUME IInv, RedrawAfterToggle
    PROVE  /\ Good([cell |-> cell', queue |-> queue', pending |-> pending'], comps)
           /\ ed' \in Editor /\ dropped' \in SUBSET Nat
<1>1. ed \in Editor /\ ed.syl \in Text /\ dropped \in SUBSET Nat
  BY DEF IInv, OtherTypes, Editor
<1> DEFINE e == [ed EXCEPT !.syl = <<>>]
<1>2. e \in Editor
  BY <1>1, EditorTypes DEF Editor
<1> HIDE DEF e
<1> DEFINE io == UpdatePreedit(Io, <<>>, Preedit(e), IsComposing, cand)
<1>3. Room(Io) /\ Good(Io, comps)
  BY RoomForRequests DEF RedrawAfterToggle, IInv
<1>4. Good(io, comps)
  BY <1>2, <1>3, EditorTypes, UpdatePreeditKeepsOrder
<1>5. Assign(io) /\ ed' = e /\ dropped' = dropped \cup Chars(ed.syl)
  BY DEF RedrawAfterToggle, e
<1> HIDE DEF io
<1>6. io = [cell |-> cell', queue |-> queue', pending |-> pending']
  BY <1>4, <1>5 DEF Assign, Good, IoRecord
<1> QED
  BY <1>1, <1>2, <1>4, <1>5, <1>6, TextFacts

\* The callbacks, one lemma for each.
LEMMA ToggleLangModeStep == IInv /\ ToggleLangMode => IInv'
<1> SUFFICES ASSUME IInv, ToggleLangMode
             PROVE  IInv'
  OBVIOUS
<1>1. Good([cell |-> cell', queue |-> queue', pending |-> pending'], comps)
      /\ ed' \in Editor /\ dropped' \in SUBSET Nat
  BY ToggleKeepsInvariant DEF ToggleLangMode
<1>2. Good(Io, comps)'
  BY <1>1 DEF ToggleLangMode, Io
<1> QED
  BY <1>1, <1>2 DEF ToggleLangMode, IInv, OtherTypes, Explained

LEMMA ToggleThenMessageFailsStep == IInv /\ ToggleThenMessageFails => IInv'
<1> SUFFICES ASSUME IInv, ToggleThenMessageFails
             PROVE  IInv'
  OBVIOUS
<1> DEFINE io == [cell |-> cell', queue |-> queue', pending |-> pending']
<1>1. Good(io, comps) /\ ed' \in Editor /\ dropped' \in SUBSET Nat
  BY ToggleKeepsInvariant DEF ToggleThenMessageFails
<1>2. io = Io'
  BY DEF Io
<1> HIDE DEF io
<1>3. PICK end \in Endings :
         comps' = end.comps /\ orphans' = end.orphans /\ doc' = doc \o end.text
  BY DEF ToggleThenMessageFails
<1>4. /\ Good(Io, comps)' /\ doc' \in Text /\ orphans' \in Seq(Text)
      /\ orphans' # <<>> => disturbed
  <2>1. /\ Good(io, end.comps) /\ doc \o end.text \in Text
        /\ end.orphans \in Seq(Text) /\ (end.orphans # <<>> => disturbed)
    BY <1>1, EndingKeeps
  <2>2. Good(io, end.comps) <=> Good(Io, comps)'
    BY <1>2, <1>3 DEF Good
  <2> QED
    BY <1>3, <2>1, <2>2
<1> QED
  BY <1>1, <1>4 DEF ToggleThenMessageFails, IInv, OtherTypes, Explained

LEMMA TailHandlerStep == IInv /\ TailHandler => IInv'
<1> SUFFICES ASSUME IInv, TailHandler
             PROVE  IInv'
  OBVIOUS
<1>1. orphans \in Seq(Text) /\ Good(Io, comps) /\ Io.cell = cell
  BY DEF IInv, OtherTypes, Io
<1>2. /\ Good(Io, comps)'
      /\ ed' \in Editor /\ cand' \in BOOLEAN /\ orphans' \in Seq(Text)
      /\ orphans' # <<>> => orphans # <<>> \/ comps[cell].state = "live"
  BY <1>1, TerminatedTailStep DEF TailHandler
<1>3. disturbed' \in BOOLEAN
  BY DEF TailHandler, IsLive, IInv, OtherTypes
<1>4. Explained'
  BY <1>2 DEF TailHandler, IsLive, IInv, Explained
<1> QED
  BY <1>2, <1>3, <1>4 DEF TailHandler, IInv, OtherTypes

LEMMA OnCompositionTerminatedStep == IInv /\ OnCompositionTerminated => IInv'
<1> SUFFICES ASSUME IInv, OnCompositionTerminated
             PROVE  IInv'
  OBVIOUS
<1>1. PICK end \in Endings : /\ TerminatedTail(Io, end.comps, end.orphans)
                             /\ doc' = doc \o end.text
  BY DEF OnCompositionTerminated
<1>2. Io.cell \in Cells /\ Good(Io, comps) /\ OtherTypes
  BY DEF IInv, Good, WellTyped
<1>3. /\ Good(Io, end.comps) /\ doc' \in Text /\ end.orphans \in Seq(Text)
      /\ end.orphans # <<>> => disturbed
      /\ end.comps[Io.cell].state = "live" => disturbed
  BY <1>1, <1>2, EndingKeeps
<1>4. /\ Good(Io, comps)'
      /\ ed' \in Editor /\ cand' \in BOOLEAN /\ orphans' \in Seq(Text)
      /\ orphans' # <<>> => disturbed
  BY <1>1, <1>3, TerminatedTailStep
<1> QED
  BY <1>2, <1>3, <1>4 DEF OnCompositionTerminated, IInv, OtherTypes, Explained

LEMMA TerminationFailsStep == IInv /\ TerminationFails => IInv'
<1> SUFFICES ASSUME IInv, TerminationFails
             PROVE  IInv'
  OBVIOUS
<1>1. PICK end \in Endings :
         comps' = end.comps /\ orphans' = end.orphans /\ doc' = doc \o end.text
  BY DEF TerminationFails
<1>2. Good(Io, comps) /\ OtherTypes /\ Io' = Io
  BY DEF IInv, TerminationFails, Io
<1>3. /\ Good(Io, end.comps) /\ doc' \in Text /\ orphans' \in Seq(Text)
      /\ orphans' # <<>> => disturbed
  BY <1>1, <1>2, EndingKeeps
<1>4. Good(Io, comps)'
  BY <1>1, <1>2, <1>3 DEF Good
<1> QED
  BY <1>2, <1>3, <1>4 DEF TerminationFails, IInv, OtherTypes, Explained

LEMMA OnCompartmentChangeStep == IInv /\ OnCompartmentChange => IInv'
<1> SUFFICES ASSUME IInv, OnCompartmentChange
             PROVE  IInv'
  OBVIOUS
<1>1. Good(Io, comps) /\ Room(Io) /\ OtherTypes /\ ed.buf \in Text
  BY RoomForRequests DEF OnCompartmentChange, IInv, OtherTypes, Editor
<1>2. Good(Io, comps)' /\ ed' \in Editor /\ sent' \in Text
  <2>1. CASE CommitAndEnd
    <3>1. Good(EndComposition(SetCompositionString(Io, ed.buf, <<>>)), comps)
      BY <1>1, SetKeepsOrder, EndKeepsOrder, EditorTypes
    <3>2. /\ \/ Assign(EndComposition(SetCompositionString(Io, ed.buf, <<>>)))
             \/ Assign(Io)
          /\ comps' = comps
      BY <2>1 DEF CommitAndEnd, OnCompartmentChange
    <3>3. Good(Io, comps)'
      BY <1>1, <3>1, <3>2, AssignGood
    <3> QED
      BY <1>1, <2>1, <3>3, EditorTypes, TextFacts, ZenonT(30) DEF CommitAndEnd, OtherTypes
  <2>2. CASE UNCHANGED <<cell, queue, pending, ed, sent>>
    <3>1. UNCHANGED <<cell, queue, pending, ed, sent, comps>>
      BY <2>2 DEF OnCompartmentChange
    <3> QED
      BY <1>1, <3>1 DEF OtherTypes, Io
  <2> QED
    BY <2>1, <2>2 DEF OnCompartmentChange
<1>3. /\ enabled' \in BOOLEAN
      /\ UNCHANGED <<cand, terminated, hasFocus, keyBusy, doc, typed, dropped, orphans, disturbed>>
  BY <1>1 DEF OnCompartmentChange, OtherTypes
<1> QED
  BY <1>1, <1>2, <1>3 DEF IInv, OtherTypes, Explained

LEMMA FocusStep ==
    IInv /\ (OnKeyUp \/ OnKillFocus \/ OnFocus \/ RebuildEditor) => IInv'
<1> SUFFICES ASSUME IInv, OnKeyUp \/ OnKillFocus \/ OnFocus \/ RebuildEditor
             PROVE  IInv'
  OBVIOUS
<1>1. Good(Io, comps) /\ OtherTypes
  BY DEF IInv
<1>2. CASE OnKillFocus
  <2>1. Room(Io)
    BY <1>2, RoomForRequests DEF OnKillFocus
  <2>2. Good(EndComposition(Io), comps)
    BY <1>1, <2>1, EndKeepsOrder
  <2>3. Good(Io, comps)'
    BY <1>1, <1>2, <2>2, AssignGood DEF OnKillFocus
  <2> QED
    BY <1>1, <1>2, <2>3 DEF OnKillFocus, IInv, OtherTypes, Explained
<1>3. CASE OnFocus
  BY <1>1, <1>3 DEF OnFocus, IInv, OtherTypes, Explained, Io
<1>4. CASE RebuildEditor
  BY <1>1, <1>4, EditorTypes DEF RebuildEditor, IInv, OtherTypes, Explained, Io
<1>5. CASE OnKeyUp
  BY <1>1, <1>5 DEF OnKeyUp, IInv, OtherTypes, Explained, Io
<1> QED
  BY <1>2, <1>3, <1>4, <1>5

LEMMA Parts ==
    ASSUME NEW s \in Text, NEW n \in 0..Len(s)
    PROVE  SubSeq(s, n + 1, Len(s)) \in Text /\ SubSeq(s, 1, n) \in Text
BY DEF Text

\* What a drawing session leaves, whether TSF does all it is asked or not.
LEMMA DrawnTypes ==
    ASSUME NEW slot \in Slot, NEW commit \in Text, NEW preedit \in Text,
           NEW drawn \in Drawn(slot, commit, preedit)
    PROVE  /\ drawn.slot \in Slot /\ drawn.out \in Text
           /\ drawn.slot.state = "live" \/ drawn.slot = slot
<1> DEFINE text == slot.text
           n == IF Len(commit) < Len(text) THEN Len(commit) ELSE Len(text)
           Live(t, out) == [slot |-> [state |-> "live", text |-> t], out |-> out]
<1>1. text \in Text /\ <<>> \in Text /\ commit \o preedit \in Text
  BY EditorTypes, TextFacts DEF Slot
<1>2. n \in 0..Len(text)
  BY <1>1 DEF Text
<1>3. SubSeq(text, n + 1, Len(text)) \in Text /\ SubSeq(text, 1, n) \in Text
  BY <1>1, <1>2, Parts
<1>4. drawn \in {[slot |-> slot, out |-> <<>>], Live(preedit, commit), Live(text, <<>>),
                 Live(SubSeq(text, n + 1, Len(text)), SubSeq(text, 1, n)),
                 Live(commit \o preedit, <<>>)}
  BY DEF Drawn, HalfDrawn
<1>5. ASSUME NEW t \in Text, NEW out \in Text, drawn = Live(t, out)
      PROVE  /\ drawn.slot \in Slot /\ drawn.out \in Text
             /\ drawn.slot.state = "live"
  BY <1>5 DEF Slot
<1>6. CASE drawn = [slot |-> slot, out |-> <<>>]
  BY <1>1, <1>6
<1> HIDE DEF Live, n
<1> QED
  BY <1>1, <1>3, <1>4, <1>5, <1>6 DEF text

LEMMA RunSetTypes ==
    ASSUME comps \in [Cells -> Slot], doc \in Text, NEW s, s.cell \in Cells \/ s.op # "set",
           s.commit \in Text, s.preedit \in Text, RunSetCompositionString(s)
    PROVE  /\ comps' \in [Cells -> Slot] /\ doc' \in Text
           /\ \A d \in Cells : comps'[d].state = comps[d].state
                               \/ (d = s.cell /\ comps'[d].state = "live")
<1>1. s.op = "set" /\ s.cell \in Cells /\ comps[s.cell] \in Slot
  BY DEF RunSetCompositionString
<1>2. CASE UNCHANGED <<comps, doc>>
  BY <1>2
<1>3. ASSUME NEW drawn \in Drawn(comps[s.cell], s.commit, s.preedit),
             comps' = [comps EXCEPT ![s.cell] = drawn.slot], doc' = doc \o drawn.out
      PROVE  /\ comps' \in [Cells -> Slot] /\ doc' \in Text
             /\ \A d \in Cells : comps'[d].state = comps[d].state
                                 \/ (d = s.cell /\ comps'[d].state = "live")
  <2>1. /\ drawn.slot \in Slot /\ drawn.out \in Text
        /\ drawn.slot.state = "live" \/ drawn.slot = comps[s.cell]
    BY <1>1, DrawnTypes
  <2>2. doc' \in Text
    BY <1>3, <2>1, TextFacts
  <2> QED
    BY <1>1, <1>3, <2>1, <2>2
<1> QED
  BY <1>2, <1>3 DEF RunSetCompositionString

\* An end session empties its cell, whatever TSF says.
LEMMA RunEndEmpties ==
    ASSUME NEW s, RunEndComposition(s), s.cell \in Cells
    PROVE  comps' = [comps EXCEPT ![s.cell] = NoComposition]
<1>1. [[comps EXCEPT ![s.cell].text = <<>>] EXCEPT ![s.cell] = NoComposition]
        = [comps EXCEPT ![s.cell] = NoComposition]
  OBVIOUS
<1> QED
  BY <1>1 DEF RunEndComposition, Drop

LEMMA RunEndOrphans ==
    ASSUME NEW s, RunEndComposition(s), s.cell \in Cells, comps \in [Cells -> Slot],
           orphans \in Seq(Text), disturbed \in BOOLEAN, Explained
    PROVE  orphans' \in Seq(Text) /\ disturbed' \in BOOLEAN /\ Explained'
<1> DEFINE moved == [comps EXCEPT ![s.cell].text = <<>>]
<1>1. moved \in [Cells -> Slot]
  BY EditorTypes DEF Slot
<1> HIDE DEF moved
<1>2. CASE UNCHANGED <<orphans, disturbed>>
  BY <1>2 DEF Explained
<1>3. CASE (Drop(comps, orphans, s.cell) \/ Drop(moved, orphans, s.cell)) /\ disturbed' = TRUE
  BY <1>1, <1>3, DropStep DEF Explained
<1> QED
  BY <1>2, <1>3 DEF RunEndComposition, moved

LEMMA DoEditSessionStep == IInv /\ DoEditSession => IInv'
<1> SUFFICES ASSUME IInv, DoEditSession
             PROVE  IInv'
  OBVIOUS
<1> DEFINE s == queue[1]
<1>1. /\ WellTyped(cell, queue, pending, comps) /\ Ordered(cell, queue, pending, comps)
      /\ OtherTypes
  BY DEF IInv, Good, Io
<1>2. queue # <<>> /\ queue \in Seq(Session) /\ comps \in [Cells -> Slot] /\ pending \in Nat
  BY <1>1 DEF DoEditSession, WellTyped
<1>3. s = Head(queue) /\ s \in Session
  BY <1>2
<1>4. s.commit \in Text /\ s.preedit \in Text /\ (s.op # "insert" => s.cell \in Cells)
  BY <1>3 DEF Session
<1>5. \/ RunSetCompositionString(s) \/ RunEndComposition(s) \/ RunInsertText(s)
  BY <1>3 DEF DoEditSession
<1> HIDE DEF s
<1>6. comps' \in [Cells -> Slot] /\ doc' \in Text
  <2>1. CASE RunSetCompositionString(s)
    BY <1>1, <1>2, <1>4, <2>1, RunSetTypes DEF OtherTypes
  <2>2. CASE RunEndComposition(s)
    <3>1. NoComposition \in Slot /\ s.cell \in Cells /\ comps[s.cell].text \in Text
      BY <1>2, <1>4, <2>2, EditorTypes DEF NoComposition, Slot, RunEndComposition
    <3>2. comps' = [comps EXCEPT ![s.cell] = NoComposition]
      BY <2>2, <3>1, RunEndEmpties
    <3>3. comps' \in [Cells -> Slot]
      BY <1>2, <3>1, <3>2
    <3>4. doc' \in {doc, doc \o comps[s.cell].text}
      BY <2>2 DEF RunEndComposition
    <3> QED
      BY <1>1, <3>1, <3>3, <3>4, TextFacts DEF OtherTypes
  <2>3. CASE RunInsertText(s)
    <3>1. CASE doc' \in {doc, doc \o s.commit} /\ UNCHANGED comps
      <4>1. doc \in Text /\ doc \o s.commit \in Text
        BY <1>1, <1>4, TextFacts, Zenon DEF OtherTypes
      <4> QED
        BY <1>2, <3>1, <4>1
    <3>2. ASSUME NEW c \in Cells,
                 comps' = [comps EXCEPT ![c].text = @ \o s.commit], UNCHANGED doc
          PROVE  comps' \in [Cells -> Slot] /\ doc' \in Text
      <4>1. comps[c].text \o s.commit \in Text
        BY <1>2, <1>4, TextFacts DEF Slot
      <4>2. [comps[c] EXCEPT !.text = comps[c].text \o s.commit] \in Slot
        BY <1>2, <4>1 DEF Slot
      <4> QED
        BY <1>1, <1>2, <3>2, <4>2 DEF OtherTypes
    <3> QED
      BY <2>3, <3>1, <3>2 DEF RunInsertText
  <2> QED
    BY <1>5, <2>1, <2>2, <2>3
<1>7. \/ /\ queue[1].op = "set"
         /\ \A d \in Cells : comps'[d].state = comps[d].state
                             \/ (d = queue[1].cell /\ comps'[d].state = "live")
      \/ /\ queue[1].op = "end"
         /\ \A d \in Cells : \/ d = queue[1].cell /\ comps'[d].state = "none"
                             \/ d # queue[1].cell /\ comps'[d].state = comps[d].state
      \/ /\ queue[1].op = "insert"
         /\ \A d \in Cells : comps'[d].state = comps[d].state
  <2>1. CASE RunSetCompositionString(s)
    <3>1. s.op = "set" /\ s.cell \in Cells
      BY <1>4, <2>1 DEF RunSetCompositionString
    <3>2. \A d \in Cells : comps'[d].state = comps[d].state
                           \/ (d = s.cell /\ comps'[d].state = "live")
      BY <1>1, <1>2, <1>4, <2>1, <3>1, RunSetTypes DEF OtherTypes
    <3> QED
      BY <3>1, <3>2 DEF s
  <2>2. CASE RunEndComposition(s)
    <3>1. s.op = "end" /\ s.cell \in Cells
      BY <1>4, <2>2 DEF RunEndComposition
    <3>2. comps' = [comps EXCEPT ![s.cell] = NoComposition]
      BY <2>2, <3>1, RunEndEmpties
    <3>3. \A d \in Cells : \/ d = s.cell /\ comps'[d].state = "none"
                           \/ d # s.cell /\ comps'[d].state = comps[d].state
      BY <1>2, <3>1, <3>2 DEF NoComposition
    <3> QED
      BY <3>1, <3>3 DEF s
  <2>3. CASE RunInsertText(s)
    <3>1. CASE UNCHANGED comps
      BY <2>3, <3>1 DEF RunInsertText, s
    <3>2. ASSUME NEW c \in Cells, comps' = [comps EXCEPT ![c].text = @ \o s.commit]
          PROVE  \A d \in Cells : comps'[d].state = comps[d].state
      <4> DEFINE text == comps[c].text \o s.commit
      <4>1. comps' = [comps EXCEPT ![c] = [comps[c] EXCEPT !.text = text]]
        BY <3>2
      <4> HIDE DEF text
      <4>2. [comps[c] EXCEPT !.text = text].state = comps[c].state
        BY <1>2 DEF Slot
      <4> QED
        BY <1>2, <4>1, <4>2
    <3> QED
      BY <2>3, <3>1, <3>2 DEF RunInsertText, s
  <2> QED
    BY <1>5, <2>1, <2>2, <2>3
<1>8. /\ WellTyped(cell, Tail(queue), IF pending = 0 THEN 0 ELSE pending - 1, comps')
      /\ Ordered(cell, Tail(queue), IF pending = 0 THEN 0 ELSE pending - 1, comps')
  BY <1>1, <1>2, <1>6, <1>7, RunKeepsOrder
<1>9. /\ cell' = cell /\ queue' = Tail(queue)
      /\ pending' = IF pending = 0 THEN 0 ELSE pending - 1
  BY DEF DoEditSession
<1>10. Good(Io, comps)'
  <2>1. WellTyped(cell', queue', pending', comps') /\ Ordered(cell', queue', pending', comps')
    BY <1>8, <1>9
  <2>2. Io' \in IoRecord
    BY <2>1 DEF Io, IoRecord, WellTyped
  <2> QED
    BY <2>1, <2>2 DEF Good, Io
<1>11. orphans' \in Seq(Text) /\ disturbed' \in BOOLEAN /\ Explained'
  <2>1. CASE RunSetCompositionString(s)
    BY <1>1, <2>1 DEF RunSetCompositionString, IInv, OtherTypes, Explained
  <2>2. CASE RunEndComposition(s)
    BY <1>1, <1>2, <1>4, <2>2, RunEndOrphans DEF IInv, OtherTypes, RunEndComposition
  <2>3. CASE RunInsertText(s)
    <3>1. CASE UNCHANGED orphans
      BY <1>1, <2>3, <3>1 DEF RunInsertText, IInv, OtherTypes, Explained
    <3>2. ASSUME NEW i \in DOMAIN orphans, orphans' = [orphans EXCEPT ![i] = @ \o s.commit]
          PROVE  orphans' \in Seq(Text) /\ orphans # <<>>
      <4>1. orphans[i] \o s.commit \in Text
        BY <1>1, <1>4, TextFacts DEF OtherTypes
      <4> QED
        BY <1>1, <3>2, <4>1 DEF OtherTypes
    <3> QED
      BY <1>1, <2>3, <3>1, <3>2 DEF RunInsertText, IInv, OtherTypes, Explained
  <2> QED
    BY <1>5, <2>1, <2>2, <2>3
<1> QED
  BY <1>1, <1>6, <1>10, <1>11 DEF DoEditSession, IInv, OtherTypes
-----------------------------------------------------------------------------
LEMMA NextKeepsInvariant == IInv /\ [Next]_vars => IInv'
<1>1. IInv /\ Next => IInv'
  BY KeyKeepsInvariant, ToggleLangModeStep, ToggleThenMessageFailsStep, TailHandlerStep,
     OnCompositionTerminatedStep, TerminationFailsStep, OnCompartmentChangeStep, FocusStep, DoEditSessionStep
     DEF Next
<1>2. IInv /\ UNCHANGED vars => IInv'
  BY DEF IInv, OtherTypes, Io, vars, Explained
<1> QED
  BY <1>1, <1>2

\* The conjunction that is inductive holds of every reachable state.
THEOREM Invariance == Spec => []IInv
<1>1. Init => IInv
  BY InitInvariant
<1>2. IInv /\ [Next]_vars => IInv'
  BY NextKeepsInvariant
<1> QED
  BY <1>1, <1>2, PTL DEF Spec

\* Every variable keeps its type, for every number of keys, cells and sessions.
THEOREM TypeCorrect == Spec => []TypeOK
<1>1. IInv => TypeOK
  BY InvariantImplies
<1> QED
  BY <1>1, Invariance, PTL

\* The queued edit sessions of one composition never mix with those of the next
\* (end_composition hands its cell over, set_composition_string reuses an edit
\* only for the current cell), also when TSF refuses calls of a session.
THEOREM SessionsInOrder == Spec => []SessionOrder
<1>1. IInv => SessionOrder
  BY InvariantImplies
<1> QED
  BY <1>1, Invariance, PTL

\* The document has one composition at most, and something refers to it, until TSF
\* refuses to end one (DoEditSession of EndComposition has taken the only reference) or
\* a deferred termination is handled when another is live: the termination callback
\* and end_composition themselves never lose one, whatever else fails.
THEOREM OneComposition == Spec => []OneInTheDocument
<1>1. IInv => OneInTheDocument
  BY InvariantImplies
<1> QED
  BY <1>1, Invariance, PTL
-----------------------------------------------------------------------------
(***************************************************************************)
(* Texts: sequences of characters, each the number of the key that made it.*)
(***************************************************************************)

\* Every character of s was typed before every one of t.
Before(s, t) == \A i \in DOMAIN s, j \in DOMAIN t : s[i] < t[j]
\* s has characters among the first n typed, and Fits if they are in order.
UpTo(s, n) == \A i \in DOMAIN s : s[i] <= n
Fits(s, n) == UpTo(s, n) /\ Increasing(s)

\* A character of t2 is in t or was typed after the first n.
Grows(t, t2, n) == \A i \in DOMAIN t2 : n < t2[i] \/ \E j \in DOMAIN t : t2[i] = t[j]

\* Two texts in a row are in order when both are and the first was typed before.
LEMMA TextJoins ==
    ASSUME NEW s \in Text, NEW t \in Text
    PROVE  /\ s \o t \in Text
           /\ s \o <<>> = s /\ <<>> \o s = s
           /\ \A n \in Nat : UpTo(s \o t, n) <=> UpTo(s, n) /\ UpTo(t, n)
           /\ Increasing(s \o t) <=> Increasing(s) /\ Increasing(t) /\ Before(s, t)
<1> DEFINE r == s \o t
<1>1. /\ r \in Seq(Nat) /\ Len(s) \in Nat /\ Len(t) \in Nat
      /\ DOMAIN s = 1..Len(s) /\ DOMAIN t = 1..Len(t) /\ DOMAIN r = 1..(Len(s) + Len(t))
      /\ \A i \in DOMAIN s : i \in DOMAIN r /\ r[i] = s[i]
      /\ \A i \in DOMAIN t : Len(s) + i \in DOMAIN r /\ r[Len(s) + i] = t[i]
      /\ \A i \in DOMAIN r : i > Len(s) => i - Len(s) \in DOMAIN t /\ r[i] = t[i - Len(s)]
  BY DEF Text
<1>2. s \o <<>> = s /\ <<>> \o s = s
  BY DEF Text
<1>3. \A i \in DOMAIN s : s[i] \in Nat
  BY DEF Text
<1>4. \A i \in DOMAIN t : t[i] \in Nat
  BY DEF Text
<1> HIDE DEF r
<1>5. ASSUME NEW i \in DOMAIN r
      PROVE  (i \in DOMAIN s /\ r[i] = s[i]) \/ (i - Len(s) \in DOMAIN t /\ r[i] = t[i - Len(s)])
  BY <1>1
<1>8. ASSUME NEW n \in Nat
      PROVE  UpTo(r, n) <=> UpTo(s, n) /\ UpTo(t, n)
  <2>1. ASSUME UpTo(r, n) PROVE UpTo(s, n) /\ UpTo(t, n)
    BY <1>1, <2>1 DEF UpTo
  <2>2. ASSUME UpTo(s, n), UpTo(t, n) PROVE UpTo(r, n)
    BY <1>5, <2>2 DEF UpTo
  <2> QED
    BY <2>1, <2>2
<1>9. Increasing(r) <=> Increasing(s) /\ Increasing(t) /\ Before(s, t)
  <2>1. ASSUME Increasing(r) PROVE Increasing(s) /\ Increasing(t) /\ Before(s, t)
    <3>1. Increasing(s)
      BY <1>1, <2>1 DEF Increasing
    <3>2. Increasing(t)
      BY <1>1, <2>1 DEF Increasing
    <3>3. Before(s, t)
      BY <1>1, <2>1 DEF Increasing, Before
    <3> QED
      BY <3>1, <3>2, <3>3
  <2>2. ASSUME Increasing(s), Increasing(t), Before(s, t) PROVE Increasing(r)
    <3> SUFFICES ASSUME NEW i \in DOMAIN r, NEW j \in DOMAIN r, i < j
                 PROVE  r[i] < r[j]
      BY DEF Increasing
    <3>1. CASE j \in DOMAIN s
      BY <1>1, <2>2, <3>1, SMTT(30) DEF Increasing
    <3>2. CASE i \in DOMAIN s /\ j \notin DOMAIN s
      BY <1>1, <2>2, <3>2 DEF Before
    <3>3. CASE i \notin DOMAIN s
      <4>1. /\ i - Len(s) \in DOMAIN t /\ r[i] = t[i - Len(s)]
            /\ j - Len(s) \in DOMAIN t /\ r[j] = t[j - Len(s)]
            /\ i - Len(s) < j - Len(s)
        BY <1>1, <3>3, SMTT(30)
      <4> QED
        BY <2>2, <4>1 DEF Increasing
    <3> QED
      BY <3>1, <3>2, <3>3
  <2> QED
    BY <2>1, <2>2
<1>10. r \in Text
  BY <1>1 DEF Text
<1> QED
  BY <1>2, <1>8, <1>9, <1>10 DEF r

\* The same, of a text before or after the two.
LEMMA JoinBefore ==
    ASSUME NEW s \in Text, NEW t \in Text, NEW x \in Text
    PROVE  /\ Before(s \o t, x) <=> Before(s, x) /\ Before(t, x)
           /\ Before(x, s \o t) <=> Before(x, s) /\ Before(x, t)
<1> DEFINE r == s \o t
<1>1. /\ r \in Seq(Nat) /\ Len(s) \in Nat /\ Len(t) \in Nat
      /\ DOMAIN s = 1..Len(s) /\ DOMAIN t = 1..Len(t) /\ DOMAIN r = 1..(Len(s) + Len(t))
      /\ \A i \in DOMAIN s : i \in DOMAIN r /\ r[i] = s[i]
      /\ \A i \in DOMAIN t : Len(s) + i \in DOMAIN r /\ r[Len(s) + i] = t[i]
      /\ \A i \in DOMAIN r : i > Len(s) => i - Len(s) \in DOMAIN t /\ r[i] = t[i - Len(s)]
  BY DEF Text
<1>3. \A i \in DOMAIN s : s[i] \in Nat
  BY DEF Text
<1>4. \A i \in DOMAIN t : t[i] \in Nat
  BY DEF Text
<1> HIDE DEF r
<1>5. ASSUME NEW i \in DOMAIN r
      PROVE  (i \in DOMAIN s /\ r[i] = s[i]) \/ (i - Len(s) \in DOMAIN t /\ r[i] = t[i - Len(s)])
  BY <1>1
<1>6. Before(r, x) <=> Before(s, x) /\ Before(t, x)
  <2>1. ASSUME Before(r, x) PROVE Before(s, x) /\ Before(t, x)
    BY <1>1, <2>1 DEF Before
  <2>2. ASSUME Before(s, x), Before(t, x) PROVE Before(r, x)
    BY <1>5, <2>2 DEF Before
  <2> QED
    BY <2>1, <2>2
<1>7. Before(x, r) <=> Before(x, s) /\ Before(x, t)
  <2>1. ASSUME Before(x, r) PROVE Before(x, s) /\ Before(x, t)
    BY <1>1, <2>1 DEF Before
  <2>2. ASSUME Before(x, s), Before(x, t) PROVE Before(x, r)
    BY <1>5, <2>2 DEF Before
  <2> QED
    BY <2>1, <2>2
<1> QED
  BY <1>6, <1>7 DEF r

\* The empty text is in order with every other.
LEMMA NothingText ==
    /\ <<>> \in Text
    /\ \A x \in Text : Before(x, <<>>) /\ Before(<<>>, x)
    /\ \A n \in Nat : Fits(<<>>, n)
<1>1. DOMAIN <<>> = {}
  OBVIOUS
<1>2. <<>> \in Text
  BY DEF Text
<1> QED
  BY <1>1, <1>2, Zenon DEF Before, Fits, UpTo, Increasing

\* What came before a text comes before what it grows to.
LEMMA LaterText ==
    ASSUME NEW x \in Text, NEW t \in Text, NEW t2 \in Text, NEW n \in Nat,
           Before(x, t), UpTo(x, n), Grows(t, t2, n)
    PROVE  Before(x, t2)
<1> SUFFICES ASSUME NEW i \in DOMAIN x, NEW j \in DOMAIN t2
             PROVE  x[i] < t2[j]
  BY DEF Before
<1>1. x[i] \in Nat /\ t2[j] \in Nat /\ x[i] <= n
  BY DEF Text, UpTo
<1>2. CASE n < t2[j]
  BY <1>1, <1>2
<1>3. CASE \E k \in DOMAIN t : t2[j] = t[k]
  BY <1>3 DEF Before
<1> QED
  BY <1>2, <1>3 DEF Grows

\* More keys may have been typed.
LEMMA MoreKeys ==
    ASSUME NEW x \in Text, NEW n \in Nat, NEW m \in Nat, n <= m, Fits(x, n)
    PROVE  Fits(x, m)
BY DEF Text, Fits, UpTo
-----------------------------------------------------------------------------
(***************************************************************************)
(* The invariant of the text, like SessionOrder said of a cell c, queue q, *)
(* pending place p and cells cs, of the text t that the editor shows, the  *)
(* number n of characters typed and the text d of the document.            *)
(***************************************************************************)

Live(cs, e) == cs[e].state = "live"

\* Running s will change the document: its edit was not emptied, and the application
\* has not taken its composition.
Runs(s, cs) == s.armed /\ (s.op = "set" => cs[s.cell].state # "dead")

\* The composition of cell e is ended between places i and j of q.
EndBetween(q, i, j, e) == \E k \in DOMAIN q : i < k /\ k < j /\ EndsCell(q[k], e)
Precedes(x, s) == Before(x, s.commit) /\ Before(x, s.preedit)

\* Apart: what the session order leaves open.  The current composition was not taken
\* (A1); a cell without a live composition has no text (A2); the edit that waits can
\* still draw (A3), while an end carries nothing and an insertion is never emptied
\* (A4); no other session draws in the current cell (A5); and before text is inserted
\* the live composition (A6) and every one still to be drawn (A7) is ended, because
\* text is committed without a composition only while there is none.
A1(c, cs) == cs[c].state # "dead"
A2(cs) == \A e \in Cells : ~Live(cs, e) => cs[e].text = <<>>
A3(q, p) == p # 0 => q[p].armed
A4(q) ==
    \A i \in DOMAIN q : (q[i].op = "end" => ~q[i].armed) /\ (q[i].op = "insert" => q[i].armed)
A5(c, q, p) == \A i \in DOMAIN q : q[i].op = "set" /\ q[i].armed /\ q[i].cell = c => i = p
A6(q, cs) ==
    \A i \in DOMAIN q, e \in Cells :
        q[i].op = "insert" /\ Live(cs, e) => EndBetween(q, 0, i, e)
A7(q) ==
    \A i, j \in DOMAIN q :
        j < i /\ q[i].op = "insert" /\ q[j].op = "set" /\ q[j].armed
        => EndBetween(q, j, i, q[j].cell)
Apart(c, q, p, cs) ==
    /\ A1(c, cs) /\ A2(cs) /\ A3(q, p) /\ A4(q) /\ A5(c, q, p) /\ A6(q, cs) /\ A7(q)

\* The editor shows t: so does the edit that waits, which commits nothing, or else the
\* current composition, or there is nothing to show.
Shown(c, q, p, cs, t) ==
    /\ p # 0 => q[p].preedit = t /\ q[p].commit = <<>>
    /\ p = 0 /\ Live(cs, c) => cs[c].text = t
    /\ p = 0 /\ ~Live(cs, c) => t = <<>>

\* InOrder: the text of the document is in the order it was typed and before that of
\* the editor (T1).  So is the text of the live composition, which is before that of
\* the editor when the service has given it up (T2), and before all that runs after
\* its end (T3).  What a session carries is after the document (T4), the commits of
\* the sessions follow each other (T5), and what one shows is before whatever runs
\* after the end of its composition (T6).
T1(t, n, d) == Fits(d, n) /\ Fits(t, n) /\ Before(d, t)
T2(c, cs, t, n, d) ==
    \A e \in Cells : Live(cs, e) =>
        /\ Fits(cs[e].text, n) /\ Before(d, cs[e].text)
        /\ e # c => Before(cs[e].text, t)
T3(q, cs) ==
    \A e \in Cells, j \in DOMAIN q :
        Live(cs, e) /\ Runs(q[j], cs) /\ EndBetween(q, 0, j, e) => Precedes(cs[e].text, q[j])
T4(c, q, cs, t, n, d) ==
    \A i \in DOMAIN q : Runs(q[i], cs) =>
        /\ Fits(q[i].commit, n) /\ Fits(q[i].preedit, n) /\ Before(q[i].commit, q[i].preedit)
        /\ Precedes(d, q[i]) /\ Before(q[i].commit, t)
        /\ q[i].cell # c => Before(q[i].preedit, t)
T5(q, cs) ==
    \A i, j \in DOMAIN q : i < j /\ Runs(q[i], cs) /\ Runs(q[j], cs) => Precedes(q[i].commit, q[j])
T6(q, cs) ==
    \A i, j \in DOMAIN q :
        /\ i < j /\ Runs(q[i], cs) /\ Runs(q[j], cs) /\ EndBetween(q, i, j, q[i].cell)
        => Precedes(q[i].preedit, q[j])
InOrder(c, q, cs, t, n, d) ==
    /\ T1(t, n, d) /\ T2(c, cs, t, n, d) /\ T3(q, cs) /\ T4(c, q, cs, t, n, d)
    /\ T5(q, cs) /\ T6(q, cs)

LEMMA SessionTexts ==
    ASSUME NEW s \in Session
    PROVE  s.commit \in Text /\ s.preedit \in Text /\ s.armed \in BOOLEAN
BY DEF Session

LEMMA CellTexts ==
    ASSUME NEW cs \in [Cells -> Slot], NEW e \in Cells
    PROVE  cs[e].text \in Text /\ cs[e].state \in {"none", "live", "dead"}
BY DEF Slot

\* Nothing that will run waits behind the edit that pending_edit reaches.
LEMMA PendingIsLast ==
    ASSUME NEW c, NEW q, NEW p, NEW cs,
           WellTyped(c, q, p, cs), Ordered(c, q, p, cs), Apart(c, q, p, cs),
           p # 0, NEW j \in DOMAIN q, p < j
    PROVE  ~Runs(q[j], cs)
<1> SUFFICES ASSUME Runs(q[j], cs)
             PROVE  FALSE
  OBVIOUS
<1>1. /\ p \in DOMAIN q /\ q[p].op = "set" /\ q[p].cell = c /\ q[p].armed /\ q[j] \in Session
      /\ DOMAIN q \subseteq Nat
  BY DEF WellTyped, Ordered, O1, Apart, A3
<1>2. \A k \in DOMAIN q : ~EndsCell(q[k], c)
  BY DEF Ordered, O2, EndsCell
<1>3. CASE q[j].op = "set"
  <2>1. q[j].cell # c
    BY <1>1, <1>3 DEF Apart, A5, Runs
  <2> QED
    BY <1>1, <1>2, <1>3, <2>1 DEF Ordered, O3, UsesCell
<1>4. CASE q[j].op = "insert"
  BY <1>1, <1>2, <1>4 DEF Apart, A7, EndBetween
<1>5. CASE q[j].op = "end"
  BY <1>5 DEF Apart, A4, Runs
<1> QED
  BY <1>1, <1>3, <1>4, <1>5 DEF Session

\* The text of the editor changes to characters it had or that are new.
LEMMA GrowKeepsOrder ==
    ASSUME NEW c, NEW q, NEW p, NEW cs, NEW t \in Text, NEW n \in Nat, NEW d \in Text,
           NEW t2 \in Text, NEW m \in Nat,
           WellTyped(c, q, p, cs), InOrder(c, q, cs, t, n, d),
           n <= m, Fits(t2, m), Grows(t, t2, n)
    PROVE  InOrder(c, q, cs, t2, m, d)
<1>1. \A i \in DOMAIN q : q[i] \in Session
  BY DEF WellTyped
<1>2. cs \in [Cells -> Slot]
  BY DEF WellTyped
<1>3. T1(t2, m, d)
  BY LaterText, MoreKeys DEF InOrder, T1, Fits
<1>4. T2(c, cs, t2, m, d)
  <2> SUFFICES ASSUME NEW e \in Cells, Live(cs, e)
               PROVE  /\ Fits(cs[e].text, m) /\ Before(d, cs[e].text)
                      /\ e # c => Before(cs[e].text, t2)
    BY DEF T2
  <2>1. cs[e].text \in Text
    BY <1>2, CellTexts
  <2>2. /\ Fits(cs[e].text, n) /\ Before(d, cs[e].text)
        /\ e # c => Before(cs[e].text, t)
    BY DEF InOrder, T2
  <2> QED
    BY <2>1, <2>2, LaterText, MoreKeys DEF Fits
<1>5. T4(c, q, cs, t2, m, d)
  <2> SUFFICES ASSUME NEW i \in DOMAIN q, Runs(q[i], cs)
               PROVE  /\ Fits(q[i].commit, m) /\ Fits(q[i].preedit, m)
                      /\ Before(q[i].commit, q[i].preedit)
                      /\ Precedes(d, q[i]) /\ Before(q[i].commit, t2)
                      /\ q[i].cell # c => Before(q[i].preedit, t2)
    BY DEF T4
  <2>1. q[i].commit \in Text /\ q[i].preedit \in Text
    BY <1>1, SessionTexts
  <2>2. /\ Fits(q[i].commit, n) /\ Fits(q[i].preedit, n)
        /\ Before(q[i].commit, q[i].preedit)
        /\ Precedes(d, q[i]) /\ Before(q[i].commit, t)
        /\ q[i].cell # c => Before(q[i].preedit, t)
    BY DEF InOrder, T4
  <2> QED
    BY <2>1, <2>2, LaterText, MoreKeys DEF Fits
<1> QED
  BY <1>3, <1>4, <1>5 DEF InOrder

\* A session s of the current composition takes place w, where nothing behind it
\* runs: what it commits and shows was the text of the editor.
LEMMA PutKeepsOrder ==
    ASSUME NEW c, NEW q, NEW p, NEW cs, NEW n \in Nat, NEW d \in Text,
           NEW q2, NEW w, NEW s \in Session,
           WellTyped(c, q, p, cs), Ordered(c, q, p, cs),
           InOrder(c, q, cs, s.commit \o s.preedit, n, d),
           q2 \in Seq(Session), w \in DOMAIN q2, q2[w] = s,
           s.cell = c \/ s.preedit = <<>>, s.op # "end",
           \A i \in DOMAIN q2 : i # w => i \in DOMAIN q /\ q2[i] = q[i],
           w \in DOMAIN q => q[w].op # "end",
           \A i \in DOMAIN q2 : w < i => ~Runs(q2[i], cs)
    PROVE  InOrder(c, q2, cs, s.preedit, n, d)
<1>1. /\ s.commit \in Text /\ s.preedit \in Text
      /\ \A i \in DOMAIN q : q[i] \in Session
      /\ cs \in [Cells -> Slot]
  BY SessionTexts DEF WellTyped
<1> DEFINE t == s.commit \o s.preedit
<1>2. /\ t \in Text
      /\ \A x \in Text : Before(x, t) <=> Precedes(x, s)
      /\ Fits(t, n) <=> Fits(s.commit, n) /\ Fits(s.preedit, n) /\ Before(s.commit, s.preedit)
  <2>1. t \in Text
    BY <1>1, TextJoins
  <2>4. \A x \in Text : Before(x, t) <=> Before(x, s.commit) /\ Before(x, s.preedit)
    BY <1>1, JoinBefore
  <2>5. UpTo(t, n) <=> UpTo(s.commit, n) /\ UpTo(s.preedit, n)
    BY <1>1, TextJoins
  <2>6. Increasing(t) <=> /\ Increasing(s.commit) /\ Increasing(s.preedit)
                          /\ Before(s.commit, s.preedit)
    BY <1>1, TextJoins
  <2> HIDE DEF t
  <2>2. \A x \in Text : Before(x, t) <=> Precedes(x, s)
    BY <2>4, Zenon DEF Precedes
  <2>3. Fits(t, n) <=> Fits(s.commit, n) /\ Fits(s.preedit, n) /\ Before(s.commit, s.preedit)
    BY <2>5, <2>6, Zenon DEF Fits
  <2> QED
    BY <2>1, <2>2, <2>3
<1>3. InOrder(c, q, cs, t, n, d)
  OBVIOUS
<1> HIDE DEF t
\* Before t is before what s carries.
<1>4. \A x \in Text : Before(x, t) => Precedes(x, s) /\ Before(x, s.preedit)
  BY <1>2 DEF Precedes
<1>5. /\ Precedes(d, s)
      /\ Fits(s.commit, n) /\ Fits(s.preedit, n) /\ Before(s.commit, s.preedit)
  BY <1>2, <1>3, <1>4 DEF InOrder, T1
\* An end between two places is where it was, and not of the current composition.
<1>6. ASSUME NEW i, NEW j \in DOMAIN q2, NEW e, EndBetween(q2, i, j, e)
      PROVE  e # c /\ (j \in DOMAIN q => EndBetween(q, i, j, e))
  <2>1. PICK k \in DOMAIN q2 : i < k /\ k < j /\ EndsCell(q2[k], e)
    BY <1>6 DEF EndBetween
  <2>2. k \in DOMAIN q /\ EndsCell(q[k], e)
    BY <2>1 DEF EndsCell
  <2> QED
    BY <2>1, <2>2 DEF EndBetween, EndsCell, Ordered, O2
<1>7. T1(s.preedit, n, d)
  BY <1>3, <1>5 DEF InOrder, T1, Precedes
<1>8. T2(c, cs, s.preedit, n, d)
  BY <1>1, <1>3, <1>4, CellTexts DEF InOrder, T2
<1>9. T3(q2, cs)
  <2> SUFFICES ASSUME NEW e \in Cells, NEW j \in DOMAIN q2,
                      Live(cs, e), Runs(q2[j], cs), EndBetween(q2, 0, j, e)
               PROVE  Precedes(cs[e].text, q2[j])
    BY DEF T3
  <2>1. CASE j = w
    <3>1. Before(cs[e].text, t)
      BY <1>3, <1>6 DEF InOrder, T2
    <3> QED
      BY <1>1, <1>4, <2>1, <3>1, CellTexts
  <2>2. CASE j # w
    BY <1>3, <1>6, <2>2 DEF InOrder, T3
  <2> QED
    BY <2>1, <2>2
<1>10. T4(c, q2, cs, s.preedit, n, d)
  <2> SUFFICES ASSUME NEW i \in DOMAIN q2, Runs(q2[i], cs)
               PROVE  /\ Fits(q2[i].commit, n) /\ Fits(q2[i].preedit, n)
                      /\ Before(q2[i].commit, q2[i].preedit)
                      /\ Precedes(d, q2[i]) /\ Before(q2[i].commit, s.preedit)
                      /\ q2[i].cell # c => Before(q2[i].preedit, s.preedit)
    BY DEF T4
  <2>1. CASE i = w
    <3>1. q2[i].cell # c => Before(s.preedit, s.preedit)
      BY <1>1, <2>1, NothingText
    <3>2. q2[i] = s
      BY <2>1
    <3> QED
      BY <1>5, <3>1, <3>2, Zenon
  <2>2. CASE i # w
    <3>1. /\ Fits(q2[i].commit, n) /\ Fits(q2[i].preedit, n)
          /\ Before(q2[i].commit, q2[i].preedit)
          /\ Precedes(d, q2[i]) /\ Before(q2[i].commit, t)
          /\ q2[i].cell # c => Before(q2[i].preedit, t)
      BY <1>3, <2>2 DEF InOrder, T4
    <3>2. q2[i].commit \in Text /\ q2[i].preedit \in Text
      BY SessionTexts
    <3> QED
      BY <1>4, <3>1, <3>2
  <2> QED
    BY <2>1, <2>2
<1>11. T5(q2, cs)
  <2> SUFFICES ASSUME NEW i \in DOMAIN q2, NEW j \in DOMAIN q2, i < j,
                      Runs(q2[i], cs), Runs(q2[j], cs)
               PROVE  Precedes(q2[i].commit, q2[j])
    BY DEF T5
  <2>1. i # w
    OBVIOUS
  <2>2. CASE j = w
    <3>1. Before(q2[i].commit, t)
      BY <1>3, <2>1 DEF InOrder, T4
    <3> QED
      BY <1>4, <2>2, <3>1, SessionTexts
  <2>3. CASE j # w
    BY <1>3, <2>1, <2>3 DEF InOrder, T5
  <2> QED
    BY <2>2, <2>3
<1>12. T6(q2, cs)
  <2> SUFFICES ASSUME NEW i \in DOMAIN q2, NEW j \in DOMAIN q2, i < j,
                      Runs(q2[i], cs), Runs(q2[j], cs), EndBetween(q2, i, j, q2[i].cell)
               PROVE  Precedes(q2[i].preedit, q2[j])
    BY DEF T6
  <2>1. i # w
    OBVIOUS
  <2>2. CASE j = w
    <3>1. Before(q2[i].preedit, t)
      BY <1>3, <1>6, <2>1 DEF InOrder, T4
    <3> QED
      BY <1>4, <2>2, <3>1, SessionTexts
  <2>3. CASE j # w
    <3>1. EndBetween(q, i, j, q[i].cell)
      BY <1>6, <2>1, <2>3
    <3> QED
      BY <1>3, <2>1, <2>3, <3>1 DEF InOrder, T6
  <2> QED
    BY <2>2, <2>3
<1> QED
  BY <1>7, <1>8, <1>9, <1>10, <1>11, <1>12 DEF InOrder
-----------------------------------------------------------------------------
(***************************************************************************)
(* Each request of a handler keeps the three parts of the invariant.       *)
(***************************************************************************)

ApartIo(io, cs) == Apart(io.cell, io.queue, io.pending, cs)
ShownIo(io, cs, t) == Shown(io.cell, io.queue, io.pending, cs, t)
InOrderIo(io, cs, t, n, d) == InOrder(io.cell, io.queue, cs, t, n, d)

\* The queue has session s at place w, its last or the one of the edit that waits.
Put(q, p, q2, w, s) ==
    /\ q2 \in Seq(Session) /\ w \in DOMAIN q2 /\ q2[w] = s
    /\ DOMAIN q \subseteq DOMAIN q2
    /\ \A i \in DOMAIN q2 : i # w => i \in DOMAIN q /\ q2[i] = q[i]
    /\ \/ p = 0 /\ w = Len(q) + 1 /\ \A i \in DOMAIN q : i < w
       \/ p # 0 /\ w = p /\ w \in DOMAIN q

\* set_composition_string puts a session at one of these places.
LEMMA SetPuts ==
    ASSUME NEW io, NEW cs, NEW commit \in Text, NEW preedit \in Text, Good(io, cs)
    PROVE  LET r == SetCompositionString(io, commit, preedit)
           IN  /\ r.cell = io.cell /\ r.pending # 0
               /\ Put(io.queue, io.pending, r.queue, r.pending,
                      SetSession(io.cell, commit, preedit))
<1> DEFINE r == SetCompositionString(io, commit, preedit)
           s == SetSession(io.cell, commit, preedit)
<1>1. /\ io \in IoRecord /\ io.queue \in Seq(Session) /\ io.pending \in 0..Len(io.queue)
      /\ io.cell \in Cells
  BY DEF Good, WellTyped
<1>2. s \in Session
  BY <1>1, SetSessionType
<1>3. CASE io.pending = 0
  <2>1. r = [cell |-> io.cell, queue |-> Append(io.queue, s), pending |-> Len(io.queue) + 1]
    BY <1>1, <1>3 DEF SetCompositionString, IoRecord
  <2> HIDE DEF s, r
  <2>2. Put(io.queue, io.pending, Append(io.queue, s), Len(io.queue) + 1, s)
    BY <1>1, <1>2, <1>3 DEF Put
  <2> QED
    BY <1>1, <2>1, <2>2 DEF r, s
<1>4. CASE io.pending # 0
  <2>1. io.pending \in DOMAIN io.queue /\ io.queue[io.pending].cell = io.cell
    BY <1>1, <1>4 DEF Good, Ordered, O1
  <2>2. r = [cell |-> io.cell, queue |-> [io.queue EXCEPT ![io.pending] = s],
             pending |-> io.pending]
    BY <1>1, <1>4, <2>1 DEF SetCompositionString, IoRecord
  <2> HIDE DEF s, r
  <2>3. Put(io.queue, io.pending, [io.queue EXCEPT ![io.pending] = s], io.pending, s)
    BY <1>1, <1>2, <1>4, <2>1 DEF Put
  <2> QED
    BY <1>1, <1>4, <2>2, <2>3 DEF r, s
<1> QED
  BY <1>3, <1>4

\* An end that waits is where it was.
LEMMA PutKeepsEnds ==
    ASSUME NEW q, NEW p, NEW q2, NEW w, NEW s, Put(q, p, q2, w, s), s.op # "end",
           w \in DOMAIN q => q[w].op # "end", NEW i, NEW j \in DOMAIN q, NEW e
    PROVE  EndBetween(q2, i, j, e) <=> EndBetween(q, i, j, e)
<1>1. ASSUME EndBetween(q2, i, j, e) PROVE EndBetween(q, i, j, e)
  BY <1>1 DEF Put, EndBetween, EndsCell
<1>2. ASSUME EndBetween(q, i, j, e) PROVE EndBetween(q2, i, j, e)
  <2>1. PICK k \in DOMAIN q : i < k /\ k < j /\ EndsCell(q[k], e)
    BY <1>2 DEF EndBetween
  <2>2. k # w
    BY <2>1 DEF EndsCell
  <2>3. k \in DOMAIN q2 /\ q2[k] = q[k]
    BY <2>1, <2>2 DEF Put
  <2> QED
    BY <2>1, <2>3 DEF EndBetween
<1> QED
  BY <1>1, <1>2

\* An edit of the current composition at that place keeps the rest apart.
LEMMA PutSetKeepsApart ==
    ASSUME NEW c, NEW q, NEW p, NEW cs, NEW q2, NEW w, NEW s,
           WellTyped(c, q, p, cs), Ordered(c, q, p, cs), Apart(c, q, p, cs),
           Put(q, p, q2, w, s), s.op = "set", s.cell = c, s.armed
    PROVE  Apart(c, q2, w, cs)
<1>1. w \in DOMAIN q => q[w].op = "set" /\ q[w].cell = c /\ q[w].armed /\ w = p
  BY DEF Put, Ordered, O1, Apart, A3, WellTyped
<1>2. DOMAIN q \subseteq Nat /\ p \in Nat
  BY DEF WellTyped
<1>3. A3(q2, w) /\ A4(q2)
  BY DEF Apart, A3, A4, Put
<1>4. A5(c, q2, w)
  BY <1>1, <1>2 DEF Apart, A5, Put, WellTyped
<1>5. \A i, e : \A j \in DOMAIN q : EndBetween(q, i, j, e) => EndBetween(q2, i, j, e)
  BY <1>1, PutKeepsEnds
<1>6. \A i \in DOMAIN q2 : q2[i].op = "insert" => i \in DOMAIN q /\ q[i].op = "insert"
  BY DEF Put
<1>7. A6(q2, cs)
  BY <1>5, <1>6 DEF Apart, A6
<1>8. A7(q2)
  <2> SUFFICES ASSUME NEW i \in DOMAIN q2, NEW j \in DOMAIN q2, j < i,
                      q2[i].op = "insert", q2[j].op = "set", q2[j].armed
               PROVE  EndBetween(q2, j, i, q2[j].cell)
    BY DEF A7
  <2>1. i \in DOMAIN q /\ q[i].op = "insert"
    BY <1>6
  <2>2. j \in DOMAIN q /\ q[j].op = "set" /\ q[j].armed /\ q[j].cell = q2[j].cell
    BY <1>1, <2>1 DEF Put
  <2>3. EndBetween(q, j, i, q[j].cell)
    BY <2>1, <2>2 DEF Apart, A7
  <2> QED
    BY <1>5, <2>1, <2>2, <2>3
<1> QED
  BY <1>3, <1>4, <1>7, <1>8 DEF Apart

\* A request to set the composition string leaves the text in order.
LEMMA SetKeepsText ==
    ASSUME NEW io, NEW cs, NEW commit \in Text, NEW preedit \in Text,
           NEW n \in Nat, NEW d \in Text,
           Good(io, cs), ApartIo(io, cs), InOrderIo(io, cs, commit \o preedit, n, d)
    PROVE  LET r == SetCompositionString(io, commit, preedit)
           IN  /\ ApartIo(r, cs) /\ InOrderIo(r, cs, preedit, n, d)
               /\ r.cell = io.cell /\ r.pending # 0
               /\ r.queue[r.pending] = SetSession(io.cell, commit, preedit)
<1> DEFINE r == SetCompositionString(io, commit, preedit)
           s == SetSession(io.cell, commit, preedit)
<1>1. /\ r.cell = io.cell /\ r.pending # 0
      /\ Put(io.queue, io.pending, r.queue, r.pending, s)
  BY SetPuts
<1>2. /\ s \in Session /\ s.op = "set" /\ s.cell = io.cell /\ s.armed
      /\ s.commit = commit /\ s.preedit = preedit
  BY SetSessionType DEF Good, WellTyped, SetSession
<1>3. /\ WellTyped(io.cell, io.queue, io.pending, cs)
      /\ Ordered(io.cell, io.queue, io.pending, cs)
      /\ Apart(io.cell, io.queue, io.pending, cs)
      /\ InOrder(io.cell, io.queue, cs, s.commit \o s.preedit, n, d)
  BY <1>2 DEF Good, ApartIo, InOrderIo
<1> HIDE DEF r, s
<1>4. Apart(r.cell, r.queue, r.pending, cs)
  BY <1>1, <1>2, <1>3, PutSetKeepsApart
<1>5. \A i \in DOMAIN r.queue : r.pending < i => ~Runs(r.queue[i], cs)
  <2> SUFFICES ASSUME NEW i \in DOMAIN r.queue, r.pending < i
               PROVE  ~Runs(r.queue[i], cs)
    OBVIOUS
  <2>1. i \in DOMAIN io.queue /\ r.queue[i] = io.queue[i] /\ io.queue \in Seq(Session)
    BY <1>1, <1>3 DEF Put, WellTyped
  <2>2. io.pending # 0 /\ r.pending = io.pending
    BY <1>1, <2>1 DEF Put
  <2> QED
    BY <1>3, <2>1, <2>2, PendingIsLast
<1>6. r.pending \in DOMAIN io.queue => io.queue[r.pending].op # "end"
  BY <1>1, <1>3 DEF Put, Ordered, O1, WellTyped
<1>7. InOrder(io.cell, r.queue, cs, s.preedit, n, d)
  <2>1. /\ r.queue \in Seq(Session) /\ r.pending \in DOMAIN r.queue /\ r.queue[r.pending] = s
        /\ \A i \in DOMAIN r.queue : i # r.pending => i \in DOMAIN io.queue /\ r.queue[i] = io.queue[i]
        /\ s.cell = io.cell \/ s.preedit = <<>>
        /\ s.op # "end"
    BY <1>1, <1>2 DEF Put
  <2> QED
    BY <1>2, <1>3, <1>5, <1>6, <2>1, PutKeepsOrder
<1> QED
  BY <1>1, <1>2, <1>4, <1>7 DEF ApartIo, InOrderIo, Put, r, s

\* A request to end the composition, when the editor shows nothing.
LEMMA EndKeepsText ==
    ASSUME NEW io, NEW cs, NEW n \in Nat, NEW d \in Text,
           Good(io, cs), Room(io), ApartIo(io, cs), InOrderIo(io, cs, <<>>, n, d)
    PROVE  LET r == EndComposition(io)
           IN  /\ ApartIo(r, cs) /\ InOrderIo(r, cs, <<>>, n, d)
               /\ cs[r.cell].state = "none" /\ r.pending = 0
<1> DEFINE r == EndComposition(io)
           c2 == FreshCell(io)
           s == EndSession(io.cell)
           q2 == Append(io.queue, s)
<1>1. c2 \in Cells /\ c2 \notin CellsInUse(io)
  BY DEF FreshCell, Room
<1>2. /\ r.cell = c2 /\ r.queue = q2 /\ r.pending = 0
      /\ s.op = "end" /\ s.cell = io.cell /\ ~s.armed
  BY DEF EndComposition, EndSession
<1>3. /\ io.queue \in Seq(Session) /\ io.cell \in Cells /\ cs \in [Cells -> Slot]
      /\ Ordered(io.cell, io.queue, io.pending, cs)
      /\ Apart(io.cell, io.queue, io.pending, cs)
      /\ InOrder(io.cell, io.queue, cs, <<>>, n, d)
  BY DEF Good, WellTyped, ApartIo, InOrderIo
<1>4. /\ DOMAIN io.queue \subseteq DOMAIN q2 /\ Len(io.queue) + 1 \in DOMAIN q2
      /\ \A i \in DOMAIN io.queue : q2[i] = io.queue[i] /\ i \in Nat /\ i < Len(io.queue) + 1
      /\ q2[Len(io.queue) + 1] = s
      /\ \A i \in DOMAIN q2 : i \in DOMAIN io.queue \/ (i = Len(io.queue) + 1 /\ q2[i] = s)
  BY <1>3
<1> HIDE DEF r, c2, s, q2
<1>5. c2 # io.cell /\ \A i \in DOMAIN io.queue : io.queue[i].cell # c2
  BY <1>1 DEF CellsInUse
<1>6. cs[c2].state = "none"
  BY <1>1, <1>3, <1>5 DEF Ordered, O5, EndsCell
<1>7. ASSUME NEW i, NEW j \in DOMAIN io.queue, NEW e
      PROVE  EndBetween(q2, i, j, e) <=> EndBetween(io.queue, i, j, e)
  <2>1. ASSUME EndBetween(q2, i, j, e) PROVE EndBetween(io.queue, i, j, e)
    <3>1. PICK k \in DOMAIN q2 : i < k /\ k < j /\ EndsCell(q2[k], e)
      BY <2>1 DEF EndBetween
    <3>2. k \in DOMAIN io.queue
      BY <1>3, <1>4, <3>1
    <3> QED
      BY <1>4, <3>1, <3>2 DEF EndBetween
  <2>2. ASSUME EndBetween(io.queue, i, j, e) PROVE EndBetween(q2, i, j, e)
    BY <1>4, <2>2 DEF EndBetween
  <2> QED
    BY <2>1, <2>2
\* The new session carries nothing.
<1>8. \A i \in DOMAIN q2 : Runs(q2[i], cs) \/ q2[i].op = "insert" \/ q2[i].armed =>
          i \in DOMAIN io.queue /\ q2[i] = io.queue[i]
  BY <1>2, <1>4 DEF Runs
<1>9. Apart(c2, q2, 0, cs)
  <2>1. A1(c2, cs) /\ A2(cs) /\ A3(q2, 0)
    BY <1>3, <1>6 DEF Apart, A1, A2, A3
  <2>2. A4(q2)
    BY <1>2, <1>3, <1>4 DEF Apart, A4
  <2>3. A5(c2, q2, 0)
    BY <1>5, <1>8 DEF A5
  <2>4. A6(q2, cs)
    BY <1>3, <1>7, <1>8 DEF Apart, A6
  <2>5. A7(q2)
    BY <1>3, <1>7, <1>8 DEF Apart, A7
  <2> QED
    BY <2>1, <2>2, <2>3, <2>4, <2>5 DEF Apart
<1>10. InOrder(c2, q2, cs, <<>>, n, d)
  <2>1. T1(<<>>, n, d)
    BY <1>3 DEF InOrder
  <2>2. T2(c2, cs, <<>>, n, d)
    BY <1>3, CellTexts, NothingText DEF InOrder, T2
  <2>3. T3(q2, cs)
    BY <1>3, <1>7, <1>8 DEF InOrder, T3
  <2>4. T4(c2, q2, cs, <<>>, n, d)
    <3> SUFFICES ASSUME NEW i \in DOMAIN q2, Runs(q2[i], cs)
                 PROVE  /\ Fits(q2[i].commit, n) /\ Fits(q2[i].preedit, n)
                        /\ Before(q2[i].commit, q2[i].preedit)
                        /\ Precedes(d, q2[i]) /\ Before(q2[i].commit, <<>>)
                        /\ q2[i].cell # c2 => Before(q2[i].preedit, <<>>)
      BY DEF T4
    <3>1. i \in DOMAIN io.queue /\ q2[i] = io.queue[i] /\ io.queue[i] \in Session
      BY <1>3, <1>8
    <3>2. Before(q2[i].preedit, <<>>)
      BY <3>1, SessionTexts, NothingText
    <3> QED
      BY <1>3, <3>1, <3>2 DEF InOrder, T4
  <2>5. T5(q2, cs)
    BY <1>3, <1>8 DEF InOrder, T5
  <2>6. T6(q2, cs)
    BY <1>3, <1>7, <1>8 DEF InOrder, T6
  <2> QED
    BY <2>1, <2>2, <2>3, <2>4, <2>5, <2>6 DEF InOrder
<1> QED
  BY <1>2, <1>6, <1>9, <1>10 DEF ApartIo, InOrderIo, r

\* A request to insert text, when there is no composition and no edit waits.
LEMMA InsertKeepsText ==
    ASSUME NEW io, NEW cs, NEW text \in Text, NEW n \in Nat, NEW d \in Text,
           Good(io, cs), io.pending = 0, cs[io.cell].state = "none",
           ApartIo(io, cs), InOrderIo(io, cs, text, n, d)
    PROVE  LET r == InsertText(io, text)
           IN  /\ ApartIo(r, cs) /\ InOrderIo(r, cs, <<>>, n, d)
               /\ r.cell = io.cell /\ r.pending = 0
<1> DEFINE r == InsertText(io, text)
           s == InsertSession(text)
           q2 == Append(io.queue, s)
           w == Len(io.queue) + 1
<1>1. /\ io \in IoRecord /\ io.queue \in Seq(Session) /\ io.cell \in Cells
      /\ cs \in [Cells -> Slot]
      /\ WellTyped(io.cell, io.queue, io.pending, cs)
      /\ Ordered(io.cell, io.queue, io.pending, cs)
      /\ Apart(io.cell, io.queue, io.pending, cs)
      /\ InOrder(io.cell, io.queue, cs, text, n, d)
  BY DEF Good, WellTyped, ApartIo, InOrderIo
<1>2. r.cell = io.cell /\ r.queue = q2 /\ r.pending = io.pending
  <2>1. r = [io EXCEPT !.queue = q2]
    BY DEF InsertText
  <2> HIDE DEF q2, r
  <2> QED
    BY <1>1, <2>1 DEF IoRecord
<1>3. /\ s \in Session /\ s.op = "insert" /\ s.armed /\ s.commit = text /\ s.preedit = <<>>
  BY NothingText DEF InsertSession, Session
<1>4. /\ q2 \in Seq(Session) /\ w \in DOMAIN q2 /\ q2[w] = s
      /\ DOMAIN io.queue \subseteq DOMAIN q2
      /\ \A i \in DOMAIN q2 : i # w => i \in DOMAIN io.queue /\ q2[i] = io.queue[i]
      /\ \A i \in DOMAIN io.queue : i \in Nat /\ i < w /\ q2[i] = io.queue[i]
      /\ \A i \in DOMAIN q2 : ~(w < i)
      /\ w \notin DOMAIN io.queue
  BY <1>1, <1>3
<1> HIDE DEF r, s, q2, w
<1>5. Put(io.queue, 0, q2, w, s)
  <2>1. w = Len(io.queue) + 1
    BY DEF w
  <2> QED
    BY <1>4, <2>1 DEF Put
<1>6. InOrder(io.cell, q2, cs, <<>>, n, d)
  <2>1. s.commit \o s.preedit = text
    BY <1>3, TextJoins
  <2>2. InOrder(io.cell, io.queue, cs, s.commit \o s.preedit, n, d)
    BY <1>1, <2>1
  <2>3. InOrder(io.cell, q2, cs, s.preedit, n, d)
    BY <1>1, <1>3, <1>4, <2>2, PutKeepsOrder
  <2> QED
    BY <1>3, <2>3
<1>7. \A i, e : \A j \in DOMAIN io.queue : EndBetween(q2, i, j, e) <=> EndBetween(io.queue, i, j, e)
  BY <1>3, <1>4, <1>5, PutKeepsEnds
<1>8. Apart(io.cell, q2, 0, cs)
  <2>1. A1(io.cell, cs) /\ A2(cs) /\ A3(q2, 0)
    BY <1>1 DEF Apart, A1, A2, A3
  <2>2. A4(q2)
    BY <1>1, <1>3, <1>4 DEF Apart, A4
  <2>3. A5(io.cell, q2, 0)
    BY <1>1, <1>3, <1>4 DEF Apart, A5
  <2>4. A6(q2, cs)
    <3> SUFFICES ASSUME NEW i \in DOMAIN q2, NEW e \in Cells,
                        q2[i].op = "insert", Live(cs, e)
                 PROVE  EndBetween(q2, 0, i, e)
      BY DEF A6
    <3>1. CASE i = w
      <4>1. PICK k \in DOMAIN io.queue : EndsCell(io.queue[k], e)
        BY <1>1 DEF Ordered, O5, Live
      <4>2. k \in DOMAIN q2 /\ 0 < k /\ k < i /\ EndsCell(q2[k], e)
        BY <1>1, <1>4, <3>1, <4>1
      <4> QED
        BY <4>2 DEF EndBetween
    <3>2. CASE i # w
      BY <1>1, <1>4, <1>7, <3>2 DEF Apart, A6
    <3> QED
      BY <3>1, <3>2
  <2>5. A7(q2)
    <3> SUFFICES ASSUME NEW i \in DOMAIN q2, NEW j \in DOMAIN q2, j < i,
                        q2[i].op = "insert", q2[j].op = "set", q2[j].armed
                 PROVE  EndBetween(q2, j, i, q2[j].cell)
      BY DEF A7
    <3>1. j \in DOMAIN io.queue /\ q2[j] = io.queue[j]
      BY <1>3, <1>4
    <3>2. CASE i = w
      <4>1. io.queue[j].cell # io.cell
        BY <1>1, <3>1, <1>4 DEF Apart, A5
      <4>2. PICK k \in DOMAIN io.queue : j <= k /\ EndsCell(io.queue[k], io.queue[j].cell)
        BY <1>1, <3>1, <4>1 DEF Ordered, O4, UsesCell
      <4>3. k # j
        BY <3>1, <4>2 DEF EndsCell
      <4>4. k \in DOMAIN q2 /\ j < k /\ k < i /\ EndsCell(q2[k], q2[j].cell)
        BY <1>1, <1>4, <3>1, <3>2, <4>2, <4>3
      <4> QED
        BY <4>4 DEF EndBetween
    <3>3. CASE i # w
      BY <1>1, <1>4, <1>7, <3>1, <3>3 DEF Apart, A7
    <3> QED
      BY <3>2, <3>3
  <2> QED
    BY <2>1, <2>2, <2>3, <2>4, <2>5 DEF Apart
<1> QED
  BY <1>2, <1>6, <1>8 DEF ApartIo, InOrderIo, r

\* What update_preedit requests, for an editor that has committed commit and shows
\* preedit.
LEMMA UpdatePreeditKeepsText ==
    ASSUME NEW io, NEW cs, NEW commit \in Text, NEW preedit \in Text,
           NEW composing \in BOOLEAN, NEW candidates \in BOOLEAN,
           NEW n \in Nat, NEW d \in Text,
           Good(io, cs), Room(io), ApartIo(io, cs),
           InOrderIo(io, cs, commit \o preedit, n, d),
           candidates => composing,
           commit # <<>> => composing /\ ~candidates /\ preedit = <<>>
    PROVE  LET r == UpdatePreedit(io, commit, preedit, composing, candidates)
           IN  /\ ApartIo(r, cs) /\ InOrderIo(r, cs, preedit, n, d) /\ ShownIo(r, cs, preedit)
               /\ r.pending # 0 /\ preedit = <<>> => candidates
               /\ candidates => r.cell = io.cell
<1> DEFINE set == SetCompositionString(io, commit, preedit)
           r == UpdatePreedit(io, commit, preedit, composing, candidates)
<1>1. /\ ApartIo(set, cs) /\ InOrderIo(set, cs, preedit, n, d)
      /\ set.cell = io.cell /\ set.pending # 0
      /\ set.queue[set.pending] = SetSession(io.cell, commit, preedit)
  BY SetKeepsText
<1>2. Good(set, cs) /\ Room(set)
  BY SetKeepsOrder
<1>3. commit = <<>> => ShownIo(set, cs, preedit)
  BY <1>1 DEF ShownIo, Shown, SetSession
<1> HIDE DEF set
<1>4. CASE preedit # <<>> \/ candidates
  <2>1. r = set
    BY <1>4 DEF UpdatePreedit, set
  <2>2. commit = <<>>
    BY <1>4
  <2> QED
    BY <1>1, <1>3, <1>4, <2>1, <2>2
<1>5. CASE preedit = <<>> /\ ~candidates
  <2> DEFINE cleared == IF composing THEN set ELSE io
  <2>1. r = EndComposition(cleared)
    BY <1>5 DEF UpdatePreedit, set
  <2>2. /\ Good(cleared, cs) /\ Room(cleared) /\ ApartIo(cleared, cs)
        /\ InOrderIo(cleared, cs, <<>>, n, d)
    <3>1. CASE composing
      BY <1>1, <1>2, <1>5, <3>1
    <3>2. CASE ~composing
      <4>1. commit \o preedit = <<>>
        BY <1>5, <3>2, NothingText, TextJoins
      <4> QED
        BY <3>2, <4>1
    <3> QED
      BY <3>1, <3>2
  <2> HIDE DEF cleared, r
  <2>3. /\ ApartIo(r, cs) /\ InOrderIo(r, cs, <<>>, n, d)
        /\ cs[r.cell].state = "none" /\ r.pending = 0
    BY <2>1, <2>2, EndKeepsText
  <2>4. ShownIo(r, cs, <<>>)
    BY <2>3 DEF ShownIo, Shown, Live
  <2> QED
    BY <1>5, <2>3, <2>4 DEF r
<1> QED
  BY <1>4, <1>5

\* The application ends the live composition x: it, and the edit that waits, are
\* forgotten, and the editor shows nothing.
LEMMA ClearKeepsText ==
    ASSUME NEW io, NEW cs, NEW x \in Cells, NEW t \in Text, NEW n \in Nat, NEW d \in Text,
           Good(io, cs), ApartIo(io, cs), InOrderIo(io, cs, t, n, d), Live(cs, x)
    PROVE  LET r == ClearPending(io)
               cs2 == [[cs EXCEPT ![x] = [state |-> "dead", text |-> <<>>]]
                          EXCEPT ![io.cell] = NoComposition]
           IN  /\ r.cell = io.cell /\ r.pending = 0
               /\ ApartIo(r, cs2) /\ InOrderIo(r, cs2, <<>>, n, d \o cs[x].text)
               /\ ShownIo(r, cs2, <<>>)
               /\ DOMAIN r.queue = DOMAIN io.queue
               /\ \A i \in DOMAIN r.queue : Runs(r.queue[i], cs2) =>
                     r.queue[i] = io.queue[i] /\ Runs(io.queue[i], cs)
               /\ \A e \in Cells : ~Live(cs2, e)
<1> DEFINE r == ClearPending(io)
           cs2 == [[cs EXCEPT ![x] = [state |-> "dead", text |-> <<>>]]
                      EXCEPT ![io.cell] = NoComposition]
           q == io.queue
           p == io.pending
           c == io.cell
           q2 == r.queue
           d2 == d \o cs[x].text
<1>1. /\ io \in IoRecord /\ q \in Seq(Session) /\ c \in Cells /\ p \in 0..Len(q)
      /\ cs \in [Cells -> Slot]
      /\ Ordered(c, q, p, cs) /\ Apart(c, q, p, cs) /\ InOrder(c, q, cs, t, n, d)
  BY DEF Good, WellTyped, ApartIo, InOrderIo
<1>2. /\ \A e \in Cells : cs2[e].state \in {"none", "dead"}
      /\ \A e \in Cells : cs2[e].text = <<>>
      /\ cs2[c].state = "none"
      /\ x # c => cs2[x].state = "dead"
      /\ \A e \in Cells : e # c /\ e # x => cs2[e] = cs[e]
  BY <1>1, CellTexts DEF Ordered, O7, Live, NoComposition, Apart, A2
<1>3. /\ r.cell = c /\ r.pending = 0 /\ DOMAIN q2 = DOMAIN q
      /\ \A i \in DOMAIN q : q2[i].op = q[i].op /\ q2[i].cell = q[i].cell
      /\ \A i \in DOMAIN q : q2[i].armed => q2[i] = q[i] /\ i # p
      /\ \A i \in DOMAIN q : q2[i] = q[i] \/ (i = p /\ ~q2[i].armed)
  <2>1. CASE p = 0
    <3>1. r = io
      BY <2>1 DEF ClearPending
    <3> QED
      BY <1>1, <2>1, <3>1
  <2>2. CASE p # 0
    <3> DEFINE s == [q[p] EXCEPT !.armed = FALSE]
    <3>1. p \in DOMAIN q /\ q[p] \in Session
      BY <1>1, <2>2
    <3>2. s.op = q[p].op /\ s.cell = q[p].cell /\ ~s.armed
      BY <3>1 DEF Session
    <3>3. r = [cell |-> c, queue |-> [q EXCEPT ![p] = s], pending |-> 0]
      BY <1>1, <2>2, <3>1 DEF ClearPending, IoRecord
    <3> HIDE DEF s, r
    <3> QED
      BY <1>1, <3>1, <3>2, <3>3
  <2> QED
    BY <2>1, <2>2
<1>4. d2 \in Text /\ cs[x].text \in Text
  BY <1>1, CellTexts, TextJoins
<1> HIDE DEF r, cs2
<1>5. \A i, j, e : EndBetween(q2, i, j, e) <=> EndBetween(q, i, j, e)
  BY <1>3 DEF EndBetween, EndsCell
\* What still runs ran before, and waited for the end of x.
<1>6. ASSUME NEW i \in DOMAIN q2, Runs(q2[i], cs2)
      PROVE  /\ i \in DOMAIN q /\ q2[i] = q[i] /\ q[i] \in Session
             /\ Runs(q[i], cs) /\ EndBetween(q, 0, i, x)
  <2>1. i \in DOMAIN q /\ q2[i] = q[i] /\ q[i] \in Session /\ q[i].armed /\ i # p
    BY <1>1, <1>3, <1>6 DEF Runs
  <2>2. CASE q[i].op = "set"
    <3>1. q[i].cell # c /\ q[i].cell \in Cells
      BY <1>1, <2>1, <2>2 DEF Apart, A5, Session
    <3>2. q[i].cell # x
      BY <1>2, <1>6, <2>1, <2>2, <3>1 DEF Runs
    <3>3. Runs(q[i], cs)
      BY <1>2, <1>6, <2>1, <3>1, <3>2 DEF Runs
    <3>4. \E k \in DOMAIN q : k < i /\ EndsCell(q[k], x)
      BY <1>1, <2>1, <2>2, <3>2 DEF Ordered, O6, Live, UsesCell
    <3>5. EndBetween(q, 0, i, x)
      BY <1>1, <3>4 DEF EndBetween
    <3> QED
      BY <2>1, <3>3, <3>5
  <2>3. CASE q[i].op = "insert"
    BY <1>1, <2>1, <2>3 DEF Apart, A6, Runs
  <2>4. CASE q[i].op = "end"
    BY <1>1, <2>1, <2>4 DEF Apart, A4
  <2> QED
    BY <2>1, <2>2, <2>3, <2>4 DEF Session
<1>7. Apart(c, q2, 0, cs2)
  <2>1. A1(c, cs2) /\ A2(cs2) /\ A3(q2, 0)
    BY <1>2 DEF A1, A2, A3
  <2>2. A4(q2)
    BY <1>1, <1>3 DEF Apart, A4, Ordered, O1
  <2>3. A5(c, q2, 0)
    BY <1>1, <1>3 DEF Apart, A5
  <2>4. A6(q2, cs2)
    BY <1>2 DEF A6, Live
  <2>5. A7(q2)
    <3> SUFFICES ASSUME NEW i \in DOMAIN q2, NEW j \in DOMAIN q2, j < i,
                        q2[i].op = "insert", q2[j].op = "set", q2[j].armed
                 PROVE  EndBetween(q2, j, i, q2[j].cell)
      BY DEF A7
    <3>1. EndBetween(q, j, i, q[j].cell)
      BY <1>1, <1>3 DEF Apart, A7
    <3> QED
      BY <1>3, <1>5, <3>1
  <2> QED
    BY <2>1, <2>2, <2>3, <2>4, <2>5 DEF Apart
<1>8. Fits(d2, n) /\ \A y \in Text : Before(d2, y) <=> Before(d, y) /\ Before(cs[x].text, y)
  <2>1. Fits(d, n) /\ Fits(cs[x].text, n) /\ Before(d, cs[x].text)
    BY <1>1 DEF InOrder, T1, T2
  <2>2. Fits(d2, n)
    BY <1>4, <2>1, TextJoins DEF Fits
  <2>3. \A y \in Text : Before(d2, y) <=> Before(d, y) /\ Before(cs[x].text, y)
    BY <1>4, JoinBefore
  <2> QED
    BY <2>2, <2>3
<1> HIDE DEF d2
<1>9. InOrder(c, q2, cs2, <<>>, n, d2)
  <2>1. T1(<<>>, n, d2)
    BY <1>4, <1>8, NothingText DEF T1
  <2>2. T2(c, cs2, <<>>, n, d2) /\ T3(q2, cs2)
    BY <1>2 DEF T2, T3, Live
  <2>3. T4(c, q2, cs2, <<>>, n, d2)
    <3> SUFFICES ASSUME NEW i \in DOMAIN q2, Runs(q2[i], cs2)
                 PROVE  /\ Fits(q2[i].commit, n) /\ Fits(q2[i].preedit, n)
                        /\ Before(q2[i].commit, q2[i].preedit)
                        /\ Precedes(d2, q2[i]) /\ Before(q2[i].commit, <<>>)
                        /\ q2[i].cell # c => Before(q2[i].preedit, <<>>)
      BY DEF T4
    <3>1. /\ i \in DOMAIN q /\ q2[i] = q[i] /\ q[i] \in Session
          /\ Runs(q[i], cs) /\ EndBetween(q, 0, i, x)
      BY <1>6
    <3>2. q2[i].commit \in Text /\ q2[i].preedit \in Text
      BY <3>1, SessionTexts
    <3>3. Precedes(d, q[i]) /\ Precedes(cs[x].text, q[i])
      BY <1>1, <3>1 DEF InOrder, T3, T4
    <3>4. Precedes(d2, q2[i])
      BY <1>8, <3>1, <3>2, <3>3 DEF Precedes
    <3> QED
      BY <1>1, <3>1, <3>2, <3>4, NothingText DEF InOrder, T4
  <2>4. T5(q2, cs2)
    BY <1>1, <1>6 DEF InOrder, T5
  <2>5. T6(q2, cs2)
    BY <1>1, <1>5, <1>6 DEF InOrder, T6
  <2> QED
    BY <2>1, <2>2, <2>3, <2>4, <2>5 DEF InOrder
<1>10. Shown(c, q2, 0, cs2, <<>>)
  BY <1>2 DEF Shown, Live
<1>11. \A e \in Cells : ~Live(cs2, e)
  BY <1>2 DEF Live
<1> QED
  BY <1>3, <1>6, <1>7, <1>9, <1>10, <1>11 DEF ApartIo, InOrderIo, ShownIo, r, cs2, d2
-----------------------------------------------------------------------------
(***************************************************************************)
(* TSF runs the first session of the queue.                                *)
(***************************************************************************)

\* Without its first session, the queue has the others one place earlier.
LEMMA TailShifts ==
    ASSUME NEW q \in Seq(Session), q # <<>>
    PROVE  /\ 1 \in DOMAIN q /\ DOMAIN q \subseteq Nat
           /\ \A i \in DOMAIN Tail(q) : i \in Nat /\ i > 0 /\ i + 1 \in DOMAIN q /\ Tail(q)[i] = q[i + 1]
           /\ \A k \in DOMAIN q : k # 1 => k - 1 \in DOMAIN Tail(q) /\ Tail(q)[k - 1] = q[k]
           /\ \A i \in Nat, j \in DOMAIN Tail(q) :
                  \A e : EndBetween(Tail(q), i, j, e) <=> EndBetween(q, i + 1, j + 1, e)
<1> DEFINE r == Tail(q)
<1>1. /\ 1 \in DOMAIN q /\ DOMAIN q \subseteq Nat \ {0}
      /\ \A i \in DOMAIN r : i \in Nat /\ i > 0 /\ i + 1 \in DOMAIN q /\ r[i] = q[i + 1]
      /\ \A k \in DOMAIN q : k # 1 => k - 1 \in DOMAIN r /\ r[k - 1] = q[k]
  OBVIOUS
<1> HIDE DEF r
<1>2. ASSUME NEW i \in Nat, NEW j \in DOMAIN r, NEW e
      PROVE  EndBetween(r, i, j, e) <=> EndBetween(q, i + 1, j + 1, e)
  <2>1. ASSUME EndBetween(r, i, j, e) PROVE EndBetween(q, i + 1, j + 1, e)
    <3>1. PICK k \in DOMAIN r : i < k /\ k < j /\ EndsCell(r[k], e)
      BY <2>1 DEF EndBetween
    <3>2. k + 1 \in DOMAIN q /\ i + 1 < k + 1 /\ k + 1 < j + 1 /\ EndsCell(q[k + 1], e)
      BY <1>1, <3>1
    <3> QED
      BY <3>2 DEF EndBetween
  <2>2. ASSUME EndBetween(q, i + 1, j + 1, e) PROVE EndBetween(r, i, j, e)
    <3>1. PICK k \in DOMAIN q : i + 1 < k /\ k < j + 1 /\ EndsCell(q[k], e)
      BY <2>2 DEF EndBetween
    <3>2. k - 1 \in DOMAIN r /\ i < k - 1 /\ k - 1 < j /\ EndsCell(r[k - 1], e)
      BY <1>1, <3>1
    <3> QED
      BY <3>2 DEF EndBetween
  <2> QED
    BY <2>1, <2>2
<1> QED
  BY <1>1, <1>2 DEF r

\* What is behind an end in the queue is behind it when the first session is gone,
\* unless that session was the end.
LEMMA EndRemains ==
    ASSUME NEW q \in Seq(Session), q # <<>>, NEW j \in DOMAIN Tail(q), NEW e,
           EndBetween(q, 0, j + 1, e), ~EndsCell(q[1], e)
    PROVE  EndBetween(Tail(q), 0, j, e)
<1>1. PICK k \in DOMAIN q : 0 < k /\ k < j + 1 /\ EndsCell(q[k], e)
  BY DEF EndBetween
<1>2. k # 1 /\ k \in Nat /\ j \in Nat
  BY <1>1, TailShifts
<1>3. k - 1 \in DOMAIN Tail(q) /\ 0 < k - 1 /\ k - 1 < j /\ EndsCell(Tail(q)[k - 1], e)
  BY <1>1, <1>2, TailShifts
<1> QED
  BY <1>3 DEF EndBetween

\* Running the first session may draw its composition, and no other.
LEMMA RunKeepsApart ==
    ASSUME NEW c, NEW q, NEW p, NEW cs, NEW cs2,
           WellTyped(c, q, p, cs), Ordered(c, q, p, cs), Apart(c, q, p, cs), q # <<>>,
           A1(c, cs2), A2(cs2),
           \A e \in Cells : Live(cs2, e) =>
               \/ Live(cs, e) /\ ~EndsCell(q[1], e)
               \/ q[1].op = "set" /\ q[1].armed /\ e = q[1].cell
    PROVE  Apart(c, Tail(q), IF p = 0 THEN 0 ELSE p - 1, cs2)
<1> DEFINE r == Tail(q)
           p2 == IF p = 0 THEN 0 ELSE p - 1
<1>0. q \in Seq(Session) /\ p \in 0..Len(q) /\ p \in Nat
  BY DEF WellTyped
<1>1. /\ 1 \in DOMAIN q /\ DOMAIN q \subseteq Nat
      /\ \A i \in DOMAIN r : i \in Nat /\ i > 0 /\ i + 1 \in DOMAIN q /\ r[i] = q[i + 1]
      /\ \A k \in DOMAIN q : k # 1 => k - 1 \in DOMAIN r /\ r[k - 1] = q[k]
  BY <1>0, TailShifts
<1>2. \A i \in Nat, j \in DOMAIN r :
          \A e : EndBetween(r, i, j, e) <=> EndBetween(q, i + 1, j + 1, e)
  BY <1>0, TailShifts
<1>3. \A j \in DOMAIN r : \A e : EndBetween(q, 0, j + 1, e) /\ ~EndsCell(q[1], e) => EndBetween(r, 0, j, e)
  BY <1>0, EndRemains
<1> HIDE DEF r
<1>4. A3(r, p2)
  BY <1>0, <1>1 DEF Apart, A3
<1>5. A4(r)
  BY <1>1 DEF Apart, A4
<1>6. A5(c, r, p2)
  BY <1>0, <1>1 DEF Apart, A5
<1>7. A6(r, cs2)
  <2> SUFFICES ASSUME NEW i \in DOMAIN r, NEW e \in Cells, r[i].op = "insert", Live(cs2, e)
               PROVE  EndBetween(r, 0, i, e)
    BY DEF A6
  <2>1. CASE Live(cs, e) /\ ~EndsCell(q[1], e)
    <3>1. EndBetween(q, 0, i + 1, e)
      BY <1>1, <2>1 DEF Apart, A6
    <3> QED
      BY <1>3, <2>1, <3>1
  <2>2. CASE q[1].op = "set" /\ q[1].armed /\ e = q[1].cell
    <3>1. EndBetween(q, 1, i + 1, e)
      BY <1>1, <2>2 DEF Apart, A7
    <3>2. EndBetween(q, 0 + 1, i + 1, e)
      BY <3>1
    <3> QED
      BY <1>2, <3>2
  <2> QED
    BY <2>1, <2>2
<1>8. A7(r)
  <2> SUFFICES ASSUME NEW i \in DOMAIN r, NEW j \in DOMAIN r, j < i,
                      r[i].op = "insert", r[j].op = "set", r[j].armed
               PROVE  EndBetween(r, j, i, r[j].cell)
    BY DEF A7
  <2>1. EndBetween(q, j + 1, i + 1, q[j + 1].cell)
    BY <1>1 DEF Apart, A7
  <2> QED
    BY <1>1, <1>2, <2>1
<1> QED
  BY <1>4, <1>5, <1>6, <1>7, <1>8 DEF Apart, r

\* The first session runs and adds x to the document.
LEMMA RunKeepsOrdered ==
    ASSUME NEW c, NEW q, NEW p, NEW cs, NEW cs2, NEW t \in Text, NEW n \in Nat, NEW d \in Text,
           NEW x \in Text,
           WellTyped(c, q, p, cs), InOrder(c, q, cs, t, n, d), q # <<>>,
           cs2 \in [Cells -> Slot],
           \A j \in DOMAIN q : j # 1 /\ Runs(q[j], cs2) => Runs(q[j], cs) /\ Precedes(x, q[j]),
           \A e \in Cells : Live(cs2, e) =>
               /\ Before(x, cs2[e].text)
               /\ \/ cs2[e] = cs[e]
                  \/ Runs(q[1], cs) /\ e = q[1].cell /\ cs2[e].text = q[1].preedit,
           Fits(x, n), Before(d, x), Before(x, t)
    PROVE  InOrder(c, Tail(q), cs2, t, n, d \o x)
<1> DEFINE r == Tail(q)
           d2 == d \o x
<1>0. q \in Seq(Session) /\ cs \in [Cells -> Slot]
  BY DEF WellTyped
<1>1. /\ 1 \in DOMAIN q /\ DOMAIN q \subseteq Nat
      /\ \A i \in DOMAIN r : i \in Nat /\ i > 0 /\ i + 1 \in DOMAIN q /\ r[i] = q[i + 1]
  BY <1>0, TailShifts
<1>2. \A i \in Nat, j \in DOMAIN r :
          \A e : EndBetween(r, i, j, e) <=> EndBetween(q, i + 1, j + 1, e)
  BY <1>0, TailShifts
<1>3. Fits(d2, n)
  BY TextJoins DEF Fits, InOrder, T1
<1>4. \A y \in Text : Before(d2, y) <=> Before(d, y) /\ Before(x, y)
  BY JoinBefore
<1>5. InOrder(c, q, cs, t, n, d)
  OBVIOUS
<1> HIDE DEF r, d2
<1>6. ASSUME NEW i \in DOMAIN r, Runs(r[i], cs2)
      PROVE  /\ i + 1 \in DOMAIN q /\ i + 1 # 1 /\ r[i] = q[i + 1] /\ r[i] \in Session
             /\ Runs(q[i + 1], cs) /\ Precedes(x, r[i]) /\ 1 < i + 1
             /\ r[i].commit \in Text /\ r[i].preedit \in Text
  <2>1. i + 1 \in DOMAIN q /\ i + 1 # 1 /\ r[i] = q[i + 1] /\ q[i + 1] \in Session /\ 1 < i + 1
    BY <1>0, <1>1
  <2> QED
    BY <1>6, <2>1, SessionTexts
<1>7. T1(t, n, d2)
  BY <1>3, <1>4, <1>5 DEF InOrder, T1
<1>8. T2(c, cs2, t, n, d2)
  <2> SUFFICES ASSUME NEW e \in Cells, Live(cs2, e)
               PROVE  /\ Fits(cs2[e].text, n) /\ Before(d2, cs2[e].text)
                      /\ e # c => Before(cs2[e].text, t)
    BY DEF T2
  <2>1. cs2[e].text \in Text
    BY CellTexts
  <2>2. CASE cs2[e] = cs[e]
    BY <1>4, <1>5, <2>1, <2>2 DEF InOrder, T2, Live
  <2>3. CASE Runs(q[1], cs) /\ e = q[1].cell /\ cs2[e].text = q[1].preedit
    BY <1>1, <1>4, <1>5, <2>1, <2>3 DEF InOrder, T4, Precedes
  <2> QED
    BY <2>2, <2>3
<1>9. T3(r, cs2)
  <2> SUFFICES ASSUME NEW e \in Cells, NEW j \in DOMAIN r,
                      Live(cs2, e), Runs(r[j], cs2), EndBetween(r, 0, j, e)
               PROVE  Precedes(cs2[e].text, r[j])
    BY DEF T3
  <2>1. EndBetween(q, 0 + 1, j + 1, e)
    BY <1>2
  <2>2. CASE cs2[e] = cs[e]
    <3>1. EndBetween(q, 0, j + 1, e)
      BY <1>1, <2>1 DEF EndBetween
    <3> QED
      BY <1>5, <1>6, <2>2, <3>1 DEF InOrder, T3, Live
  <2>3. CASE Runs(q[1], cs) /\ e = q[1].cell /\ cs2[e].text = q[1].preedit
    <3>1. EndBetween(q, 1, j + 1, q[1].cell)
      BY <2>1, <2>3
    <3> QED
      BY <1>1, <1>5, <1>6, <2>3, <3>1 DEF InOrder, T6
  <2> QED
    BY <2>2, <2>3
<1>10. T4(c, r, cs2, t, n, d2)
  <2> SUFFICES ASSUME NEW i \in DOMAIN r, Runs(r[i], cs2)
               PROVE  /\ Fits(r[i].commit, n) /\ Fits(r[i].preedit, n)
                      /\ Before(r[i].commit, r[i].preedit)
                      /\ Precedes(d2, r[i]) /\ Before(r[i].commit, t)
                      /\ r[i].cell # c => Before(r[i].preedit, t)
    BY DEF T4
  <2>1. /\ Fits(r[i].commit, n) /\ Fits(r[i].preedit, n)
        /\ Before(r[i].commit, r[i].preedit)
        /\ Precedes(d, r[i]) /\ Before(r[i].commit, t)
        /\ r[i].cell # c => Before(r[i].preedit, t)
    BY <1>5, <1>6 DEF InOrder, T4
  <2>2. Precedes(d2, r[i])
    BY <1>4, <1>6, <2>1 DEF Precedes
  <2> QED
    BY <2>1, <2>2
<1>11. T5(r, cs2)
  <2> SUFFICES ASSUME NEW i \in DOMAIN r, NEW j \in DOMAIN r, i < j,
                      Runs(r[i], cs2), Runs(r[j], cs2)
               PROVE  Precedes(r[i].commit, r[j])
    BY DEF T5
  <2>1. i + 1 < j + 1
    BY <1>1
  <2> QED
    BY <1>5, <1>6, <2>1 DEF InOrder, T5
<1>12. T6(r, cs2)
  <2> SUFFICES ASSUME NEW i \in DOMAIN r, NEW j \in DOMAIN r, i < j,
                      Runs(r[i], cs2), Runs(r[j], cs2), EndBetween(r, i, j, r[i].cell)
               PROVE  Precedes(r[i].preedit, r[j])
    BY DEF T6
  <2>1. i + 1 < j + 1 /\ EndBetween(q, i + 1, j + 1, r[i].cell)
    BY <1>1, <1>2
  <2> QED
    BY <1>5, <1>6, <2>1 DEF InOrder, T6
<1> QED
  BY <1>7, <1>8, <1>9, <1>10, <1>11, <1>12 DEF InOrder, r, d2

\* What the first session of the queue does to the cells and the document.
RunFirst(q, cs, cs2, d, d2) ==
    \/ /\ q[1].op = "set" /\ Runs(q[1], cs)
       /\ cs2 = [cs EXCEPT ![q[1].cell] = [state |-> "live", text |-> q[1].preedit]]
       /\ d2 = d \o q[1].commit
    \/ /\ q[1].op = "set" /\ ~Runs(q[1], cs)
       /\ cs2 = cs /\ d2 = d
    \/ /\ q[1].op = "end"
       /\ cs2 = [cs EXCEPT ![q[1].cell] = NoComposition]
       /\ d2 = d \o cs[q[1].cell].text
    \/ /\ q[1].op = "insert" /\ Runs(q[1], cs) /\ \A e \in Cells : ~Live(cs, e)
       /\ cs2 = cs /\ d2 = d \o q[1].commit

\* The sessions run in the order of the requests, and a composition is drawn
\* only when no other is.
LEMMA FirstFacts ==
    ASSUME NEW c, NEW q, NEW p, NEW cs,
           WellTyped(c, q, p, cs), Ordered(c, q, p, cs), Apart(c, q, p, cs), q # <<>>
    PROVE  /\ 1 \in DOMAIN q /\ q[1] \in Session /\ DOMAIN q \subseteq Nat \ {0}
           /\ q[1].op = "insert" => Runs(q[1], cs) /\ \A e \in Cells : ~Live(cs, e)
           /\ q[1].op = "set" => \A e \in Cells : Live(cs, e) => e = q[1].cell
           /\ q[1].op = "end" =>
                 /\ q[1].cell # c /\ ~Runs(q[1], cs)
                 /\ \A j \in DOMAIN q : j # 1 /\ q[j].op = "set" => q[j].cell # q[1].cell
           /\ q[1].op = "set" /\ q[1].cell = c => (Runs(q[1], cs) <=> p = 1)
<1>1. 1 \in DOMAIN q /\ q[1] \in Session /\ DOMAIN q \subseteq Nat \ {0}
  BY DEF WellTyped
<1>2. q[1].op = "insert" => Runs(q[1], cs) /\ \A e \in Cells : ~Live(cs, e)
  BY <1>1 DEF Apart, A4, A6, EndBetween, Runs
<1>3. q[1].op = "set" => \A e \in Cells : Live(cs, e) => e = q[1].cell
  BY <1>1 DEF Ordered, O6, Live, UsesCell
<1>4. q[1].op = "end" =>
         /\ q[1].cell # c /\ ~Runs(q[1], cs)
         /\ \A j \in DOMAIN q : j # 1 /\ q[j].op = "set" => q[j].cell # q[1].cell
  BY <1>1 DEF Ordered, O2, Apart, A4, UsesCell, Runs
<1>5. q[1].op = "set" /\ q[1].cell = c => (Runs(q[1], cs) <=> p = 1)
  BY <1>1 DEF Apart, A1, A3, A5, Runs
<1> QED
  BY <1>1, <1>2, <1>3, <1>4, <1>5

\* Running the first session keeps the invariant of the text, and leaves the rest of
\* the queue as it was.
LEMMA RunKeepsText ==
    ASSUME NEW c, NEW q, NEW p, NEW cs, NEW cs2,
           NEW t \in Text, NEW n \in Nat, NEW d \in Text, NEW d2,
           WellTyped(c, q, p, cs), Ordered(c, q, p, cs), Apart(c, q, p, cs),
           Shown(c, q, p, cs, t), InOrder(c, q, cs, t, n, d),
           q # <<>>, RunFirst(q, cs, cs2, d, d2)
    PROVE  /\ Apart(c, Tail(q), IF p = 0 THEN 0 ELSE p - 1, cs2)
           /\ Shown(c, Tail(q), IF p = 0 THEN 0 ELSE p - 1, cs2, t)
           /\ InOrder(c, Tail(q), cs2, t, n, d2)
           /\ \A j \in DOMAIN q : j # 1 => (Runs(q[j], cs2) <=> Runs(q[j], cs))
<1> DEFINE s == q[1]
<1>0. /\ c \in Cells /\ q \in Seq(Session) /\ p \in 0..Len(q) /\ p \in Nat
      /\ cs \in [Cells -> Slot] /\ \A j \in DOMAIN q : q[j] \in Session
  BY DEF WellTyped
<1>1. /\ 1 \in DOMAIN q /\ s \in Session /\ DOMAIN q \subseteq Nat \ {0}
      /\ s.op = "insert" => Runs(s, cs) /\ \A e \in Cells : ~Live(cs, e)
      /\ s.op = "set" => \A e \in Cells : Live(cs, e) => e = s.cell
      /\ s.op = "end" =>
            /\ s.cell # c /\ ~Runs(s, cs)
            /\ \A j \in DOMAIN q : j # 1 /\ q[j].op = "set" => q[j].cell # s.cell
      /\ s.op = "set" /\ s.cell = c => (Runs(s, cs) <=> p = 1)
  BY FirstFacts
<1>2. /\ s.commit \in Text /\ s.preedit \in Text
      /\ s.op # "insert" => s.cell \in Cells /\ cs[s.cell].text \in Text
  BY <1>0, <1>1, CellTexts, SessionTexts DEF Session
<1>3. /\ s.op = "set" /\ Runs(s, cs) => cs2 \in [Cells -> Slot]
      /\ s.op = "end" => cs2 \in [Cells -> Slot]
      /\ cs2 = cs => cs2 \in [Cells -> Slot]
  BY <1>0, <1>2, EditorTypes, SMTT(30) DEF RunFirst, Slot, NoComposition
<1>4. cs2 \in [Cells -> Slot]
  BY <1>3 DEF RunFirst
\* The rest of the queue runs as it would have.
<1>5. ASSUME NEW j \in DOMAIN q, j # 1
      PROVE  Runs(q[j], cs2) <=> Runs(q[j], cs)
  <2>1. CASE q[j].op = "set"
    <3>1. q[j].cell \in Cells
      BY <1>0, <2>1 DEF Session
    <3>2. cs2[q[j].cell].state # "dead" <=> cs[q[j].cell].state # "dead"
      <4>1. CASE s.op = "end"
        BY <1>0, <1>1, <1>2, <2>1, <3>1, <1>5, <4>1 DEF RunFirst
      <4>2. CASE s.op = "set"
        BY <1>0, <1>1, <1>2, <3>1, <4>2 DEF RunFirst, Runs
      <4>3. CASE s.op = "insert"
        BY <4>3 DEF RunFirst
      <4> QED
        BY <1>1, <4>1, <4>2, <4>3 DEF Session
    <3> QED
      BY <2>1, <3>2 DEF Runs
  <2>2. CASE q[j].op # "set"
    BY <2>2 DEF Runs
  <2> QED
    BY <2>1, <2>2
<1>6. A1(c, cs2) /\ A2(cs2)
  <2>1. A1(c, cs) /\ A2(cs)
    BY DEF Apart
  <2>2. A1(c, cs2)
    BY <1>0, <1>1, <1>2, <2>1, SMTT(30) DEF A1, RunFirst, NoComposition
  <2>3. A2(cs2)
    <3>1. NoComposition.text = <<>>
      BY DEF NoComposition
    <3>2. CASE s.op = "end"
      BY <1>0, <1>1, <1>2, <2>1, <3>1, <3>2 DEF A2, RunFirst, Live
    <3>3. CASE s.op = "set"
      BY <1>0, <1>1, <1>2, <2>1, <3>3 DEF A2, RunFirst, Live
    <3>4. CASE s.op = "insert"
      BY <2>1, <3>4 DEF A2, RunFirst, Live
    <3> QED
      BY <1>1, <3>2, <3>3, <3>4 DEF Session
  <2> QED
    BY <2>2, <2>3
<1>7. Apart(c, Tail(q), IF p = 0 THEN 0 ELSE p - 1, cs2)
  <2>1. \A e \in Cells : Live(cs2, e) =>
            \/ Live(cs, e) /\ ~EndsCell(q[1], e)
            \/ q[1].op = "set" /\ q[1].armed /\ e = q[1].cell
    BY <1>0, <1>1, <1>2 DEF RunFirst, Live, EndsCell, NoComposition, Runs
  <2> QED
    BY <1>6, <2>1, RunKeepsApart
<1>8. Shown(c, Tail(q), IF p = 0 THEN 0 ELSE p - 1, cs2, t)
  <2>1. CASE p = 1
    <3>1. s.op = "set" /\ s.cell = c
      BY <1>0, <2>1 DEF Ordered, O1
    <3>2. cs2[c] = [state |-> "live", text |-> s.preedit]
      BY <1>0, <1>1, <2>1, <3>1 DEF RunFirst
    <3>3. s.preedit = t
      BY <2>1 DEF Shown
    <3> QED
      BY <2>1, <3>2, <3>3 DEF Shown, Live
  <2>2. CASE p = 0
    <3>1. cs2[c] = cs[c]
      BY <1>0, <1>1, <1>2, <2>2 DEF RunFirst
    <3> QED
      BY <2>2, <3>1 DEF Shown, Live
  <2>3. CASE p # 0 /\ p # 1
    <3>1. p \in DOMAIN q /\ p - 1 \in DOMAIN Tail(q) /\ Tail(q)[p - 1] = q[p] /\ p - 1 # 0
      BY <1>0, <2>3
    <3> QED
      BY <2>3, <3>1 DEF Shown
  <2> QED
    BY <2>1, <2>2, <2>3
<1>9. InOrder(c, Tail(q), cs2, t, n, d2)
  <2> DEFINE x == IF s.op = "end" THEN cs[s.cell].text
                  ELSE IF Runs(s, cs) THEN s.commit ELSE <<>>
  <2>1. x \in Text /\ d2 = d \o x
    BY <1>1, <1>2, NothingText, TextJoins DEF RunFirst
  <2>2. Fits(x, n) /\ Before(d, x) /\ Before(x, t)
    <3>1. CASE s.op = "end"
      <4>1. CASE Live(cs, s.cell)
        BY <1>1, <1>2, <3>1, <4>1 DEF InOrder, T2
      <4>2. CASE ~Live(cs, s.cell)
        BY <1>2, <3>1, <4>2, NothingText DEF Apart, A2
      <4> QED
        BY <4>1, <4>2
    <3>2. CASE s.op # "end" /\ Runs(s, cs)
      BY <1>1, <3>2 DEF InOrder, T4, Precedes
    <3>3. CASE s.op # "end" /\ ~Runs(s, cs)
      BY <3>3, NothingText
    <3> QED
      BY <3>1, <3>2, <3>3
  <2>3. ASSUME NEW j \in DOMAIN q, j # 1, Runs(q[j], cs2)
        PROVE  Runs(q[j], cs) /\ Precedes(x, q[j])
    <3>1. Runs(q[j], cs) /\ 1 < j
      BY <1>1, <1>5, <2>3
    <3>2. q[j].commit \in Text /\ q[j].preedit \in Text
      BY <1>0, SessionTexts
    <3>3. CASE s.op = "end"
      <4>1. EndBetween(q, 0, j, s.cell)
        BY <1>1, <3>1, <3>3 DEF EndBetween, EndsCell
      <4>2. CASE Live(cs, s.cell)
        BY <1>2, <3>1, <3>3, <4>1, <4>2 DEF InOrder, T3
      <4>3. CASE ~Live(cs, s.cell)
        BY <1>2, <3>1, <3>2, <3>3, <4>3, NothingText DEF Apart, A2, Precedes
      <4> QED
        BY <3>1, <4>2, <4>3
    <3>4. CASE s.op # "end" /\ Runs(s, cs)
      BY <1>1, <3>1, <3>4 DEF InOrder, T5
    <3>5. CASE s.op # "end" /\ ~Runs(s, cs)
      BY <3>1, <3>2, <3>5, NothingText DEF Precedes
    <3> QED
      BY <3>3, <3>4, <3>5
  <2>4. ASSUME NEW e \in Cells, Live(cs2, e)
        PROVE  /\ Before(x, cs2[e].text)
               /\ \/ cs2[e] = cs[e]
                  \/ Runs(q[1], cs) /\ e = q[1].cell /\ cs2[e].text = q[1].preedit
    <3>1. cs2[e].text \in Text
      BY <1>4, CellTexts
    <3>2. CASE s.op = "set" /\ Runs(s, cs)
      <4>1. e = s.cell /\ cs2[e].text = s.preedit
        BY <1>0, <1>1, <1>2, <2>4, <3>2 DEF RunFirst, Live
      <4> QED
        BY <1>1, <3>2, <4>1 DEF InOrder, T4
    <3>3. CASE s.op = "set" /\ ~Runs(s, cs)
      BY <3>1, <3>3, NothingText DEF RunFirst
    <3>4. CASE s.op = "end"
      <4>1. e # s.cell /\ cs2[e] = cs[e] /\ Live(cs, e)
        BY <1>0, <1>2, <2>4, <3>4 DEF RunFirst, Live, NoComposition
      <4>2. ~Live(cs, s.cell)
        BY <1>2, <3>4, <4>1 DEF Ordered, O7, Live
      <4> QED
        BY <1>2, <3>1, <3>4, <4>1, <4>2, NothingText DEF Apart, A2
    <3>5. CASE s.op = "insert"
      BY <1>1, <2>4, <3>5 DEF RunFirst
    <3> QED
      BY <1>1, <3>2, <3>3, <3>4, <3>5 DEF Session
  <2> HIDE DEF x
  <2>5. InOrder(c, Tail(q), cs2, t, n, d \o x)
    BY <1>4, <2>1, <2>2, <2>3, <2>4, RunKeepsOrdered
  <2> QED
    BY <2>1, <2>5
<1> QED
  BY <1>5, <1>7, <1>8, <1>9
-----------------------------------------------------------------------------
(***************************************************************************)
(* The steps.                                                              *)
(***************************************************************************)

\* None of the events after which the text may be out of order happens.  An overflow of
\* the buffer commits while the composition goes on, so that the next key may replace
\* the commit; a new editor forgets what is shown; a failure leaves the editor as if the
\* composition were still there; and a loss of focus ends it and leaves the buffer.
Orderly == Features \subseteq {"terminate", "openclose", "toggle", "keyup"}

\* Between two events no termination is deferred, there is a candidate list exactly
\* while the editor selects, an edit waits for a reason: text to draw, or the list, and
\* every live composition has its reference.
Settled ==
    /\ ~terminated
    /\ orphans = <<>>
    /\ cand = ed.sel
    /\ pending # 0 /\ Preedit(ed) = <<>> => cand

\* The invariant.
TextIs(io, cs, t, n, d) ==
    ApartIo(io, cs) /\ ShownIo(io, cs, t) /\ InOrderIo(io, cs, t, n, d)
TextInv == Settled /\ TextIs(Io, comps, Preedit(ed), typed, doc)

LEMMA NewEditorShowsNothing == Preedit(NewEditor) = <<>> /\ NewEditor.sel = FALSE
<1>1. <<>> \o <<>> = <<>>
  OBVIOUS
<1> QED
  BY <1>1 DEF Preedit, NewEditor

\* What a handler computed is what it leaves.
LEMMA AssignText ==
    ASSUME NEW io, NEW cs, NEW t, NEW n, NEW d, Good(io, cs), Assign(io), comps' = cs,
           Preedit(ed') = t, typed' = n, doc' = d, TextIs(io, cs, t, n, d)
    PROVE  TextIs(Io, comps, Preedit(ed), typed, doc)' /\ pending' = io.pending
<1>1. Io' = io /\ pending' = io.pending
  BY DEF Good, IoRecord, Io, Assign
<1>2. Preedit(ed)' = t
  BY DEF Preedit
<1> QED
  BY <1>1, <1>2 DEF TextIs, ApartIo, ShownIo, InOrderIo

\* The types that the invariant gives.
LEMMA InvTypes ==
    ASSUME IInv
    PROVE  /\ Good(Io, comps) /\ cell \in Cells /\ comps \in [Cells -> Slot]
           /\ Io.cell = cell /\ Io.queue = queue /\ Io.pending = pending
           /\ ed \in Editor /\ Preedit(ed) \in Text /\ typed \in Nat /\ doc \in Text
           /\ sent \in Text /\ cand \in BOOLEAN
           /\ ed.buf \in Text /\ ed.syl \in Text /\ ed.sel \in BOOLEAN
BY EditorTypes DEF IInv, OtherTypes, Good, Io, WellTyped, Editor

\* Without a composition that lost its reference the application ends that of a cell.
LEMMA OnlyEndsIn ==
    ASSUME orphans = <<>>, NEW end \in Endings
    PROVE  \E x \in Cells : EndsIn(end, x)
<1>1. DOMAIN orphans = {}
  OBVIOUS
<1> QED
  BY <1>1, EndingsAre

\* So does the synchronous session of a handler, or the callback.
LEMMA TerminatedIn ==
    ASSUME TextInv, NEW io,
           \E end \in Endings : /\ TerminatedTail(io, end.comps, end.orphans)
                               /\ doc' = doc \o end.text
    PROVE  \E x \in Cells :
              /\ IsLive(x) /\ Live(comps, x)
              /\ TerminatedTail(io, [comps EXCEPT ![x] = [state |-> "dead", text |-> <<>>]], <<>>)
              /\ doc' = doc \o comps[x].text
<1>1. PICK end \in Endings : /\ TerminatedTail(io, end.comps, end.orphans)
                             /\ doc' = doc \o end.text
  OBVIOUS
<1>2. orphans = <<>>
  BY DEF TextInv, Settled
<1>3. PICK x \in Cells : EndsIn(end, x)
  BY <1>2, OnlyEndsIn
<1>4. TerminatedTail(io, [comps EXCEPT ![x] = [state |-> "dead", text |-> <<>>]], <<>>)
  BY <1>1, <1>2, <1>3 DEF EndsIn, Taken
<1> QED
  BY <1>1, <1>3, <1>4 DEF EndsIn, IsLive, Live

\* The tail of the termination of the live composition x leaves the text in order.
LEMMA TailText ==
    ASSUME NEW io, NEW cs, NEW x \in Cells, NEW t \in Text, NEW n \in Nat, NEW d \in Text,
           Good(io, cs), ApartIo(io, cs), InOrderIo(io, cs, t, n, d), Live(cs, x),
           TerminatedTail(io, [cs EXCEPT ![x] = [state |-> "dead", text |-> <<>>]], <<>>),
           ~terminated', typed' = n, doc' = d \o cs[x].text
    PROVE  TextInv'
<1> DEFINE cs1 == [cs EXCEPT ![x] = [state |-> "dead", text |-> <<>>]]
           cs2 == [cs1 EXCEPT ![io.cell] = NoComposition]
           r == ClearPending(io)
<1>1. /\ Assign(r) /\ comps' = cs2 /\ ed' = NewEditor /\ cand' = FALSE
  BY DEF TerminatedTail, Drop
<1>5. orphans' = <<>>
  <2>1. \A e \in Cells : cs1[e].state # "live"
    BY DEF Good, WellTyped, Ordered, O7, Live
  <2>2. io.cell \in Cells /\ Drop(cs1, <<>>, io.cell)
    BY DEF TerminatedTail, Good, WellTyped
  <2> QED
    BY <2>1, <2>2 DEF Drop
<1>2. Good(r, cs2)
  <2>1. Good(io, cs1)
    BY TakenKeepsOrder DEF Live
  <2> QED
    BY <2>1, ClearKeepsOrder
<1>3. /\ r.pending = 0
      /\ ApartIo(r, cs2) /\ InOrderIo(r, cs2, <<>>, n, d \o cs[x].text)
      /\ ShownIo(r, cs2, <<>>)
  BY ClearKeepsText
<1> HIDE DEF r, cs2, cs1
<1>4. /\ TextIs(Io, comps, Preedit(ed), typed, doc)' /\ pending' = r.pending
  BY <1>1, <1>2, <1>3, NewEditorShowsNothing, AssignText DEF TextIs
<1> QED
  BY <1>1, <1>3, <1>4, <1>5, NewEditorShowsNothing DEF TextInv, Settled

\* What the editor answers to a key: it commits and shows characters it had, or
\* the new one, in order; and it shows nothing when it has committed.
Answers(e, commit, m) ==
    /\ m \in Nat /\ typed <= m
    /\ Fits(commit \o Preedit(e), m)
    /\ Grows(Preedit(ed), commit \o Preedit(e), typed)
    /\ commit # <<>> => /\ Preedit(e) = <<>> /\ ~e.sel /\ ~ed.sel
                        /\ IsComposing \/ Preedit(ed) = <<>>

\* A key is one that the editor answers so; text goes to the document directly only when
\* the editor stays as it was.
KeyAnswered ==
    \E e \in Editor, commit \in Text, printable \in BOOLEAN :
        /\ OnKeyDown(e, commit, printable)
        /\ Answers(e, commit, typed')
        /\ commit # <<>> /\ ~IsComposing => e = ed

\* The answer is in order after the document.
LEMMA AnswerText ==
    ASSUME IInv, TextInv, NEW e \in Editor, NEW commit \in Text, NEW m, Answers(e, commit, m)
    PROVE  /\ ApartIo(Io, comps)
           /\ InOrderIo(Io, comps, commit \o Preedit(e), m, doc)
<1>1. /\ WellTyped(cell, queue, pending, comps) /\ Preedit(ed) \in Text
      /\ typed \in Nat /\ doc \in Text /\ Io.cell = cell /\ Io.queue = queue
  BY InvTypes DEF Good
<1>2. ApartIo(Io, comps) /\ InOrder(cell, queue, comps, Preedit(ed), typed, doc)
  BY <1>1 DEF TextInv, TextIs, InOrderIo
<1>3. commit \o Preedit(e) \in Text
  BY EditorTypes, TextJoins
<1>4. InOrder(cell, queue, comps, commit \o Preedit(e), m, doc)
  BY <1>1, <1>2, <1>3, GrowKeepsOrder DEF Answers
<1> QED
  BY <1>1, <1>2, <1>4 DEF InOrderIo

\* In an orderly world update_candidates and update_preedit leave the text in order.
LEMMA UpdateCompositionText ==
    ASSUME Orderly, IInv, TextInv, NEW e \in Editor, NEW commit \in Text,
           Answers(e, commit, typed'), UpdateComposition(e, commit), HasRoom, ~terminated'
    PROVE  TextInv'
<1>1. /\ Good(Io, comps) /\ Room(Io) /\ Io.cell = cell /\ cell \in Cells
      /\ comps \in [Cells -> Slot] /\ doc \in Text /\ Preedit(e) \in Text /\ e.sel \in BOOLEAN
      /\ ed.sel \in BOOLEAN /\ cand \in BOOLEAN
  BY InvTypes, RoomForRequests, EditorTypes
<1> DEFINE shown == e.sel
           composing == comps[cell].state # "none" \/ shown
           io == UpdatePreedit(Io, commit, Preedit(e), composing, shown)
<1>2. \/ Assign(io) /\ ed' = e /\ cand' = shown /\ UNCHANGED <<comps, doc, orphans>>
      \/ \E end \in Endings :
            /\ TerminatedTail(io, end.comps, end.orphans)
            /\ doc' = doc \o end.text
  BY DEF UpdateComposition, ListAfter, Orderly
<1>3. ApartIo(Io, comps) /\ InOrderIo(Io, comps, commit \o Preedit(e), typed', doc)
  BY AnswerText
<1>4. typed' \in Nat
  BY DEF Answers
<1>5. commit # <<>> => composing /\ ~shown /\ Preedit(e) = <<>>
  BY DEF Answers, UpdateComposition, IsComposing, TextInv, Settled
<1>6. (shown => composing) /\ composing \in BOOLEAN /\ shown \in BOOLEAN
  BY <1>1
<1>7. Good(io, comps)
  BY <1>1, UpdatePreeditKeepsOrder
<1>8. /\ ApartIo(io, comps) /\ InOrderIo(io, comps, Preedit(e), typed', doc)
      /\ ShownIo(io, comps, Preedit(e))
      /\ io.pending # 0 /\ Preedit(e) = <<>> => shown
      /\ shown => io.cell = cell
  <2> HIDE DEF composing, shown
  <2> QED
    BY <1>1, <1>3, <1>4, <1>5, <1>6, UpdatePreeditKeepsText
<1> HIDE DEF io
<1>9. CASE Assign(io) /\ ed' = e /\ cand' = shown /\ UNCHANGED <<comps, doc, orphans>>
  <2>1. /\ TextIs(Io, comps, Preedit(ed), typed, doc)' /\ pending' = io.pending
    BY <1>7, <1>8, <1>9, AssignText DEF TextIs
  <2> QED
    BY <1>8, <1>9, <2>1 DEF TextInv, Settled, Preedit
<1>10. CASE \E end \in Endings :
               /\ TerminatedTail(io, end.comps, end.orphans)
               /\ doc' = doc \o end.text
  BY <1>1, <1>4, <1>7, <1>8, <1>10, TerminatedIn, TailText
<1> QED
  BY <1>2, <1>9, <1>10

\* OnKeyDown keeps the invariant whatever the editor answers.
LEMMA KeyText ==
    ASSUME Orderly, IInv, TextInv, NEW e \in Editor, NEW commit \in Text, NEW printable,
           OnKeyDown(e, commit, printable), Answers(e, commit, typed'),
           commit # <<>> /\ ~IsComposing => e = ed
    PROVE  TextInv'
<1>1. ~terminated' /\ HasRoom
  BY DEF OnKeyDown
<1>2. CASE CommitImmediately(e, commit)
  <2>1. /\ Preedit(e) = <<>> /\ ~ed.sel /\ Preedit(ed) = <<>> /\ e = ed
        /\ ~IsComposing /\ ed' = ed /\ UNCHANGED <<cand, comps, doc, orphans>>
        /\ Assign(InsertText(Io, commit))
    BY <1>2 DEF CommitImmediately, Answers
  <2>2. cand = ed.sel /\ pending = 0 /\ comps[cell].state = "none"
    BY <2>1 DEF TextInv, Settled, IsComposing
  <2>3. /\ Good(Io, comps) /\ Io.cell = cell /\ Io.pending = pending /\ doc \in Text
    BY InvTypes
  <2>4. ApartIo(Io, comps) /\ InOrderIo(Io, comps, commit \o Preedit(e), typed', doc)
    BY AnswerText
  <2>5. commit \o Preedit(e) = commit
    BY <2>1, NothingText, TextJoins
  <2> DEFINE r == InsertText(Io, commit)
  <2>6. /\ ApartIo(r, comps) /\ InOrderIo(r, comps, <<>>, typed', doc)
        /\ r.cell = cell /\ r.pending = 0
    BY <2>2, <2>3, <2>4, <2>5, InsertKeepsText DEF Answers
  <2>7. Good(r, comps)
    BY <2>3, InsertKeepsOrder
  <2> HIDE DEF r
  <2>8. ShownIo(r, comps, <<>>)
    BY <2>2, <2>6 DEF ShownIo, Shown, Live
  <2>9. TextIs(Io, comps, Preedit(ed), typed, doc)' /\ pending' = r.pending
    BY <2>1, <2>6, <2>7, <2>8, AssignText DEF TextIs, r
  <2> QED
    BY <1>1, <2>1, <2>2, <2>6, <2>9 DEF TextInv, Settled
<1>3. CASE UpdateComposition(e, commit)
  BY <1>1, <1>3, UpdateCompositionText
<1> QED
  BY <1>2, <1>3 DEF OnKeyDown

\* One new character, after some of those the editor had.
LEMMA OneMore ==
    ASSUME NEW s \in Text, NEW n \in Nat, Fits(s, n)
    PROVE  /\ Fits(s \o <<n + 1>>, n + 1) /\ Grows(s, s \o <<n + 1>>, n)
           /\ Fits(<<n + 1>>, n + 1) /\ Grows(s, <<n + 1>>, n)
<1> DEFINE t == <<n + 1>>
           r == s \o t
<1>1. t \in Text /\ n + 1 \in Nat
  BY DEF Text
<1>2. DOMAIN t = {1} /\ t[1] = n + 1
  OBVIOUS
<1>3. \A i \in DOMAIN s : s[i] \in Nat
  BY DEF Text
<1>4. \A i \in DOMAIN r : (i \in DOMAIN s /\ r[i] = s[i]) \/ r[i] = n + 1
  BY DEF Text
<1> HIDE DEF t, r
<1>5. Fits(t, n + 1) /\ Grows(s, t, n)
  BY <1>2 DEF Fits, UpTo, Increasing, Grows
<1>6. UpTo(s, n + 1) /\ Increasing(s) /\ Before(s, t)
  BY <1>2, <1>3 DEF Fits, UpTo, Before
<1>7. Fits(r, n + 1)
  BY <1>1, <1>5, <1>6, TextJoins DEF Fits, r
<1>8. Grows(s, r, n)
  BY <1>4 DEF Grows
<1> QED
  BY <1>5, <1>7, <1>8 DEF t, r

\* The same characters, or the first of them.
LEMMA SomeOfThem ==
    ASSUME NEW s \in Text, NEW t \in Text, NEW n \in Nat, Fits(s, n),
           DOMAIN t \subseteq DOMAIN s, \A i \in DOMAIN t : t[i] = s[i]
    PROVE  Fits(t, n) /\ Grows(s, t, n)
BY DEF Fits, UpTo, Increasing, Grows

\* A text is where it was when another follows it.
LEMMA StartOfJoin ==
    ASSUME NEW s \in Text, NEW t \in Text
    PROVE  DOMAIN s \subseteq DOMAIN (s \o t) /\ \A i \in DOMAIN s : (s \o t)[i] = s[i]
BY DEF Text

LEMMA TextTypes ==
    ASSUME IInv, TextInv
    PROVE  /\ ed \in Editor /\ ed.buf \in Text /\ ed.syl \in Text /\ ed.sel \in BOOLEAN
           /\ typed \in Nat /\ Fits(Preedit(ed), typed) /\ Preedit(ed) \in Text
           /\ ed.syl = <<>> => Preedit(ed) = ed.buf
BY InvTypes, TextJoins DEF TextInv, TextIs, InOrderIo, InOrder, T1, Preedit

\* What an answer without a commit has to be.
LEMMA Redrawn ==
    ASSUME IInv, TextInv, NEW e \in Editor, NEW m \in Nat, typed <= m,
           Fits(Preedit(e), m), Grows(Preedit(ed), Preedit(e), typed)
    PROVE  Answers(e, <<>>, m)
<1>1. <<>> \o Preedit(e) = Preedit(e)
  BY EditorTypes, TextJoins
<1> QED
  BY <1>1 DEF Answers

\* Each kind of key is answered so.
LEMMA TypeBopomofoAnswered ==
    ASSUME IInv, TextInv, TypeBopomofo
    PROVE  KeyAnswered
<1> DEFINE e == [ed EXCEPT !.syl = <<typed + 1>>]
<1>1. /\ ed \in Editor /\ ed.buf \in Text /\ typed \in Nat /\ Fits(Preedit(ed), typed)
      /\ Preedit(ed) = ed.buf
  BY TextTypes DEF TypeBopomofo
<1>2. e \in Editor /\ Preedit(e) = ed.buf \o <<typed + 1>>
  <2>1. <<typed + 1>> \in Text
    BY <1>1, TextFacts
  <2>2. e \in Editor /\ e.buf = ed.buf /\ e.syl = <<typed + 1>>
    BY <1>1, <2>1 DEF Editor
  <2> QED
    BY <2>2 DEF Preedit
<1>3. OnKeyDown(e, <<>>, TRUE) /\ typed' = typed + 1
  BY DEF TypeBopomofo, NewChar
<1> HIDE DEF e
<1>4. Answers(e, <<>>, typed')
  <2>1. /\ Fits(Preedit(e), typed + 1) /\ Grows(Preedit(ed), Preedit(e), typed)
        /\ typed + 1 \in Nat /\ typed <= typed + 1
    BY <1>1, <1>2, OneMore
  <2> QED
    BY <1>2, <1>3, <2>1, Redrawn
<1> QED
  BY <1>2, <1>3, <1>4, EditorTypes DEF KeyAnswered

LEMMA FinishSyllableAnswered ==
    ASSUME IInv, TextInv, FinishSyllable
    PROVE  KeyAnswered
<1> DEFINE e == [ed EXCEPT !.buf = @ \o ed.syl, !.syl = <<>>]
<1>1. /\ ed \in Editor /\ ed.buf \in Text /\ ed.syl \in Text /\ typed \in Nat
      /\ Fits(Preedit(ed), typed) /\ Preedit(ed) \in Text
  BY TextTypes
<1>2. e \in Editor /\ Preedit(e) = Preedit(ed)
  <2>1. ed.buf \o ed.syl \in Text /\ <<>> \in Text
    BY <1>1, TextFacts, EditorTypes
  <2>2. e \in Editor /\ e.buf = ed.buf \o ed.syl /\ e.syl = <<>>
    BY <1>1, <2>1 DEF Editor
  <2> QED
    BY <1>1, <2>1, <2>2, TextJoins DEF Preedit
<1>3. OnKeyDown(e, <<>>, TRUE) /\ typed' = typed
  BY DEF FinishSyllable
<1> HIDE DEF e
<1>4. Answers(e, <<>>, typed')
  BY <1>1, <1>2, <1>3, SomeOfThem, Redrawn
<1> QED
  BY <1>2, <1>3, <1>4, EditorTypes DEF KeyAnswered

LEMMA TypeSymbolAnswered ==
    ASSUME IInv, TextInv, TypeSymbol
    PROVE  KeyAnswered
<1>1. /\ ed \in Editor /\ ed.buf \in Text /\ typed \in Nat /\ Fits(ed.buf, typed)
      /\ Preedit(ed) = ed.buf /\ typed' = typed + 1
      /\ ~ed.sel
  BY TextTypes DEF TypeSymbol, NewChar, Entering
<1>2. CASE ed.buf = <<>>
  <2>1. OnKeyDown(ed, <<typed + 1>>, TRUE) /\ <<typed + 1>> \in Text
    <3>1. OnKeyDown(ed, <<typed + 1>>, TRUE)
      BY <1>2 DEF TypeSymbol
    <3>2. typed + 1 \in Nat
      BY <1>1
    <3> QED
      BY <3>1, <3>2, TextFacts
  <2>2. <<typed + 1>> \o Preedit(ed) = <<typed + 1>>
    BY <1>1, <1>2, <2>1, TextJoins
  <2>3. Answers(ed, <<typed + 1>>, typed')
    <3>1. /\ Fits(<<typed + 1>>, typed + 1) /\ Grows(ed.buf, <<typed + 1>>, typed)
          /\ typed + 1 \in Nat /\ typed <= typed + 1
      BY <1>1, OneMore
    <3> QED
      BY <1>1, <1>2, <2>2, <3>1 DEF Answers
  <2> QED
    BY <1>1, <2>1, <2>3 DEF KeyAnswered
<1>3. CASE ed.buf # <<>>
  <2> DEFINE e == [ed EXCEPT !.buf = Append(@, typed + 1)]
  <2>1. OnKeyDown(e, <<>>, TRUE)
    BY <1>3 DEF TypeSymbol
  <2>2. e \in Editor /\ Preedit(e) = ed.buf \o <<typed + 1>>
    <3>1. /\ Append(ed.buf, typed + 1) = ed.buf \o <<typed + 1>>
          /\ Append(ed.buf, typed + 1) \in Text
      BY <1>1 DEF Text
    <3>2. e \in Editor /\ e.buf = Append(ed.buf, typed + 1) /\ e.syl = <<>>
      BY <1>1, <3>1 DEF Editor, TypeSymbol
    <3> QED
      BY <3>1, <3>2, TextJoins DEF Preedit
  <2> HIDE DEF e
  <2>3. Answers(e, <<>>, typed')
    <3>1. /\ Fits(Preedit(e), typed + 1) /\ Grows(Preedit(ed), Preedit(e), typed)
          /\ typed + 1 \in Nat /\ typed <= typed + 1
      BY <1>1, <2>2, OneMore
    <3> QED
      BY <1>1, <2>2, <3>1, Redrawn
  <2> QED
    BY <2>1, <2>2, <2>3, EditorTypes DEF KeyAnswered
<1> QED
  BY <1>2, <1>3

LEMMA PressEnterAnswered ==
    ASSUME IInv, TextInv, PressEnter
    PROVE  KeyAnswered
<1>1. /\ ed.buf \in Text /\ typed \in Nat /\ Fits(ed.buf, typed)
      /\ Preedit(ed) = ed.buf /\ typed' = typed /\ ~ed.sel
      /\ OnKeyDown(NewEditor, ed.buf, FALSE)
  BY TextTypes DEF PressEnter, Entering
<1>2. IsComposing
  BY <1>1 DEF OnKeyDown, Wanted
<1>3. ed.buf \o Preedit(NewEditor) = ed.buf
  BY <1>1, NewEditorShowsNothing, TextJoins
<1>4. Grows(ed.buf, ed.buf, typed)
  BY <1>1, SomeOfThem
<1>5. Answers(NewEditor, ed.buf, typed')
  BY <1>1, <1>2, <1>3, <1>4, NewEditorShowsNothing DEF Answers
<1> QED
  BY <1>1, <1>2, <1>5, EditorTypes DEF KeyAnswered

LEMMA PressBackspaceAnswered ==
    ASSUME IInv, TextInv, PressBackspace
    PROVE  KeyAnswered
<1>1. /\ ed \in Editor /\ ed.buf \in Text /\ ed.syl \in Text /\ typed \in Nat
      /\ Fits(Preedit(ed), typed) /\ Preedit(ed) \in Text /\ typed' = typed
  BY TextTypes DEF PressBackspace
<1>2. ASSUME NEW b \in Text, DOMAIN b \subseteq DOMAIN ed.buf, \A i \in DOMAIN b : b[i] = ed.buf[i],
             OnKeyDown([ed EXCEPT !.buf = b, !.syl = <<>>], <<>>, FALSE)
      PROVE  KeyAnswered
  <2> DEFINE e == [ed EXCEPT !.buf = b, !.syl = <<>>]
  <2>1. e \in Editor /\ e.buf = b /\ e.syl = <<>>
    BY <1>1, EditorTypes DEF Editor
  <2>2. Preedit(e) = b
    BY <2>1, TextJoins DEF Preedit
  <2>3. DOMAIN b \subseteq DOMAIN Preedit(ed) /\ \A i \in DOMAIN b : b[i] = Preedit(ed)[i]
    <3>1. \A i \in DOMAIN ed.buf : i \in DOMAIN Preedit(ed) /\ Preedit(ed)[i] = ed.buf[i]
      BY <1>1, StartOfJoin DEF Preedit
    <3> QED
      BY <1>2, <3>1
  <2> HIDE DEF e
  <2>4. Answers(e, <<>>, typed')
    BY <1>1, <2>1, <2>2, <2>3, SomeOfThem, Redrawn
  <2> QED
    BY <1>2, <2>1, <2>4, EditorTypes DEF KeyAnswered, e
<1>3. CASE ed.syl # <<>>
  <2>1. [ed EXCEPT !.syl = <<>>] = [ed EXCEPT !.buf = ed.buf, !.syl = <<>>]
    BY <1>1 DEF Editor
  <2>2. OnKeyDown([ed EXCEPT !.syl = <<>>], <<>>, FALSE)
    BY <1>3 DEF PressBackspace
  <2> QED
    BY <1>1, <1>2, <2>1, <2>2
<1>4. CASE ed.syl = <<>>
  <2> DEFINE b == SubSeq(ed.buf, 1, Len(ed.buf) - 1)
  <2>1. ed.buf # <<>>
    BY <1>1, <1>4 DEF PressBackspace, Preedit, Text
  <2>2. b \in Text /\ DOMAIN b \subseteq DOMAIN ed.buf /\ \A i \in DOMAIN b : b[i] = ed.buf[i]
    <3>1. ed.buf \in Seq(Nat) /\ Len(ed.buf) \in Nat /\ Len(ed.buf) > 0 /\ DOMAIN ed.buf = 1..Len(ed.buf)
      BY <1>1, <2>1 DEF Text
    <3>2. /\ Len(b) = Len(ed.buf) - 1 /\ DOMAIN b = 1..(Len(ed.buf) - 1)
          /\ \A i \in 1..(Len(ed.buf) - 1) : b[i] = ed.buf[i]
      BY <3>1
    <3>3. b \in Text
      BY <1>1, <2>1, TextFacts
    <3> QED
      BY <3>1, <3>2, <3>3
  <2>3. OnKeyDown([ed EXCEPT !.buf = b], <<>>, FALSE)
    BY <1>4 DEF PressBackspace
  <2> HIDE DEF b
  <2>4. [ed EXCEPT !.buf = b] = [ed EXCEPT !.buf = b, !.syl = <<>>]
    BY <1>1, <1>4 DEF Editor
  <2> QED
    BY <1>2, <2>2, <2>3, <2>4
<1> QED
  BY <1>3, <1>4

LEMMA CandidatesAnswered ==
    ASSUME IInv, TextInv, OpenCandidates \/ CloseCandidates
    PROVE  KeyAnswered
<1>1. /\ ed \in Editor /\ typed \in Nat /\ Fits(Preedit(ed), typed) /\ Preedit(ed) \in Text
  BY TextTypes
<1>2. PICK sel \in BOOLEAN : OnKeyDown([ed EXCEPT !.sel = sel], <<>>, TRUE) /\ typed' = typed
  BY DEF OpenCandidates, CloseCandidates
<1> DEFINE e == [ed EXCEPT !.sel = sel]
<1>3. e \in Editor /\ e.buf = ed.buf /\ e.syl = ed.syl
  BY <1>1 DEF Editor
<1> HIDE DEF e
<1>4. Preedit(e) = Preedit(ed)
  BY <1>3 DEF Preedit
<1>5. Answers(e, <<>>, typed')
  BY <1>1, <1>2, <1>3, <1>4, SomeOfThem, Redrawn
<1> QED
  BY <1>2, <1>3, <1>5, EditorTypes DEF KeyAnswered, e

LEMMA KeysAnswered ==
    ASSUME Orderly, IInv, TextInv, Key
    PROVE  KeyAnswered
<1>1. ~FinishSyllableAndOverflow
  BY DEF FinishSyllableAndOverflow, Orderly
<1> QED
  BY <1>1, TypeBopomofoAnswered, FinishSyllableAnswered, TypeSymbolAnswered, PressEnterAnswered,
     PressBackspaceAnswered, CandidatesAnswered DEF Key

LEMMA KeysText ==
    ASSUME Orderly, IInv, TextInv, Key
    PROVE  TextInv'
BY KeysAnswered, KeyText DEF KeyAnswered
-----------------------------------------------------------------------------
\* The other callbacks keep the invariant.
LEMMA ToggleText ==
    ASSUME Orderly, IInv, TextInv, ToggleLangMode
    PROVE  TextInv'
<1> DEFINE e == [ed EXCEPT !.syl = <<>>]
           io == UpdatePreedit(Io, <<>>, Preedit(e), IsComposing, cand)
<1>1. /\ ed \in Editor /\ ed.buf \in Text /\ ed.syl \in Text /\ typed \in Nat
      /\ Fits(Preedit(ed), typed) /\ Preedit(ed) \in Text
      /\ Good(Io, comps) /\ doc \in Text /\ cand \in BOOLEAN
  BY TextTypes, InvTypes
<1>2. /\ Assign(io) /\ ed' = e /\ HasRoom
      /\ UNCHANGED <<cand, comps, terminated, doc, typed, orphans>>
  BY DEF ToggleLangMode, RedrawAfterToggle
<1>3. e \in Editor /\ Preedit(e) = ed.buf /\ e.sel = ed.sel
  BY <1>1, EditorTypes, TextJoins DEF Editor, Preedit
<1> HIDE DEF e
<1>4. Answers(e, <<>>, typed)
  <2>1. /\ DOMAIN ed.buf \subseteq DOMAIN Preedit(ed)
        /\ \A i \in DOMAIN ed.buf : Preedit(ed)[i] = ed.buf[i]
    BY <1>1, StartOfJoin DEF Preedit
  <2>2. Fits(ed.buf, typed) /\ Grows(Preedit(ed), ed.buf, typed)
    BY <1>1, <2>1, SomeOfThem
  <2> QED
    BY <1>1, <1>3, <2>2, Redrawn
<1>5. ApartIo(Io, comps) /\ InOrderIo(Io, comps, <<>> \o Preedit(e), typed, doc)
  BY <1>3, <1>4, AnswerText, EditorTypes
<1>6. Room(Io) /\ (cand => IsComposing) /\ IsComposing \in BOOLEAN
  BY <1>2, RoomForRequests DEF IsComposing
<1>7. Good(io, comps)
  BY <1>1, <1>3, <1>6, UpdatePreeditKeepsOrder, EditorTypes
<1>8. /\ TextIs(io, comps, Preedit(e), typed, doc)
      /\ io.pending # 0 /\ Preedit(e) = <<>> => cand
  <2> DEFINE composing == IsComposing
  <2>0. PICK commit \in Text : commit = <<>>
    BY EditorTypes
  <2>1. /\ (cand => composing) /\ composing \in BOOLEAN
        /\ io = UpdatePreedit(Io, commit, Preedit(e), composing, cand)
    BY <1>6, <2>0
  <2>2. /\ Preedit(e) \in Text
        /\ InOrderIo(Io, comps, commit \o Preedit(e), typed, doc)
    BY <1>3, <1>5, <2>0, EditorTypes
  <2>4. commit # <<>> => composing /\ ~cand /\ Preedit(e) = <<>>
    BY <2>0
  <2> HIDE DEF composing, io
  <2>3. /\ ApartIo(io, comps) /\ InOrderIo(io, comps, Preedit(e), typed, doc)
        /\ ShownIo(io, comps, Preedit(e))
        /\ io.pending # 0 /\ Preedit(e) = <<>> => cand
    BY <1>1, <1>5, <1>6, <2>1, <2>2, <2>4, UpdatePreeditKeepsText
  <2> QED
    BY <2>3 DEF TextIs
<1> HIDE DEF io
<1>9. /\ TextIs(Io, comps, Preedit(ed), typed, doc)' /\ pending' = io.pending
  BY <1>2, <1>7, <1>8, AssignText
<1> QED
  BY <1>2, <1>3, <1>8, <1>9 DEF TextInv, Settled, Preedit

LEMMA TerminatedText ==
    ASSUME Orderly, IInv, TextInv, OnCompositionTerminated
    PROVE  TextInv'
<1>1. \E end \in Endings : /\ TerminatedTail(Io, end.comps, end.orphans)
                          /\ doc' = doc \o end.text
  BY DEF OnCompositionTerminated
<1>2. /\ Good(Io, comps) /\ Preedit(ed) \in Text /\ typed \in Nat /\ doc \in Text
  BY InvTypes
<1>3. ~terminated' /\ typed' = typed
  BY DEF OnCompositionTerminated, TextInv, Settled
<1> QED
  BY <1>1, <1>2, <1>3, TerminatedIn, TailText DEF TextInv, TextIs

LEMMA CompartmentText ==
    ASSUME Orderly, IInv, TextInv, OnCompartmentChange
    PROVE  TextInv'
<1>1. /\ ed \in Editor /\ ed.buf \in Text /\ typed \in Nat
      /\ Preedit(ed) \in Text
      /\ Good(Io, comps) /\ doc \in Text /\ Room(Io)
  BY TextTypes, InvTypes, RoomForRequests DEF OnCompartmentChange
<1>2. UNCHANGED <<cand, comps, terminated, doc, typed, orphans>>
  BY DEF OnCompartmentChange
<1>3. CASE CommitAndEnd
  <2> DEFINE set == SetCompositionString(Io, ed.buf, <<>>)
             io == EndComposition(set)
  <2>1. Assign(io) /\ ed' = NewEditor
    BY <1>3 DEF CommitAndEnd, Orderly
  <2>2. ed.buf \o <<>> = Preedit(ed) /\ ~ed.sel
    BY <1>3 DEF CommitAndEnd, CommitSucceeds, Preedit
  <2>3. ApartIo(Io, comps) /\ InOrderIo(Io, comps, ed.buf \o <<>>, typed, doc)
    BY <2>2 DEF TextInv, TextIs
  <2>4. /\ ApartIo(set, comps) /\ InOrderIo(set, comps, <<>>, typed, doc)
        /\ Good(set, comps) /\ Room(set)
    BY <1>1, <2>3, SetKeepsText, SetKeepsOrder, EditorTypes
  <2> HIDE DEF set
  <2>5. /\ ApartIo(io, comps) /\ InOrderIo(io, comps, <<>>, typed, doc) /\ Good(io, comps)
        /\ comps[io.cell].state = "none" /\ io.pending = 0
    BY <1>1, <2>4, EndKeepsText, EndKeepsOrder
  <2> HIDE DEF io
  <2>6. ShownIo(io, comps, <<>>)
    BY <2>5 DEF ShownIo, Shown, Live
  <2>7. /\ TextIs(Io, comps, Preedit(ed), typed, doc)' /\ pending' = io.pending
    BY <1>2, <2>1, <2>5, <2>6, NewEditorShowsNothing, AssignText DEF TextIs
  <2> QED
    BY <1>1, <1>2, <2>1, <2>2, <2>5, <2>7, NewEditorShowsNothing DEF TextInv, Settled, Editor
<1>4. CASE UNCHANGED <<cell, queue, pending, ed, sent>>
  BY <1>2, <1>4 DEF TextInv, Settled, TextIs, Preedit, Io, ApartIo, ShownIo, InOrderIo
<1> QED
  BY <1>3, <1>4 DEF OnCompartmentChange

\* What DoEditSession does is what RunFirst says.
LEMMA DoesFirst ==
    ASSUME Orderly, orphans = <<>>, IInv, ApartIo(Io, comps), DoEditSession
    PROVE  /\ queue # <<>> /\ RunFirst(queue, comps, comps', doc, doc')
           /\ cell' = cell /\ queue' = Tail(queue) /\ orphans' = <<>>
           /\ pending' = IF pending = 0 THEN 0 ELSE pending - 1
<1>1. /\ WellTyped(cell, queue, pending, comps) /\ Ordered(cell, queue, pending, comps)
      /\ Apart(cell, queue, pending, comps) /\ queue # <<>> /\ queue \in Seq(Session)
  BY InvTypes DEF Good, ApartIo, WellTyped, DoEditSession
<1>2. /\ queue[1].op = "insert" => Runs(queue[1], comps) /\ \A e \in Cells : ~Live(comps, e)
  BY <1>1, FirstFacts
<1>3. Head(queue) = queue[1]
  BY <1>1
<1>4. /\ \/ RunSetCompositionString(queue[1]) \/ RunEndComposition(queue[1])
         \/ RunInsertText(queue[1])
      /\ cell' = cell /\ queue' = Tail(queue)
      /\ pending' = IF pending = 0 THEN 0 ELSE pending - 1
  BY <1>3 DEF DoEditSession
<1>5. CASE RunSetCompositionString(queue[1])
  <2>1. Drawn(comps[queue[1].cell], queue[1].commit, queue[1].preedit)
          = {[slot |-> [state |-> "live", text |-> queue[1].preedit], out |-> queue[1].commit]}
    BY DEF Drawn, Orderly
  <2> QED
    BY <1>1, <1>4, <1>5, <2>1 DEF RunSetCompositionString, RunFirst, Runs
<1>6. CASE RunEndComposition(queue[1])
  BY <1>1, <1>4, <1>6 DEF RunEndComposition, RunFirst, Orderly
<1>7. CASE RunInsertText(queue[1])
  <2>1. DOMAIN orphans = {}
    OBVIOUS
  <2> QED
    BY <1>1, <1>2, <1>4, <1>7, <2>1 DEF RunInsertText, RunFirst, IsLive, Live, Orderly
<1> QED
  BY <1>1, <1>4, <1>5, <1>6, <1>7

LEMMA DoEditSessionText ==
    ASSUME Orderly, IInv, TextInv, DoEditSession
    PROVE  TextInv'
<1>1. /\ queue # <<>> /\ RunFirst(queue, comps, comps', doc, doc')
      /\ cell' = cell /\ queue' = Tail(queue) /\ orphans' = <<>>
      /\ pending' = IF pending = 0 THEN 0 ELSE pending - 1
  BY DoesFirst DEF TextInv, TextIs, Settled
<1>2. /\ WellTyped(cell, queue, pending, comps) /\ Ordered(cell, queue, pending, comps)
      /\ Apart(cell, queue, pending, comps) /\ Preedit(ed) \in Text /\ typed \in Nat
      /\ Shown(cell, queue, pending, comps, Preedit(ed))
      /\ InOrder(cell, queue, comps, Preedit(ed), typed, doc)
      /\ doc \in Text /\ pending \in Nat
  BY InvTypes DEF Good, ApartIo, ShownIo, InOrderIo, WellTyped, TextInv, TextIs
<1>3. UNCHANGED <<ed, cand, terminated, typed>>
  BY DEF DoEditSession
<1>4. /\ Apart(cell, Tail(queue), IF pending = 0 THEN 0 ELSE pending - 1, comps')
      /\ Shown(cell, Tail(queue), IF pending = 0 THEN 0 ELSE pending - 1, comps', Preedit(ed))
      /\ InOrder(cell, Tail(queue), comps', Preedit(ed), typed, doc')
  BY <1>1, <1>2, RunKeepsText
<1>5. TextIs(Io, comps, Preedit(ed), typed, doc)'
  BY <1>1, <1>3, <1>4 DEF TextIs, ApartIo, ShownIo, InOrderIo, Io, Preedit
<1> QED
  BY <1>1, <1>2, <1>3, <1>5 DEF TextInv, Settled, Preedit

LEMMA NextKeepsText ==
    ASSUME Orderly, IInv, TextInv, [Next]_vars
    PROVE  TextInv'
<1>1. CASE Key
  BY <1>1, KeysText
<1>2. CASE ToggleLangMode
  BY <1>2, ToggleText
<1>3. CASE ToggleThenMessageFails \/ TerminationFails \/ OnKillFocus \/ RebuildEditor
  BY <1>3 DEF Orderly, ToggleThenMessageFails, TerminationFails, OnKillFocus, RebuildEditor
<1>4. CASE TailHandler
  BY <1>4 DEF TailHandler, TextInv, Settled
<1>5. CASE OnCompositionTerminated
  BY <1>5, TerminatedText
<1>6. CASE OnCompartmentChange
  BY <1>6, CompartmentText
<1>7. CASE OnKeyUp \/ OnFocus \/ UNCHANGED vars
  BY <1>7 DEF OnKeyUp, OnFocus, vars, TextInv, Settled, TextIs, Preedit, Io,
     ApartIo, ShownIo, InOrderIo
<1>8. CASE DoEditSession
  BY <1>8, DoEditSessionText
<1> QED
  BY <1>1, <1>2, <1>3, <1>4, <1>5, <1>6, <1>7, <1>8 DEF Next

LEMMA InitText ==
    ASSUME Init
    PROVE  TextInv
<1>1. /\ cell \in Cells /\ comps = [c \in Cells |-> NoComposition] /\ queue = <<>>
      /\ pending = 0 /\ doc = <<>> /\ typed = 0
      /\ ed = NewEditor /\ ~terminated /\ cand = FALSE /\ orphans = <<>>
  BY CellsAssumption DEF Init
<1>2. /\ \A c \in Cells : comps[c].state = "none" /\ comps[c].text = <<>>
      /\ DOMAIN queue = {}
  BY <1>1 DEF NoComposition
<1>3. Apart(cell, queue, pending, comps)
  BY <1>1, <1>2 DEF Apart, A1, A2, A3, A4, A5, A6, A7, Live
<1>4. Shown(cell, queue, pending, comps, <<>>)
  BY <1>1, <1>2 DEF Shown, Live
<1>5. T1(<<>>, 0, <<>>)
  BY NothingText DEF T1
<1>6. InOrder(cell, queue, comps, <<>>, typed, doc)
  BY <1>1, <1>2, <1>5 DEF InOrder, T2, T3, T4, T5, T6, Live
<1> QED
  BY <1>1, <1>3, <1>4, <1>6, NewEditorShowsNothing
     DEF TextInv, Settled, TextIs, ApartIo, ShownIo, InOrderIo, Io

\* Through every reuse of a session (set_composition_string), every change of the
\* composition (end_composition) and every end by the application
\* (on_composition_terminated), what the queue, the cells and the document hold agrees
\* with the editor and is in the order of the keys.
THEOREM OrderlyInvariance == Orderly /\ Spec => [](IInv /\ TextInv)
<1> SUFFICES ASSUME Orderly
             PROVE  Spec => [](IInv /\ TextInv)
  OBVIOUS
<1>1. Init => IInv /\ TextInv
  BY InitInvariant, InitText
<1>2. IInv /\ TextInv /\ [Next]_vars => (IInv /\ TextInv)'
  BY NextKeepsInvariant, NextKeepsText
<1> QED
  BY <1>1, <1>2, PTL DEF Spec
-----------------------------------------------------------------------------
(***************************************************************************)
(* What the invariant gives: the editor and the document agree, and the    *)
(* characters are in the order they were typed.                            *)
(***************************************************************************)

\* ShownText is the text of the live composition.
OnScreen(cs) ==
    IF \E c \in Cells : Live(cs, c) THEN cs[CHOOSE c \in Cells : Live(cs, c)].text ELSE <<>>

LEMMA ShownTextIsOnScreen == ShownText = OnScreen(comps)
BY DEF ShownText, OnScreen, IsLive, Live

\* There is only one composition to show.
LEMMA OnScreenIs ==
    ASSUME NEW cs, O7(cs)
    PROVE  /\ \A x \in Cells : Live(cs, x) => OnScreen(cs) = cs[x].text
           /\ (\A x \in Cells : ~Live(cs, x)) => OnScreen(cs) = <<>>
<1>1. ASSUME NEW x \in Cells, Live(cs, x)
      PROVE  OnScreen(cs) = cs[x].text
  <2>1. \E c \in Cells : Live(cs, c)
    BY <1>1
  <2>2. (CHOOSE c \in Cells : Live(cs, c)) = x
    BY <1>1, <2>1 DEF Live, O7
  <2> QED
    BY <2>1, <2>2 DEF OnScreen
<1>2. (\A x \in Cells : ~Live(cs, x)) => OnScreen(cs) = <<>>
  BY DEF OnScreen
<1> QED
  BY <1>1, <1>2

LEMMA AgreementFollows == IInv /\ TextInv => Agreement /\ InTypedOrder
<1> SUFFICES ASSUME IInv, TextInv
             PROVE  Agreement /\ InTypedOrder
  OBVIOUS
<1>1. /\ WellTyped(cell, queue, pending, comps) /\ Ordered(cell, queue, pending, comps)
      /\ Shown(cell, queue, pending, comps, Preedit(ed))
      /\ InOrder(cell, queue, comps, Preedit(ed), typed, doc)
      /\ doc \in Text /\ cell \in Cells /\ comps \in [Cells -> Slot]
  BY InvTypes DEF Good, ShownIo, InOrderIo, TextInv, TextIs
<1>2. /\ \A x \in Cells : Live(comps, x) => ShownText = comps[x].text
      /\ (\A x \in Cells : ~Live(comps, x)) => ShownText = <<>>
  BY <1>1, OnScreenIs, ShownTextIsOnScreen DEF Ordered
<1>3. Agreement
  <2> SUFFICES ASSUME queue = <<>>
               PROVE  ShownText = Preedit(ed)
    BY DEF Agreement
  <2>1. pending = 0 /\ DOMAIN queue = {}
    BY <1>1 DEF WellTyped
  <2>2. \A x \in Cells : Live(comps, x) => x = cell
    BY <1>1, <2>1 DEF Ordered, O5, Live
  <2> QED
    BY <1>1, <1>2, <2>1, <2>2 DEF Shown
<1>4. InTypedOrder
  <2>1. CASE \E x \in Cells : Live(comps, x)
    <3>1. PICK x \in Cells : Live(comps, x)
      BY <2>1
    <3>2. comps[x].text \in Text
      BY <1>1, CellTexts
    <3>3. /\ Increasing(doc) /\ Increasing(comps[x].text) /\ Before(doc, comps[x].text)
      BY <1>1, <3>1 DEF InOrder, T1, T2, Fits
    <3>4. Increasing(doc \o comps[x].text)
      BY <1>1, <3>2, <3>3, TextJoins
    <3> QED
      BY <1>2, <3>1, <3>4 DEF InTypedOrder
  <2>2. CASE \A x \in Cells : ~Live(comps, x)
    <3>1. doc \o <<>> = doc /\ Increasing(doc)
      BY <1>1, NothingText, TextJoins DEF InOrder, T1, Fits
    <3> QED
      BY <1>2, <2>2, <3>1 DEF InTypedOrder
  <2> QED
    BY <2>1, <2>2
<1> QED
  BY <1>3, <1>4

\* Once TSF has run every session, the composition shows what the editor holds and
\* nothing else: update_preedit and on_composition_terminated_tail leave no character
\* of the editor undrawn and draw none it has given up.
THEOREM EditorAgrees == Orderly /\ Spec => []Agreement
<1> SUFFICES ASSUME Orderly
             PROVE  Spec => []Agreement
  OBVIOUS
<1>1. IInv /\ TextInv => Agreement
  BY AgreementFollows
<1>2. Spec => [](IInv /\ TextInv)
  BY OrderlyInvariance
<1> QED
  BY <1>1, <1>2, PTL

\* The document and its composition have the characters in the order of the keys, none
\* twice: the commit of an edit that is replaced, or emptied "to avoid double commits",
\* does not come back behind what followed it.
THEOREM TextInTypedOrder == Orderly /\ Spec => []InTypedOrder
<1> SUFFICES ASSUME Orderly
             PROVE  Spec => []InTypedOrder
  OBVIOUS
<1>1. IInv /\ TextInv => InTypedOrder
  BY AgreementFollows
<1>2. Spec => [](IInv /\ TextInv)
  BY OrderlyInvariance
<1> QED
  BY <1>1, <1>2, PTL
-----------------------------------------------------------------------------
(***************************************************************************)
(* Composition implements TextDelivery.  The text on its way is what the   *)
(* sessions that will run carry, one after the other.                      *)
(***************************************************************************)

\* Where the characters of two texts in a row are.
LEMMA JoinPlaces ==
    ASSUME NEW s \in Text, NEW t \in Text
    PROVE  /\ Len(s) \in Nat /\ Len(t) \in Nat
           /\ DOMAIN s = 1..Len(s) /\ DOMAIN t = 1..Len(t)
           /\ DOMAIN (s \o t) = 1..(Len(s) + Len(t))
           /\ \A i \in DOMAIN s : (s \o t)[i] = s[i]
           /\ \A i \in DOMAIN t : (s \o t)[i + Len(s)] = t[i]
BY DEF Text

\* Leaving characters out of the parts of a text leaves them out of the text.
LEMMA SubsequenceJoins ==
    ASSUME NEW t \in Text, NEW s \in Text, NEW x \in Text, Delivery!Subsequence(t, s)
    PROVE  Delivery!Subsequence(t \o x, s \o x) /\ Delivery!Subsequence(t, s \o x)
<1>1. PICK place \in [DOMAIN t -> DOMAIN s] :
          /\ \A i, j \in DOMAIN t : i < j => place[i] < place[j]
          /\ \A i \in DOMAIN t : t[i] = s[place[i]]
  BY DEF Delivery!Subsequence
<1> DEFINE u == t \o x
           v == s \o x
           move == [i \in DOMAIN u |-> IF i <= Len(t) THEN place[i] ELSE (i - Len(t)) + Len(s)]
<1>2. /\ Len(t) \in Nat /\ Len(s) \in Nat /\ Len(x) \in Nat
      /\ DOMAIN t = 1..Len(t) /\ DOMAIN s = 1..Len(s) /\ DOMAIN x = 1..Len(x)
      /\ DOMAIN u = 1..(Len(t) + Len(x)) /\ DOMAIN v = 1..(Len(s) + Len(x))
      /\ \A i \in DOMAIN t : u[i] = t[i]
      /\ \A i \in DOMAIN s : v[i] = s[i] /\ i \in DOMAIN v
      /\ \A i \in DOMAIN x : u[i + Len(t)] = x[i] /\ v[i + Len(s)] = x[i] /\ i + Len(s) \in DOMAIN v
  <2>1. /\ Len(t) \in Nat /\ Len(x) \in Nat
        /\ DOMAIN t = 1..Len(t) /\ DOMAIN x = 1..Len(x)
        /\ DOMAIN u = 1..(Len(t) + Len(x))
        /\ \A i \in DOMAIN t : u[i] = t[i]
        /\ \A i \in DOMAIN x : u[i + Len(t)] = x[i]
    BY JoinPlaces
  <2>2. /\ Len(s) \in Nat /\ DOMAIN s = 1..Len(s)
        /\ DOMAIN v = 1..(Len(s) + Len(x))
        /\ \A i \in DOMAIN s : v[i] = s[i]
        /\ \A i \in DOMAIN x : v[i + Len(s)] = x[i]
    BY JoinPlaces
  <2> HIDE DEF u, v
  <2> QED
    BY <2>1, <2>2
<1> HIDE DEF u, v
<1>3. ASSUME NEW i \in DOMAIN u
      PROVE  /\ move[i] \in DOMAIN v /\ u[i] = v[move[i]]
             /\ i <= Len(t) => i \in DOMAIN t /\ move[i] = place[i]
             /\ ~(i <= Len(t)) => i - Len(t) \in DOMAIN x /\ move[i] = (i - Len(t)) + Len(s)
  <2>1. CASE i <= Len(t)
    <3>1. i \in DOMAIN t /\ move[i] = place[i]
      BY <1>2, <2>1
    <3> QED
      BY <1>1, <1>2, <2>1, <3>1
  <2>2. CASE ~(i <= Len(t))
    <3>1. i - Len(t) \in DOMAIN x /\ move[i] = (i - Len(t)) + Len(s)
      BY <1>2, <2>2
    <3>2. (i - Len(t)) + Len(t) = i
      BY <1>2
    <3>3. u[i] = x[i - Len(t)] /\ v[move[i]] = x[i - Len(t)] /\ move[i] \in DOMAIN v
      BY <1>2, <3>1, <3>2
    <3> QED
      BY <2>2, <3>1, <3>3
  <2> QED
    BY <2>1, <2>2
<1>4. move \in [DOMAIN u -> DOMAIN v]
  BY <1>3
<1> HIDE DEF move
<1>5. ASSUME NEW i \in DOMAIN u, NEW j \in DOMAIN u, i < j
      PROVE  move[i] < move[j]
  <2>1. CASE j <= Len(t)
    <3>1. i <= Len(t)
      BY <1>2, <1>5, <2>1
    <3> QED
      BY <1>1, <1>3, <1>5, <2>1, <3>1
  <2>2. CASE i <= Len(t) /\ ~(j <= Len(t))
    <3>1. move[i] \in DOMAIN s
      BY <1>1, <1>3, <2>2
    <3>2. j - Len(t) \in DOMAIN x /\ move[j] = (j - Len(t)) + Len(s)
      BY <1>3, <2>2
    <3> QED
      BY <1>2, <3>1, <3>2
  <2>3. CASE ~(i <= Len(t))
    <3>1. ~(j <= Len(t))
      BY <1>2, <1>5, <2>3
    <3> QED
      BY <1>2, <1>3, <1>5, <2>3, <3>1
  <2> QED
    BY <2>1, <2>2, <2>3
<1>6. Delivery!Subsequence(u, v)
  BY <1>3, <1>4, <1>5 DEF Delivery!Subsequence
<1>7. Delivery!Subsequence(t, v)
  <2>1. place \in [DOMAIN t -> DOMAIN v] /\ \A i \in DOMAIN t : t[i] = v[place[i]]
    BY <1>1, <1>2
  <2> QED
    BY <1>1, <2>1 DEF Delivery!Subsequence
<1> QED
  BY <1>6, <1>7 DEF u, v

LEMMA SubsequenceOfSame ==
    ASSUME NEW s \in Text
    PROVE  Delivery!Subsequence(s, s) /\ Delivery!Subsequence(<<>>, s)
<1>1. Delivery!Subsequence(s, s)
  <2> DEFINE place == [i \in DOMAIN s |-> i]
  <2>1. /\ place \in [DOMAIN s -> DOMAIN s]
        /\ \A i, j \in DOMAIN s : i < j => place[i] < place[j]
        /\ \A i \in DOMAIN s : s[i] = s[place[i]]
    OBVIOUS
  <2> QED
    BY <2>1 DEF Delivery!Subsequence
<1>2. Delivery!Subsequence(<<>>, s)
  <2> DEFINE place == [i \in DOMAIN <<>> |-> i]
  <2>1. DOMAIN <<>> = {}
    OBVIOUS
  <2>2. place \in [DOMAIN <<>> -> DOMAIN s]
    BY <2>1
  <2> HIDE DEF place
  <2> QED
    BY <2>1, <2>2, Zenon DEF Delivery!Subsequence
<1> QED
  BY <1>1, <1>2

\* tt is ss with some of its texts emptied.
SomeEmptied(tt, ss) ==
    /\ tt \in Seq(Text) /\ ss \in Seq(Text) /\ Len(tt) = Len(ss)
    /\ \A i \in 1..Len(ss) : tt[i] = ss[i] \/ tt[i] = <<>>

\* Emptying some texts leaves characters out of what they make together.
LEMMA EmptiedIsSubsequence ==
    ASSUME NEW tt, NEW ss, SomeEmptied(tt, ss)
    PROVE  Delivery!Subsequence(FlattenSeq(tt), FlattenSeq(ss))
<1>1. /\ tt \in Seq(Seq(Nat)) /\ ss \in Seq(Seq(Nat)) /\ Len(tt) = Len(ss) /\ Len(ss) \in Nat
  BY DEF SomeEmptied, Text
<1>2. CASE Len(ss) = 0
  <2>1. tt = <<>> /\ ss = <<>>
    BY <1>1, <1>2
  <2> QED
    BY <2>1, FlattenEmpty, SubsequenceOfSame, NothingText
<1>3. CASE Len(ss) # 0
  <2>1. PICK g : Flattens(g, ss, Len(ss)) /\ FlattenSeq(ss) = g[Len(ss)]
    BY <1>1, <1>3, FlattenValue
  <2>2. PICK h : Flattens(h, tt, Len(tt)) /\ FlattenSeq(tt) = h[Len(tt)]
    BY <1>1, <1>3, FlattenValue
  <2>3. \A i \in 1..Len(ss) : g[i] \in Text /\ h[i] \in Text
    BY <1>1, <2>1, <2>2, FlattensType DEF Text
  <2> DEFINE S == {j \in Nat : j \in 1..Len(ss) => Delivery!Subsequence(h[j], g[j])}
  <2>4. 0 \in S
    OBVIOUS
  <2>5. ASSUME NEW j \in Nat, j \in S
        PROVE  j + 1 \in S
    <3>1. ASSUME j + 1 \in 1..Len(ss)
          PROVE  Delivery!Subsequence(h[j + 1], g[j + 1])
      <4>1. /\ (j + 1) - 1 = j
            /\ g[j + 1] = IF j + 1 = 1 THEN ss[j + 1] ELSE g[(j + 1) - 1] \o ss[j + 1]
            /\ h[j + 1] = IF j + 1 = 1 THEN tt[j + 1] ELSE h[(j + 1) - 1] \o tt[j + 1]
        <5>1. j + 1 \in 1..Len(tt) /\ (j + 1) - 1 = j
          BY <1>1, <3>1
        <5>2. g[j + 1] = IF j + 1 = 1 THEN ss[j + 1] ELSE g[(j + 1) - 1] \o ss[j + 1]
          BY <2>1, <3>1 DEF Flattens
        <5>3. h[j + 1] = IF j + 1 = 1 THEN tt[j + 1] ELSE h[(j + 1) - 1] \o tt[j + 1]
          BY <2>2, <5>1 DEF Flattens
        <5> QED
          BY <5>1, <5>2, <5>3
      <4>2. ss[j + 1] \in Text /\ (tt[j + 1] = ss[j + 1] \/ tt[j + 1] = <<>>)
        BY <3>1 DEF SomeEmptied
      <4>3. CASE j = 0
        <5>1. g[j + 1] = ss[j + 1] /\ h[j + 1] = tt[j + 1]
          BY <4>1, <4>3
        <5> QED
          BY <4>2, <5>1, SubsequenceOfSame
      <4>4. CASE j # 0
        <5>1. j \in 1..Len(ss)
          BY <1>1, <3>1, <4>4
        <5>2. Delivery!Subsequence(h[j], g[j]) /\ g[j] \in Text /\ h[j] \in Text
          BY <2>3, <2>5, <5>1
        <5>3. g[j + 1] = g[j] \o ss[j + 1] /\ h[j + 1] = h[j] \o tt[j + 1]
          <6>1. j + 1 # 1 /\ (j + 1) - 1 = j
            BY <4>4
          <6> QED
            BY <4>1, <6>1, Zenon
        <5>4. h[j] \o <<>> = h[j]
          BY <5>2, TextJoins
        <5>5. /\ Delivery!Subsequence(h[j] \o ss[j + 1], g[j] \o ss[j + 1])
              /\ Delivery!Subsequence(h[j], g[j] \o ss[j + 1])
          BY <4>2, <5>2, SubsequenceJoins
        <5>6. h[j + 1] = h[j] \o ss[j + 1] \/ h[j + 1] = h[j]
          BY <4>2, <5>3, <5>4
        <5> QED
          BY <5>3, <5>5, <5>6, Zenon
      <4> QED
        BY <4>3, <4>4
    <3>2. j + 1 \in Nat
      OBVIOUS
    <3> QED
      BY <3>1, <3>2, Zenon DEF S
  <2> HIDE DEF S
  <2>6. Nat \subseteq S
    BY <2>4, <2>5, SetInduction
  <2>7. Delivery!Subsequence(h[Len(ss)], g[Len(ss)])
    <3>1. Len(ss) \in 1..Len(ss) /\ Len(ss) \in S
      BY <1>1, <1>3, <2>6
    <3> QED
      BY <3>1 DEF S
  <2> QED
    BY <1>1, <2>1, <2>2, <2>7
<1> QED
  BY <1>2, <1>3

\* What the session s brings to the document, and all those of q do.
Carried(s, cs) == IF Runs(s, cs) THEN s.commit ELSE <<>>
CarriedBy(q, cs) == [i \in DOMAIN q |-> Carried(q[i], cs)]
Flow(q, cs) == FlattenSeq(CarriedBy(q, cs))

LEMMA FlowType ==
    ASSUME NEW q \in Seq(Session), NEW cs
    PROVE  /\ CarriedBy(q, cs) \in Seq(Seq(Nat)) /\ Len(CarriedBy(q, cs)) = Len(q)
           /\ DOMAIN CarriedBy(q, cs) = DOMAIN q
           /\ Flow(q, cs) \in Text
<1>1. \A i \in DOMAIN q : Carried(q[i], cs) \in Seq(Nat)
  BY SessionTexts, NothingText DEF Carried, Text
<1>2. CarriedBy(q, cs) \in Seq(Seq(Nat)) /\ Len(CarriedBy(q, cs)) = Len(q)
      /\ DOMAIN CarriedBy(q, cs) = DOMAIN q
  BY <1>1 DEF CarriedBy
<1>3. Flow(q, cs) \in Seq(Nat)
  BY <1>2, FlattenType DEF Flow
<1> QED
  BY <1>2, <1>3 DEF Text

\* A session requested last carries its commit last.
LEMMA FlowAppend ==
    ASSUME NEW q \in Seq(Session), NEW cs, NEW s \in Session
    PROVE  Flow(Append(q, s), cs) = Flow(q, cs) \o Carried(s, cs)
<1>1. CarriedBy(Append(q, s), cs) = Append(CarriedBy(q, cs), Carried(s, cs))
  <2> DEFINE r == Append(q, s)
             f == CarriedBy(q, cs)
             x == Carried(s, cs)
             g == CarriedBy(r, cs)
  <2>1. /\ r \in Seq(Session) /\ Len(r) = Len(q) + 1 /\ Len(q) \in Nat
        /\ DOMAIN r = 1..(Len(q) + 1)
        /\ \A i \in 1..Len(q) : r[i] = q[i]
        /\ r[Len(q) + 1] = s
    OBVIOUS
  <2>2. /\ f \in Seq(Seq(Nat)) /\ Len(f) = Len(q)
        /\ \A i \in 1..Len(q) : f[i] = Carried(q[i], cs)
    BY FlowType DEF CarriedBy
  <2>3. /\ g \in Seq(Seq(Nat)) /\ Len(g) = Len(q) + 1
        /\ \A i \in 1..(Len(q) + 1) : g[i] = Carried(r[i], cs)
    BY <2>1, FlowType DEF CarriedBy
  <2>4. x \in Seq(Nat)
    BY SessionTexts, NothingText DEF Carried, Text
  <2>5. \A i \in 1..Len(q) : g[i] = f[i]
    BY <2>1, <2>2, <2>3
  <2>6. g[Len(q) + 1] = x
    BY <2>1, <2>3
  <2> HIDE DEF r, f, x, g
  <2>7. /\ Append(f, x) \in Seq(Seq(Nat)) /\ Len(Append(f, x)) = Len(q) + 1
        /\ \A i \in 1..(Len(q) + 1) : Append(f, x)[i] = g[i]
    BY <2>1, <2>2, <2>4, <2>5, <2>6
  <2>8. g = Append(f, x)
    BY <2>3, <2>7, SeqEqual
  <2> QED
    BY <2>8 DEF r, f, x, g
<1>2. Carried(s, cs) \in Seq(Nat)
  BY SessionTexts, NothingText DEF Carried, Text
<1>3. CarriedBy(q, cs) \in Seq(Seq(Nat))
  BY FlowType
<1> QED
  BY <1>1, <1>2, <1>3, FlattenAppend DEF Flow

\* The edit that waited carried nothing, and nothing behind it does.
LEMMA FlowReplace ==
    ASSUME NEW q \in Seq(Session), NEW cs, NEW p \in DOMAIN q, NEW s \in Session,
           q[p].commit = <<>>, \A i \in DOMAIN q : p < i => ~Runs(q[i], cs)
    PROVE  Flow([q EXCEPT ![p] = s], cs) = Flow(q, cs) \o Carried(s, cs)
<1> DEFINE f == CarriedBy(q, cs)
           x == Carried(s, cs)
           r == [q EXCEPT ![p] = s]
<1>1. /\ f \in Seq(Seq(Nat)) /\ Len(f) = Len(q) /\ DOMAIN f = DOMAIN q
      /\ \A i \in DOMAIN q : f[i] = Carried(q[i], cs)
  BY FlowType DEF CarriedBy
<1>2. x \in Seq(Nat)
  BY SessionTexts, NothingText DEF Carried, Text
<1>3. f[p] = <<>> /\ \A i \in 1..Len(f) : i > p => f[i] = <<>>
  <2>1. DOMAIN f = 1..Len(f) /\ p \in DOMAIN q
    BY <1>1
  <2>2. ASSUME NEW i \in DOMAIN q, ~Runs(q[i], cs) \/ q[i].commit = <<>>
        PROVE  f[i] = <<>>
    <3>1. Carried(q[i], cs) = <<>>
      BY <2>2, Zenon DEF Carried
    <3> QED
      BY <1>1, <3>1, Zenon
  <2> HIDE DEF f
  <2> QED
    BY <1>1, <2>1, <2>2
<1>4. DOMAIN r = DOMAIN q /\ r[p] = s /\ \A i \in DOMAIN q : i # p => r[i] = q[i]
  OBVIOUS
<1>5. p \in 1..Len(f)
  BY <1>1
<1> HIDE DEF f, x, r
<1>6. CarriedBy(r, cs) = [f EXCEPT ![p] = x]
  <2>1. \A i \in DOMAIN q : Carried(r[i], cs) = IF i = p THEN x ELSE f[i]
    BY <1>1, <1>4 DEF x
  <2>2. CarriedBy(r, cs) = [i \in DOMAIN q |-> Carried(r[i], cs)]
    BY <1>4 DEF CarriedBy
  <2>3. [f EXCEPT ![p] = x] = [i \in DOMAIN q |-> IF i = p THEN x ELSE f[i]]
    BY <1>1
  <2>4. [i \in DOMAIN q |-> Carried(r[i], cs)] = [i \in DOMAIN q |-> IF i = p THEN x ELSE f[i]]
    BY <2>1, Zenon
  <2> QED
    BY <2>2, <2>3, <2>4
<1>7. PICK before \in Seq(Nat) : /\ FlattenSeq(f) = before \o f[p]
                                 /\ FlattenSeq([f EXCEPT ![p] = x]) = before \o x
  <2>1. f \in Seq(Seq(Nat))
    BY <1>1
  <2>2. NothingBehind(f, p)
    BY <1>3 DEF NothingBehind
  <2>3. DiffersAtTheEnd(Nat, FlattenSeq(f), FlattenSeq([f EXCEPT ![p] = x]), f[p], x)
    BY <1>2, <1>5, <2>1, <2>2, FlattenLast
  <2> QED
    BY <2>3 DEF DiffersAtTheEnd
<1>8. before \o <<>> = before
  BY <1>7, TextJoins DEF Text
<1> QED
  BY <1>3, <1>6, <1>7, <1>8 DEF Flow, f, x, r

\* The first session carries its commit first.
LEMMA FlowTail ==
    ASSUME NEW q \in Seq(Session), NEW cs, q # <<>>
    PROVE  Flow(q, cs) = Carried(q[1], cs) \o Flow(Tail(q), cs)
<1> DEFINE f == CarriedBy(q, cs)
           r == Tail(q)
<1>1. /\ f \in Seq(Seq(Nat)) /\ Len(f) = Len(q) /\ DOMAIN f = DOMAIN q
      /\ \A i \in DOMAIN q : f[i] = Carried(q[i], cs)
  BY FlowType DEF CarriedBy
<1>2. 1 \in DOMAIN q /\ Len(q) \in Nat /\ Len(q) > 0
  OBVIOUS
<1>3. /\ DOMAIN r = 1..(Len(q) - 1) /\ \A i \in 1..(Len(q) - 1) : r[i] = q[i + 1] /\ i + 1 \in DOMAIN q
  BY <1>2
<1> HIDE DEF f, r
<1>4. f # <<>>
  BY <1>1, <1>2
<1>5. CarriedBy(r, cs) = Tail(f)
  <2> DEFINE g == CarriedBy(r, cs)
  <2>1. r \in Seq(Session) /\ Len(r) = Len(q) - 1
    BY <1>2 DEF r
  <2>2. /\ g \in Seq(Seq(Nat)) /\ Len(g) = Len(q) - 1
        /\ \A i \in 1..(Len(q) - 1) : g[i] = Carried(r[i], cs)
    BY <1>3, <2>1, FlowType DEF CarriedBy
  <2> HIDE DEF g
  <2>3. \A i \in 1..(Len(q) - 1) : g[i] = f[i + 1]
    BY <1>1, <1>3, <2>2
  <2>4. /\ Tail(f) \in Seq(Seq(Nat)) /\ Len(Tail(f)) = Len(q) - 1
        /\ \A i \in 1..(Len(q) - 1) : Tail(f)[i] = g[i]
    BY <1>1, <1>2, <1>4, <2>3
  <2>5. g = Tail(f)
    BY <2>2, <2>4, SeqEqual
  <2> QED
    BY <2>5 DEF g
<1>6. FlattenSeq(f) = f[1] \o FlattenSeq(Tail(f))
  BY <1>1, <1>4, FlattenHeadTail
<1> QED
  BY <1>1, <1>2, <1>5, <1>6 DEF Flow, f, r

\* Only which sessions will run matters.
LEMMA FlowSame ==
    ASSUME NEW q, NEW cs, NEW cs2, \A i \in DOMAIN q : Runs(q[i], cs2) <=> Runs(q[i], cs)
    PROVE  Flow(q, cs2) = Flow(q, cs)
<1>1. \A i \in DOMAIN q : Carried(q[i], cs2) = Carried(q[i], cs)
  BY Zenon DEF Carried
<1>2. CarriedBy(q, cs2) = CarriedBy(q, cs)
  BY <1>1 DEF CarriedBy
<1> QED
  BY <1>2 DEF Flow
-----------------------------------------------------------------------------
(***************************************************************************)
(* The steps of TextDelivery, from what a step of Composition does to the  *)
(* text on its way, the cells and the document.                            *)
(***************************************************************************)

\* The two halves of a text.
LEMMA JoinSplits ==
    ASSUME NEW s \in Text, NEW t \in Text
    PROVE  /\ Len(s) \in 0..Len(s \o t) /\ Len(s \o t) = Len(s) + Len(t)
           /\ Len(s) \in Nat /\ Len(t) \in Nat
           /\ SubSeq(s \o t, 1, Len(s)) = s
           /\ SubSeq(s \o t, Len(s) + 1, Len(s \o t)) = t
           /\ t # <<>> => Len(s \o t) > Len(s)
<1> DEFINE r == s \o t
           u == SubSeq(r, 1, Len(s))
           v == SubSeq(r, Len(s) + 1, Len(r))
<1>1. /\ r \in Seq(Nat) /\ Len(r) = Len(s) + Len(t) /\ Len(s) \in Nat /\ Len(t) \in Nat
      /\ \A i \in 1..Len(s) : r[i] = s[i]
      /\ \A i \in 1..Len(t) : r[Len(s) + i] = t[i]
      /\ s \in Seq(Nat) /\ t \in Seq(Nat)
  BY DEF Text
<1> HIDE DEF r
<1>2. u = s
  <2>1. u \in Seq(Nat) /\ Len(u) = Len(s) /\ \A i \in 1..Len(s) : u[i] = s[i]
    BY <1>1
  <2> QED
    BY <1>1, <2>1, SeqEqual
<1>3. v = t
  <2>1. v \in Seq(Nat) /\ Len(v) = Len(t) /\ \A i \in 1..Len(t) : v[i] = r[Len(s) + i]
    BY <1>1, SMTT(30)
  <2> QED
    BY <1>1, <2>1, SeqEqual
<1>4. t # <<>> => Len(t) > 0
  BY <1>1
<1> QED
  BY <1>1, <1>2, <1>3, <1>4 DEF r

SomeLive(cs) == \E c \in Cells : Live(cs, c)

\* What the variables of TextDelivery are here.
LEMMA DeliveryIs ==
    /\ Inflight = Flow(queue, comps) /\ Inflight' = Flow(queue', comps')
    /\ ShownText = OnScreen(comps) /\ ShownText' = OnScreen(comps')
    /\ (\E c \in Cells : IsLive(c)) <=> SomeLive(comps)
    /\ (\E c \in Cells : IsLive(c))' <=> SomeLive(comps')
<1>1. Inflight = Flow(queue, comps) /\ Inflight' = Flow(queue', comps')
  BY DEF Inflight, Commits, Flow, CarriedBy, Carried, Runs
<1>2. ShownText = OnScreen(comps) /\ ShownText' = OnScreen(comps')
  BY DEF ShownText, OnScreen, IsLive, Live
<1> QED
  BY <1>1, <1>2 DEF SomeLive, IsLive, Live

LEMMA CommitStep ==
    ASSUME NEW commit \in Text, sent \in Text, Flow(queue, comps) \in Text,
           sent' = sent \o commit, Flow(queue', comps') = Flow(queue, comps) \o commit,
           UNCHANGED <<doc, comps>>
    PROVE  [Delivery!Next]_(Delivery!vars)
<1>1. CASE commit = <<>>
  <2>1. sent' = sent /\ Inflight' = Inflight
    BY <1>1, TextJoins, DeliveryIs
  <2>2. UNCHANGED ShownText /\ UNCHANGED (\E c \in Cells : IsLive(c))
    BY DEF ShownText, IsLive
  <2> QED
    BY <2>1, <2>2 DEF Delivery!vars
<1>2. CASE commit # <<>>
  <2>1. /\ Len(sent') > Len(sent)
        /\ SubSeq(sent', 1, Len(sent)) = sent
        /\ SubSeq(sent', Len(sent) + 1, Len(sent')) = commit
    BY <1>2, JoinSplits
  <2>2. Inflight' = Inflight \o commit
    BY DeliveryIs
  <2>3. UNCHANGED ShownText /\ UNCHANGED (\E c \in Cells : IsLive(c))
    BY DEF ShownText, IsLive
  <2>4. Delivery!Commit
    BY <2>1, <2>2, <2>3 DEF Delivery!Commit
  <2> QED
    BY <2>4 DEF Delivery!Next
<1> QED
  BY <1>1, <1>2

LEMMA DeliverStep ==
    ASSUME NEW commit \in Text, NEW rest \in Text,
           Flow(queue, comps) = commit \o rest, Flow(queue', comps') = rest,
           doc' = doc \o commit, sent' = sent, OnScreen(comps') \in Text
    PROVE  [Delivery!Next]_(Delivery!vars)
<1>1. /\ Len(commit) \in 0..Len(Inflight)
      /\ SubSeq(Inflight, 1, Len(commit)) = commit
      /\ SubSeq(Inflight, Len(commit) + 1, Len(Inflight)) = Inflight'
  BY JoinSplits, DeliveryIs
<1>2. (\E c \in Cells : IsLive(c))' \in BOOLEAN /\ ShownText' \in Delivery!Text
  BY DeliveryIs DEF Text, Delivery!Text
<1>3. Delivery!Deliver
  BY <1>1, <1>2 DEF Delivery!Deliver
<1> QED
  BY <1>3 DEF Delivery!Next

LEMMA SettleStep ==
    ASSUME SomeLive(comps), ~SomeLive(comps'), OnScreen(comps') = <<>>,
           doc' = doc \o OnScreen(comps), sent' = sent,
           Flow(queue', comps') = Flow(queue, comps)
    PROVE  [Delivery!Next]_(Delivery!vars)
<1>1. Delivery!Settle
  BY DeliveryIs DEF Delivery!Settle
<1> QED
  BY <1>1 DEF Delivery!Next

LEMMA InterruptStep ==
    ASSUME SomeLive(comps), ~SomeLive(comps'), OnScreen(comps') = <<>>,
           doc' = doc \o OnScreen(comps), sent' = sent,
           Delivery!Subsequence(Flow(queue', comps'), Flow(queue, comps))
    PROVE  [Delivery!Next]_(Delivery!vars)
<1>1. Delivery!Interrupt
  BY DeliveryIs DEF Delivery!Interrupt
<1> QED
  BY <1>1 DEF Delivery!Next

LEMMA NoStep ==
    ASSUME SomeLive(comps') <=> SomeLive(comps), OnScreen(comps') = OnScreen(comps),
           doc' = doc, sent' = sent, Flow(queue', comps') = Flow(queue, comps)
    PROVE  [Delivery!Next]_(Delivery!vars)
<1>1. UNCHANGED (\E c \in Cells : IsLive(c))
  BY DeliveryIs, Zenon
<1> QED
  BY <1>1, DeliveryIs DEF Delivery!vars

\* In the queue q2 there is text on its way that is not in q.
Adds(q, q2, cs, text) == Flow(q2, cs) = Flow(q, cs) \o text

\* The edit that waits carries no commit.
WaitsEmpty(io) == io.pending # 0 => io.queue[io.pending].commit = <<>>

\* What a request adds to the text on its way.
LEMMA SetFlows ==
    ASSUME NEW io, NEW cs, NEW commit \in Text, NEW preedit \in Text,
           Good(io, cs), ApartIo(io, cs), WaitsEmpty(io)
    PROVE  LET r == SetCompositionString(io, commit, preedit)
           IN  Adds(io.queue, r.queue, cs, commit)
<1> DEFINE r == SetCompositionString(io, commit, preedit)
           s == SetSession(io.cell, commit, preedit)
<1>1. /\ io \in IoRecord /\ io.queue \in Seq(Session) /\ io.pending \in 0..Len(io.queue)
      /\ io.cell \in Cells /\ WellTyped(io.cell, io.queue, io.pending, cs)
      /\ Ordered(io.cell, io.queue, io.pending, cs)
      /\ Apart(io.cell, io.queue, io.pending, cs)
  BY DEF Good, WellTyped, ApartIo
<1>2. s \in Session
  BY <1>1, SetSessionType
<1>3. Carried(s, cs) = commit
  BY <1>1 DEF Carried, Runs, SetSession, Apart, A1
<1>4. CASE io.pending = 0
  <2>1. r.queue = Append(io.queue, s)
    BY <1>1, <1>4 DEF SetCompositionString, IoRecord
  <2> HIDE DEF s, r
  <2> QED
    BY <1>1, <1>2, <1>3, <2>1, FlowAppend DEF r, Adds
<1>5. CASE io.pending # 0
  <2>1. io.pending \in DOMAIN io.queue /\ io.queue[io.pending].cell = io.cell
    BY <1>1, <1>5 DEF Ordered, O1
  <2>2. r.queue = [io.queue EXCEPT ![io.pending] = s]
    BY <1>1, <1>5, <2>1 DEF SetCompositionString, IoRecord
  <2>3. io.queue[io.pending].commit = <<>>
    BY <1>5 DEF WaitsEmpty
  <2>4. \A i \in DOMAIN io.queue : io.pending < i => ~Runs(io.queue[i], cs)
    BY <1>1, <1>5, PendingIsLast
  <2> HIDE DEF s, r
  <2>5. Flow([io.queue EXCEPT ![io.pending] = s], cs) = Flow(io.queue, cs) \o Carried(s, cs)
    BY <1>1, <1>2, <2>1, <2>3, <2>4, FlowReplace
  <2> QED
    BY <1>3, <2>2, <2>5 DEF r, Adds
<1> HIDE DEF r
<1> QED
  BY <1>4, <1>5 DEF r

LEMMA EndFlows ==
    ASSUME NEW io, NEW cs, Good(io, cs)
    PROVE  Flow(EndComposition(io).queue, cs) = Flow(io.queue, cs)
<1> DEFINE s == EndSession(io.cell)
<1>1. io.queue \in Seq(Session) /\ io.cell \in Cells
  BY DEF Good, WellTyped
<1>2. s \in Session /\ ~s.armed
  BY <1>1, EditorTypes DEF EndSession, Session
<1>3. EndComposition(io).queue = Append(io.queue, s)
  BY DEF EndComposition
<1> HIDE DEF s
<1>4. PICK nothing \in Text : nothing = <<>> /\ Carried(s, cs) = nothing
  BY <1>2, EditorTypes DEF Carried, Runs
<1>5. Flow(Append(io.queue, s), cs) = Flow(io.queue, cs) \o nothing
  BY <1>1, <1>2, <1>4, FlowAppend
<1>6. Flow(io.queue, cs) \o <<>> = Flow(io.queue, cs)
  BY <1>1, FlowType, TextJoins
<1> QED
  BY <1>3, <1>4, <1>5, <1>6 DEF Adds

LEMMA InsertFlows ==
    ASSUME NEW io, NEW cs, NEW text \in Text, Good(io, cs)
    PROVE  Flow(InsertText(io, text).queue, cs) = Flow(io.queue, cs) \o text
<1> DEFINE s == InsertSession(text)
<1>1. io \in IoRecord /\ io.queue \in Seq(Session)
  BY DEF Good, WellTyped
<1>2. s \in Session /\ Carried(s, cs) = text
  BY EditorTypes DEF InsertSession, Session, Carried, Runs
<1>3. InsertText(io, text).queue = Append(io.queue, s)
  BY <1>1 DEF InsertText, IoRecord
<1> HIDE DEF s
<1> QED
  BY <1>1, <1>2, <1>3, FlowAppend

LEMMA UpdatePreeditFlows ==
    ASSUME NEW io, NEW cs, NEW commit \in Text, NEW preedit \in Text,
           NEW composing \in BOOLEAN, NEW candidates \in BOOLEAN,
           Good(io, cs), Room(io), ApartIo(io, cs), WaitsEmpty(io),
           candidates => composing, commit # <<>> => composing
    PROVE  LET r == UpdatePreedit(io, commit, preedit, composing, candidates)
           IN  Adds(io.queue, r.queue, cs, commit)
<1> DEFINE set == SetCompositionString(io, commit, preedit)
           r == UpdatePreedit(io, commit, preedit, composing, candidates)
<1>1. Adds(io.queue, set.queue, cs, commit)
  BY SetFlows
<1>2. Good(set, cs) /\ Room(set)
  BY SetKeepsOrder
<1> HIDE DEF set, r
<1>3. CASE r = set
  BY <1>1, <1>3 DEF r
<1>4. CASE r = EndComposition(set)
  BY <1>1, <1>2, <1>4, EndFlows DEF Adds, r
<1>5. CASE r = EndComposition(io) /\ ~composing
  <2>1. Flow(r.queue, cs) = Flow(io.queue, cs) /\ commit = <<>>
    BY <1>5, EndFlows
  <2>2. Flow(io.queue, cs) \o <<>> = Flow(io.queue, cs)
    BY FlowType, TextJoins DEF Good, WellTyped
  <2> QED
    BY <2>1, <2>2 DEF Adds, r
<1>6. r = set \/ r = EndComposition(set) \/ (r = EndComposition(io) /\ ~composing)
  BY DEF UpdatePreedit, set, r
<1> QED
  BY <1>3, <1>4, <1>5, <1>6

\* The application ends the live composition x.
LEMMA ClearFlows ==
    ASSUME NEW io, NEW cs, NEW x \in Cells, NEW t \in Text, NEW n \in Nat, NEW d \in Text,
           Good(io, cs), ApartIo(io, cs), InOrderIo(io, cs, t, n, d), Live(cs, x)
    PROVE  LET r == ClearPending(io)
               cs2 == [[cs EXCEPT ![x] = [state |-> "dead", text |-> <<>>]]
                          EXCEPT ![io.cell] = NoComposition]
           IN  /\ Delivery!Subsequence(Flow(r.queue, cs2), Flow(io.queue, cs))
               /\ ~SomeLive(cs2) /\ OnScreen(cs2) = <<>>
<1> DEFINE r == ClearPending(io)
           cs2 == [[cs EXCEPT ![x] = [state |-> "dead", text |-> <<>>]]
                      EXCEPT ![io.cell] = NoComposition]
<1>1. /\ DOMAIN r.queue = DOMAIN io.queue
      /\ \A i \in DOMAIN r.queue : Runs(r.queue[i], cs2) =>
            r.queue[i] = io.queue[i] /\ Runs(io.queue[i], cs)
      /\ \A e \in Cells : ~Live(cs2, e)
  BY ClearKeepsText
<1>2. io.queue \in Seq(Session)
  BY DEF Good, WellTyped
<1>3. r.queue \in Seq(Session)
  <2>1. Good(r, [cs EXCEPT ![io.cell] = NoComposition])
    BY ClearKeepsOrder
  <2> QED
    BY <2>1 DEF Good, WellTyped
<1> HIDE DEF r, cs2
<1>4. \A i \in DOMAIN io.queue :
         Carried(r.queue[i], cs2) = Carried(io.queue[i], cs) \/ Carried(r.queue[i], cs2) = <<>>
  BY <1>1 DEF Carried
<1>5. SomeEmptied(CarriedBy(r.queue, cs2), CarriedBy(io.queue, cs))
  <2> DEFINE f == CarriedBy(io.queue, cs)
             g == CarriedBy(r.queue, cs2)
  <2>1. f \in Seq(Text) /\ g \in Seq(Text) /\ Len(f) = Len(io.queue) /\ Len(g) = Len(r.queue)
    BY <1>2, <1>3, FlowType DEF Text
  <2>2. Len(r.queue) = Len(io.queue) /\ DOMAIN io.queue = 1..Len(io.queue)
    BY <1>1, <1>2, <1>3
  <2>3. \A i \in 1..Len(io.queue) : g[i] = f[i] \/ g[i] = <<>>
    BY <1>1, <1>4, <2>2 DEF CarriedBy
  <2> HIDE DEF f, g
  <2>4. SomeEmptied(g, f)
    BY <2>1, <2>2, <2>3 DEF SomeEmptied
  <2> QED
    BY <2>4 DEF f, g
<1>6. Delivery!Subsequence(Flow(r.queue, cs2), Flow(io.queue, cs))
  BY <1>5, EmptiedIsSubsequence DEF Flow
<1>7. ~SomeLive(cs2) /\ OnScreen(cs2) = <<>>
  BY <1>1 DEF SomeLive, OnScreen
<1> QED
  BY <1>6, <1>7 DEF r, cs2
-----------------------------------------------------------------------------
(***************************************************************************)
(* Each step of Composition is one of TextDelivery, or changes nothing.    *)
(***************************************************************************)

\* What the invariant gives about them.
LEMMA FlowTypes ==
    ASSUME IInv, TextInv
    PROVE  /\ Good(Io, comps) /\ ApartIo(Io, comps) /\ WaitsEmpty(Io)
           /\ InOrderIo(Io, comps, Preedit(ed), typed, doc)
           /\ Flow(queue, comps) \in Text /\ Io.queue = queue /\ sent \in Text
           /\ WellTyped(cell, queue, pending, comps) /\ Ordered(cell, queue, pending, comps)
           /\ Apart(cell, queue, pending, comps)
<1>1. Good(Io, comps) /\ Io.queue = queue /\ sent \in Text /\ Io.cell = cell /\ Io.pending = pending
  BY InvTypes
<1>2. /\ ApartIo(Io, comps) /\ WaitsEmpty(Io)
      /\ InOrderIo(Io, comps, Preedit(ed), typed, doc)
  BY DEF TextInv, TextIs, ShownIo, Shown, WaitsEmpty
<1>3. /\ WellTyped(cell, queue, pending, comps) /\ Ordered(cell, queue, pending, comps)
      /\ Apart(cell, queue, pending, comps)
  BY <1>1, <1>2 DEF Good, ApartIo
<1>4. Flow(queue, comps) \in Text
  BY <1>3, FlowType DEF WellTyped
<1> QED
  BY <1>1, <1>2, <1>3, <1>4

\* The tail of a termination delivers what is shown and gives up some of the rest.
LEMMA TailDelivers ==
    ASSUME NEW io, NEW x \in Cells, NEW t \in Text, NEW n \in Nat, NEW d \in Text,
           Good(io, comps), ApartIo(io, comps), InOrderIo(io, comps, t, n, d),
           Live(comps, x),
           TerminatedTail(io, [comps EXCEPT ![x] = [state |-> "dead", text |-> <<>>]], <<>>),
           doc' = doc \o comps[x].text, sent' = sent,
           Flow(io.queue, comps) = Flow(queue, comps)
    PROVE  [Delivery!Next]_(Delivery!vars)
<1> DEFINE r == ClearPending(io)
           cs2 == [[comps EXCEPT ![x] = [state |-> "dead", text |-> <<>>]]
                      EXCEPT ![io.cell] = NoComposition]
<1>2. queue' = r.queue /\ comps' = cs2
  BY DEF TerminatedTail, Drop, Assign
<1>3. /\ Delivery!Subsequence(Flow(r.queue, cs2), Flow(io.queue, comps))
      /\ ~SomeLive(cs2) /\ OnScreen(cs2) = <<>>
  BY ClearFlows
<1> HIDE DEF r, cs2
<1>4. OnScreen(comps) = comps[x].text /\ SomeLive(comps)
  BY OnScreenIs DEF Good, Ordered, SomeLive
<1> QED
  BY <1>2, <1>3, <1>4, InterruptStep

LEMMA UpdateCompositionDelivers ==
    ASSUME Orderly, IInv, TextInv, NEW e \in Editor, NEW commit \in Text,
           Answers(e, commit, typed'), UpdateComposition(e, commit), HasRoom,
           sent' = sent \o commit
    PROVE  [Delivery!Next]_(Delivery!vars)
<1>1. /\ Good(Io, comps) /\ Room(Io) /\ Io.cell = cell /\ cell \in Cells /\ Io.queue = queue
      /\ doc \in Text /\ Preedit(e) \in Text /\ e.sel \in BOOLEAN
      /\ ed.sel \in BOOLEAN /\ cand \in BOOLEAN
      /\ ApartIo(Io, comps) /\ WaitsEmpty(Io)
      /\ Flow(queue, comps) \in Text /\ sent \in Text
  BY InvTypes, RoomForRequests, EditorTypes, FlowTypes
<1> DEFINE shown == e.sel
           composing == comps[cell].state # "none" \/ shown
           io == UpdatePreedit(Io, commit, Preedit(e), composing, shown)
<1>2. \/ Assign(io) /\ UNCHANGED <<comps, doc>>
      \/ /\ shown
         /\ \E end \in Endings :
               /\ TerminatedTail(io, end.comps, end.orphans)
               /\ doc' = doc \o end.text
  BY DEF UpdateComposition, ListAfter, Orderly
<1>3. ApartIo(Io, comps) /\ InOrderIo(Io, comps, commit \o Preedit(e), typed', doc)
  BY AnswerText
<1>4. typed' \in Nat
  BY DEF Answers
<1>5. commit # <<>> => composing /\ ~shown /\ Preedit(e) = <<>>
  BY DEF Answers, UpdateComposition, IsComposing, TextInv, Settled
<1>6. (shown => composing) /\ composing \in BOOLEAN /\ shown \in BOOLEAN
  BY <1>1
<1>7. Good(io, comps)
  BY <1>1, UpdatePreeditKeepsOrder
<1> HIDE DEF composing, shown
<1>8. ApartIo(io, comps) /\ InOrderIo(io, comps, Preedit(e), typed', doc)
  BY <1>1, <1>3, <1>4, <1>5, <1>6, UpdatePreeditKeepsText
<1>9. Flow(io.queue, comps) = Flow(queue, comps) \o commit
  <2>1. Adds(Io.queue, io.queue, comps, commit)
    BY <1>1, <1>5, <1>6, UpdatePreeditFlows
  <2> QED
    BY <1>1, <2>1 DEF Adds
<1> HIDE DEF io
<1>10. CASE Assign(io) /\ UNCHANGED <<comps, doc>>
  <2>1. Flow(queue', comps') = Flow(queue, comps) \o commit
    BY <1>9, <1>10 DEF Assign
  <2> QED
    BY <1>1, <1>10, <2>1, CommitStep
<1>11. CASE /\ shown
            /\ \E end \in Endings :
                  /\ TerminatedTail(io, end.comps, end.orphans)
                  /\ doc' = doc \o end.text
  <2>1. commit = <<>>
    BY <1>5, <1>11
  <2>2. Flow(io.queue, comps) = Flow(queue, comps) /\ sent' = sent
    BY <1>1, <1>9, <2>1, TextJoins
  <2> QED
    BY <1>1, <1>4, <1>7, <1>8, <1>11, <2>2, TerminatedIn, TailDelivers
<1> QED
  BY <1>2, <1>10, <1>11

LEMMA KeyDelivers ==
    ASSUME Orderly, IInv, TextInv, Key
    PROVE  [Delivery!Next]_(Delivery!vars)
<1>1. PICK e \in Editor, commit \in Text, printable \in BOOLEAN :
         OnKeyDown(e, commit, printable) /\ Answers(e, commit, typed')
  BY KeysAnswered DEF KeyAnswered
<1>2. HasRoom /\ sent' = sent \o commit
  BY <1>1 DEF OnKeyDown
<1>3. CASE CommitImmediately(e, commit)
  <2>1. queue' = InsertText(Io, commit).queue /\ UNCHANGED <<comps, doc>>
    BY <1>3 DEF CommitImmediately, Assign
  <2>2. Good(Io, comps) /\ Io.queue = queue /\ Flow(queue, comps) \in Text /\ sent \in Text
    BY FlowTypes
  <2>3. Flow(queue', comps') = Flow(queue, comps) \o commit
    BY <2>1, <2>2, InsertFlows
  <2> QED
    BY <1>2, <2>1, <2>2, <2>3, CommitStep
<1>4. CASE UpdateComposition(e, commit)
  BY <1>1, <1>2, <1>4, UpdateCompositionDelivers
<1> QED
  BY <1>1, <1>3, <1>4 DEF OnKeyDown

LEMMA ToggleDelivers ==
    ASSUME IInv, TextInv, ToggleLangMode
    PROVE  [Delivery!Next]_(Delivery!vars)
<1> DEFINE composing == IsComposing
           preedit == Preedit([ed EXCEPT !.syl = <<>>])
<1>1. /\ Good(Io, comps) /\ ApartIo(Io, comps) /\ WaitsEmpty(Io)
      /\ Io.queue = queue /\ Flow(queue, comps) \in Text /\ sent \in Text
      /\ cand \in BOOLEAN /\ ed \in Editor
  BY FlowTypes, InvTypes
<1>2. /\ HasRoom /\ UNCHANGED <<comps, doc, sent>>
      /\ queue' = UpdatePreedit(Io, <<>>, preedit, composing, cand).queue
  BY DEF ToggleLangMode, RedrawAfterToggle, Assign
<1>3. preedit \in Text
  <2>1. [ed EXCEPT !.syl = <<>>] \in Editor
    BY <1>1, EditorTypes DEF Editor
  <2> QED
    BY <2>1, EditorTypes
<1>4. (cand => composing) /\ composing \in BOOLEAN /\ Room(Io)
  BY <1>2, RoomForRequests DEF IsComposing
<1> HIDE DEF composing, preedit
<1>5. PICK commit \in Text : commit = <<>>
  BY EditorTypes
<1>6. queue' = UpdatePreedit(Io, commit, preedit, composing, cand).queue
  BY <1>2, <1>5
<1>7. commit # <<>> => composing
  BY <1>5
<1>8. Flow(queue', comps) = Flow(queue, comps) \o commit
  <2>1. Adds(Io.queue, queue', comps, commit)
    BY <1>1, <1>3, <1>4, <1>6, <1>7, UpdatePreeditFlows
  <2> QED
    BY <1>1, <2>1 DEF Adds
<1>9. sent' = sent \o commit
  BY <1>1, <1>2, <1>5, TextJoins
<1> QED
  BY <1>1, <1>2, <1>8, <1>9, CommitStep

LEMMA TerminatedDelivers ==
    ASSUME IInv, TextInv, OnCompositionTerminated
    PROVE  [Delivery!Next]_(Delivery!vars)
<1>1. \E end \in Endings : /\ TerminatedTail(Io, end.comps, end.orphans)
                          /\ doc' = doc \o end.text
  BY DEF OnCompositionTerminated
<1>2. /\ Good(Io, comps) /\ Preedit(ed) \in Text /\ typed \in Nat /\ doc \in Text
      /\ ApartIo(Io, comps) /\ InOrderIo(Io, comps, Preedit(ed), typed, doc)
      /\ Io.queue = queue /\ sent' = sent
  BY InvTypes, FlowTypes DEF OnCompositionTerminated
<1> QED
  BY <1>1, <1>2, TerminatedIn, TailDelivers

LEMMA CompartmentDelivers ==
    ASSUME Orderly, IInv, TextInv, OnCompartmentChange
    PROVE  [Delivery!Next]_(Delivery!vars)
<1>1. /\ Good(Io, comps) /\ ApartIo(Io, comps) /\ WaitsEmpty(Io)
      /\ Io.queue = queue /\ Flow(queue, comps) \in Text /\ sent \in Text
      /\ ed.buf \in Text /\ Room(Io)
  BY FlowTypes, InvTypes, RoomForRequests DEF OnCompartmentChange
<1>2. UNCHANGED <<comps, doc>>
  BY DEF OnCompartmentChange
<1>3. CASE CommitAndEnd
  <2> DEFINE set == SetCompositionString(Io, ed.buf, <<>>)
  <2>1. queue' = EndComposition(set).queue /\ sent' = sent \o ed.buf
    BY <1>3 DEF CommitAndEnd, Orderly, Assign
  <2>2. Flow(set.queue, comps) = Flow(queue, comps) \o ed.buf /\ Good(set, comps)
    <3>1. Adds(Io.queue, set.queue, comps, ed.buf) /\ Good(set, comps)
      BY <1>1, SetFlows, SetKeepsOrder, EditorTypes
    <3> QED
      BY <1>1, <3>1 DEF Adds
  <2> HIDE DEF set
  <2>3. Flow(queue', comps) = Flow(queue, comps) \o ed.buf
    BY <2>1, <2>2, EndFlows
  <2> QED
    BY <1>1, <1>2, <2>1, <2>3, CommitStep
<1>4. CASE UNCHANGED <<cell, queue, pending, ed, sent>>
  BY <1>2, <1>4, NoStep
<1> QED
  BY <1>3, <1>4 DEF OnCompartmentChange

LEMMA OnScreenType ==
    ASSUME NEW cs \in [Cells -> Slot]
    PROVE  OnScreen(cs) \in Text
<1>1. CASE \E c \in Cells : Live(cs, c)
  <2>1. (CHOOSE c \in Cells : Live(cs, c)) \in Cells
    BY <1>1
  <2> QED
    BY <1>1, <2>1, CellTexts DEF OnScreen
<1>2. CASE ~\E c \in Cells : Live(cs, c)
  BY <1>2, NothingText DEF OnScreen
<1> QED
  BY <1>1, <1>2

\* The first session, when it runs, delivers its commit.
LEMMA FirstFlows ==
    ASSUME NEW c, NEW q, NEW p, NEW cs, NEW cs2,
           NEW t \in Text, NEW n \in Nat, NEW d \in Text, NEW d2,
           WellTyped(c, q, p, cs), Ordered(c, q, p, cs), Apart(c, q, p, cs),
           Shown(c, q, p, cs, t), InOrder(c, q, cs, t, n, d),
           q # <<>>, RunFirst(q, cs, cs2, d, d2)
    PROVE  /\ Flow(q, cs) = Carried(q[1], cs) \o Flow(Tail(q), cs2)
           /\ Flow(Tail(q), cs2) \in Text /\ Carried(q[1], cs) \in Text
<1>1. q \in Seq(Session) /\ Tail(q) \in Seq(Session) /\ 1 \in DOMAIN q /\ q[1] \in Session
  BY DEF WellTyped
<1>2. \A j \in DOMAIN q : j # 1 => (Runs(q[j], cs2) <=> Runs(q[j], cs))
  BY RunKeepsText
<1>3. \A i \in DOMAIN Tail(q) : Runs(Tail(q)[i], cs2) <=> Runs(Tail(q)[i], cs)
  <2> SUFFICES ASSUME NEW i \in DOMAIN Tail(q)
               PROVE  Runs(Tail(q)[i], cs2) <=> Runs(Tail(q)[i], cs)
    OBVIOUS
  <2>1. i + 1 \in DOMAIN q /\ i + 1 # 1 /\ Tail(q)[i] = q[i + 1]
    BY <1>1, TailShifts
  <2> QED
    BY <1>2, <2>1
<1>4. Flow(Tail(q), cs2) = Flow(Tail(q), cs)
  BY <1>3, FlowSame
<1>5. Flow(q, cs) = Carried(q[1], cs) \o Flow(Tail(q), cs)
  BY <1>1, FlowTail
<1>6. Carried(q[1], cs) \in Text
  BY <1>1, SessionTexts, NothingText DEF Carried
<1> QED
  BY <1>1, <1>4, <1>5, <1>6, FlowType

LEMMA DoEditSessionDelivers ==
    ASSUME Orderly, IInv, TextInv, IInv', DoEditSession
    PROVE  [Delivery!Next]_(Delivery!vars)
<1> DEFINE s == queue[1]
           x == s.cell
<1>1. /\ queue # <<>> /\ RunFirst(queue, comps, comps', doc, doc')
      /\ queue' = Tail(queue)
  BY DoesFirst DEF TextInv, TextIs, Settled
<1>2. /\ WellTyped(cell, queue, pending, comps) /\ Ordered(cell, queue, pending, comps)
      /\ Apart(cell, queue, pending, comps) /\ Preedit(ed) \in Text /\ typed \in Nat
      /\ Shown(cell, queue, pending, comps, Preedit(ed))
      /\ InOrder(cell, queue, comps, Preedit(ed), typed, doc)
      /\ doc \in Text /\ comps \in [Cells -> Slot]
  BY InvTypes DEF Good, ApartIo, ShownIo, InOrderIo, WellTyped, TextInv, TextIs
<1>3. sent' = sent
  BY DEF DoEditSession
<1>4. /\ Flow(queue, comps) = Carried(s, comps) \o Flow(queue', comps')
      /\ Flow(queue', comps') \in Text /\ Carried(s, comps) \in Text
  BY <1>1, <1>2, FirstFlows
<1>5. comps' \in [Cells -> Slot] /\ O7(comps')
  BY DEF IInv, Good, WellTyped, Ordered
<1>6. OnScreen(comps') \in Text /\ O7(comps)
  BY <1>2, <1>5, OnScreenType DEF Ordered
<1>7. /\ s \in Session
      /\ s.op = "end" => ~Runs(s, comps)
      /\ s.op # "insert" => x \in Cells /\ comps[x].text \in Text
  <2>1. s \in Session /\ (s.op = "end" => ~Runs(s, comps))
    BY <1>1, <1>2, FirstFacts
  <2>2. s.op # "insert" => x \in Cells
    BY <2>1 DEF Session
  <2> QED
    BY <1>2, <2>1, <2>2, CellTexts
<1>8. ASSUME Carried(s, comps) = <<>>
      PROVE  Flow(queue', comps') = Flow(queue, comps)
  BY <1>4, <1>8, TextJoins
\* A session that runs.
<1>9. CASE Runs(s, comps)
  <2>1. Carried(s, comps) = s.commit
    BY <1>9 DEF Carried
  <2>2. doc' = doc \o s.commit
    BY <1>1, <1>7, <1>9 DEF RunFirst
  <2> QED
    BY <1>3, <1>4, <1>6, <2>1, <2>2, DeliverStep
<1>10. CASE ~Runs(s, comps)
  <2>1. Flow(queue', comps') = Flow(queue, comps)
    BY <1>8, <1>10 DEF Carried
\* One whose edit was emptied, or whose composition was taken away.
  <2>2. CASE comps' = comps /\ doc' = doc
    BY <1>3, <2>1, <2>2, NoStep
\* The end of a composition.
  <2>3. CASE /\ s.op = "end" /\ comps' = [comps EXCEPT ![x] = NoComposition]
             /\ doc' = doc \o comps[x].text
    <3>1. x \in Cells /\ comps[x].text \in Text
      BY <1>7, <2>3
    <3>2. \A e \in Cells : Live(comps', e) <=> e # x /\ Live(comps, e)
      BY <1>2, <2>3, <3>1 DEF Live, NoComposition
    <3>3. CASE Live(comps, x)
      <4>1. \A e \in Cells : ~Live(comps', e)
        BY <1>6, <3>1, <3>2, <3>3 DEF O7, Live
      <4>2. /\ SomeLive(comps) /\ OnScreen(comps) = comps[x].text
            /\ ~SomeLive(comps') /\ OnScreen(comps') = <<>>
        BY <1>5, <1>6, <3>1, <3>3, <4>1, OnScreenIs DEF SomeLive
      <4> QED
        BY <1>3, <2>1, <2>3, <4>2, SettleStep
    <3>4. CASE ~Live(comps, x)
      <4>1. comps[x].text = <<>>
        BY <1>2, <3>1, <3>4 DEF Apart, A2
      <4>2. doc' = doc
        BY <1>2, <2>3, <4>1, TextJoins
      <4>3. \A e \in Cells : Live(comps', e) <=> Live(comps, e)
        BY <3>2, <3>4
      <4>4. SomeLive(comps') <=> SomeLive(comps)
        BY <4>3 DEF SomeLive
      <4>5. OnScreen(comps') = OnScreen(comps)
        <5>1. CASE \E y \in Cells : Live(comps, y)
          <6>1. PICK y \in Cells : Live(comps, y)
            BY <5>1
          <6>2. comps'[y] = comps[y] /\ Live(comps', y)
            BY <1>2, <2>3, <3>4, <4>3, <6>1
          <6> QED
            BY <1>5, <1>6, <6>1, <6>2, OnScreenIs
        <5>2. CASE \A y \in Cells : ~Live(comps, y)
          BY <1>5, <1>6, <4>3, <5>2, OnScreenIs
        <5> QED
          BY <5>1, <5>2
      <4> QED
        BY <1>3, <2>1, <4>2, <4>4, <4>5, NoStep
    <3> QED
      BY <3>3, <3>4
  <2> QED
    BY <1>1, <1>10, <2>2, <2>3 DEF RunFirst
<1> QED
  BY <1>9, <1>10

LEMMA NextDelivers ==
    ASSUME Orderly, IInv, TextInv, IInv', [Next]_vars
    PROVE  [Delivery!Next]_(Delivery!vars)
<1>1. CASE Key
  BY <1>1, KeyDelivers
<1>2. CASE ToggleLangMode
  BY <1>2, ToggleDelivers
<1>3. CASE ToggleThenMessageFails \/ TerminationFails \/ OnKillFocus \/ RebuildEditor
  BY <1>3 DEF Orderly, ToggleThenMessageFails, TerminationFails, OnKillFocus, RebuildEditor
<1>4. CASE TailHandler
  BY <1>4 DEF TailHandler, TextInv, Settled
<1>5. CASE OnCompositionTerminated
  BY <1>5, TerminatedDelivers
<1>6. CASE OnCompartmentChange
  BY <1>6, CompartmentDelivers
<1>7. CASE OnKeyUp \/ OnFocus \/ UNCHANGED vars
  BY <1>7, NoStep DEF OnKeyUp, OnFocus, vars
<1>8. CASE DoEditSession
  BY <1>8, DoEditSessionDelivers
<1> QED
  BY <1>1, <1>2, <1>3, <1>4, <1>5, <1>6, <1>7, <1>8 DEF Next

LEMMA InitDelivers ==
    ASSUME Init
    PROVE  Delivery!Init
<1>1. queue = <<>> /\ comps = [c \in Cells |-> NoComposition] /\ sent = <<>> /\ doc = <<>>
  BY DEF Init
<1>2. \A c \in Cells : ~Live(comps, c)
  BY <1>1 DEF Live, NoComposition
<1>3. ~SomeLive(comps) /\ OnScreen(comps) = <<>>
  BY <1>2 DEF SomeLive, OnScreen
<1>4. Flow(queue, comps) = <<>>
  <2>1. CarriedBy(queue, comps) = <<>>
    BY <1>1 DEF CarriedBy
  <2> QED
    BY <2>1, FlattenEmpty DEF Flow
<1> QED
  BY <1>1, <1>3, <1>4, DeliveryIs DEF Delivery!Init

\* What the user commits reaches the document once and in order: through the immediate
\* commit (insert_text), the edit sessions that are reused, emptied and ended, and the
\* compositions the application ends, with which alone text may be given up.
THEOREM DeliveryImplemented == Orderly /\ Spec => DeliversInOrder
<1> SUFFICES ASSUME Orderly
             PROVE  Spec => DeliversInOrder
  OBVIOUS
<1>1. Init => IInv /\ TextInv
  BY InitInvariant, InitText
<1>2. IInv /\ TextInv /\ [Next]_vars => (IInv /\ TextInv)'
  BY NextKeepsInvariant, NextKeepsText
<1>3. IInv /\ TextInv /\ IInv' /\ [Next]_vars => [Delivery!Next]_(Delivery!vars)
  BY NextDelivers
<1> QED
  BY <1>1, <1>2, <1>3, InitDelivers, PTL DEF Spec, DeliversInOrder, Delivery!Spec
=============================================================================
