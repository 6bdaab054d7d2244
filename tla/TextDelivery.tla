---------------------------- MODULE TextDelivery ----------------------------
(***************************************************************************)
(* What the tip promises about the text the user has committed: it reaches *)
(* the document once, in the order it was committed, and only an           *)
(* application that takes the composition away can keep it from arriving.  *)
(* The code that implements it is modelled by Composition.                 *)
(***************************************************************************)
EXTENDS Naturals, Sequences

VARIABLES
    committed,  \* all the text the user has committed
    delivered,  \* the text of the document, outside every composition
    open,       \* there is a composition in the document
    shown,      \* its text
    inflight    \* text committed and not delivered yet, oldest first

vars == <<committed, delivered, open, shown, inflight>>

Text == Seq(Nat)

\* t can be made of s by leaving characters out.
Subsequence(t, s) ==
    \E place \in [DOMAIN t -> DOMAIN s] :
        /\ \A i, j \in DOMAIN t : i < j => place[i] < place[j]
        /\ \A i \in DOMAIN t : t[i] = s[place[i]]

Init ==
    /\ committed = <<>> /\ delivered = <<>> /\ inflight = <<>>
    /\ ~open /\ shown = <<>>

\* The user commits text, the characters of committed' after committed.
Commit ==
    /\ Len(committed') > Len(committed)
    /\ SubSeq(committed', 1, Len(committed)) = committed
    /\ inflight' = inflight \o SubSeq(committed', Len(committed) + 1, Len(committed'))
    /\ UNCHANGED <<delivered, open, shown>>

\* The oldest committed characters arrive, in front of the composition, and the
\* composition is drawn again.
Deliver ==
    /\ \E n \in 0..Len(inflight) :
          /\ delivered' = delivered \o SubSeq(inflight, 1, n)
          /\ inflight' = SubSeq(inflight, n + 1, Len(inflight))
    /\ open' \in BOOLEAN /\ shown' \in Text
    /\ UNCHANGED committed

\* The composition ends: what it shows becomes text of the document.
Settle ==
    /\ open /\ ~open'
    /\ delivered' = delivered \o shown
    /\ shown' = <<>>
    /\ UNCHANGED <<committed, inflight>>

\* The application ends the composition: what was on the way to it is given up.
Interrupt ==
    /\ open /\ ~open'
    /\ delivered' = delivered \o shown
    /\ shown' = <<>>
    /\ Subsequence(inflight', inflight)
    /\ UNCHANGED committed

Next == Commit \/ Deliver \/ Settle \/ Interrupt

Spec == Init /\ [][Next]_vars
=============================================================================
