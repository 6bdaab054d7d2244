--------------------------- MODULE MCComposition ---------------------------
(***************************************************************************)
(* Composition for TLC, and the promise of TextDelivery it keeps.          *)
(***************************************************************************)
EXTENDS Composition

\* A queued session still has a commit to deliver, unless its edit was emptied or
\* the application has taken its composition.
Commits(s) ==
    IF s.armed /\ (s.op = "set" => comps[s.cell].state # "dead") THEN s.commit ELSE <<>>

Inflight == FlattenSeq([i \in DOMAIN queue |-> Commits(queue[i])])

Delivery == INSTANCE TextDelivery WITH
    committed <- sent, delivered <- doc,
    open <- (\E c \in Cells : IsLive(c)), shown <- ShownText, inflight <- Inflight

\* Committed text reaches the document once and in order, through every reuse of
\* a session (set_composition_string) and every change of the composition.
DeliversInOrder == Delivery!Spec

\* A character the editor has committed is in the document, shown in the
\* composition, or on its way: "we do the commit and update composition in one
\* single transaction".
NoCommitLost == Chars(sent) \subseteq Chars(doc \o ShownText \o Inflight)
=============================================================================
