---------------------------- MODULE Composition ----------------------------
(***************************************************************************)
(* The life of a composition in the text input processor (tip).            *)
(*                                                                         *)
(* A key goes through the conversion editor (libchewing), and what the     *)
(* editor answers is carried to the document by edit sessions that the     *)
(* text services framework (TSF) runs later, in the order of the requests. *)
(* Between the request and the run anything may happen: more keys, a mode  *)
(* toggle, a change of focus, the application ending the composition.      *)
(* The code is tip/src/text_service/: chewing.rs (handlers),               *)
(* edit_session.rs (sessions) and mod.rs (COM entry points).               *)
(*                                                                         *)
(* A character is the number of the key that made it, so that the order of *)
(* two characters tells which one was typed first.                         *)
(***************************************************************************)
EXTENDS Naturals, Sequences, SequencesExt

CONSTANTS
    Cells,      \* identities of the Rc<RefCell<Option<ITfComposition>>> cells
    NoCell,     \* what a session without a cell has in its place
    MaxKeys,    \* bound: characters the user types
    MaxQueue,   \* bound: edit sessions waiting in TSF
    MaxText,    \* bound: length of the document when the focus may be lost
    MaxOrphans, \* bound: live compositions nothing refers to
    Features    \* the events of AllFeatures that may happen

AllFeatures == {"terminate", "openclose", "toggle", "fail",
                "overflow", "blur", "keyup", "rebuild", "refuse"}

ASSUME CellsAssumption == Cells # {} /\ NoCell \notin Cells
ASSUME BoundsAssumption ==
    MaxKeys \in Nat /\ MaxQueue \in Nat /\ MaxText \in Nat /\ MaxOrphans \in Nat
ASSUME FeaturesAssumption == Features \subseteq AllFeatures

VARIABLES
    ed,          \* chewing_editor: [buf, syl, sel]
    cand,        \* candidate_list.is_some()
    cell,        \* the cell self.composition points to
    comps,       \* contents of the cells: [state, text]
    queue,       \* edit sessions TSF has accepted and not run yet
    pending,     \* pending_edit: place in queue of the session it reaches, or 0
    terminated,  \* composition_terminated, the flag of the deferred callback
    enabled,     \* ~ lang_mode.is_disabled()
    hasFocus,    \* has_focus
    keyBusy,     \* key_busy: a key went down and OnKeyUp has not been called
    doc,         \* text of the document outside every composition
    typed,       \* characters typed so far
    sent,        \* characters the editor has committed and the tip acknowledged
    dropped,     \* characters deleted from the editor before they were committed
    orphans,     \* texts of the live compositions that lost their last reference
    disturbed    \* TSF refused to end a composition, or a deferred termination was
                 \* handled when another composition was live

vars == <<ed, cand, cell, comps, queue, pending, terminated, enabled, hasFocus,
          keyBusy, doc, typed, sent, dropped, orphans, disturbed>>
-----------------------------------------------------------------------------
Text == Seq(Nat)
Chars(s) == {s[i] : i \in DOMAIN s}

Editor == [buf : Text, syl : Text, sel : BOOLEAN]
NewEditor == [buf |-> <<>>, syl |-> <<>>, sel |-> FALSE]

\* What the editor displays: the converted buffer, then the bopomofo.
Preedit(e) == e.buf \o e.syl

\* A cell is empty, or holds a composition that is live or was ended by the
\* application (the tip's reference to it stays).
Slot == [state : {"none", "live", "dead"}, text : Text]
NoComposition == [state |-> "none", text |-> <<>>]
IsLive(c) == comps[c].state = "live"

Session == {s \in [op : {"set", "end", "insert"}, cell : Cells \cup {NoCell},
                   commit : Text, preedit : Text, armed : BOOLEAN] :
               s.op # "insert" => s.cell \in Cells}
SetSession(c, commit, preedit) ==
    [op |-> "set", cell |-> c, commit |-> commit, preedit |-> preedit, armed |-> TRUE]
EndSession(c) ==
    [op |-> "end", cell |-> c, commit |-> <<>>, preedit |-> <<>>, armed |-> FALSE]
InsertSession(text) ==
    [op |-> "insert", cell |-> NoCell, commit |-> text, preedit |-> <<>>, armed |-> TRUE]

\* "when candidate window is shown we are composing even without a composition"
IsComposing == comps[cell].state # "none" \/ cand
-----------------------------------------------------------------------------
(***************************************************************************)
(* The requests of the handlers, as functions of io = [cell, queue,        *)
(* pending]: a handler may make two, composed before they are assigned.    *)
(* A definition with a suffix is a plausible bug of the one that follows.  *)
(***************************************************************************)
Io == [cell |-> cell, queue |-> queue, pending |-> pending]
Assign(io) == cell' = io.cell /\ queue' = io.queue /\ pending' = io.pending

CellsInUse(io) == {io.cell} \cup {io.queue[i].cell : i \in DOMAIN io.queue}
FreshCell(io) == CHOOSE c \in Cells : c \notin CellsInUse(io)

\* Room for the two requests a handler may make.
HasRoom == Len(queue) + 2 <= MaxQueue /\ Cells \ CellsInUse(Io) # {}

\* A session that has not run yet is reused: its contents are replaced.
SetCompositionString(io, commit, preedit) ==
    IF io.pending # 0
    THEN [io EXCEPT !.queue[io.pending] = SetSession(@.cell, commit, preedit)]
    ELSE [io EXCEPT !.queue = Append(@, SetSession(io.cell, commit, preedit)),
                    !.pending = Len(io.queue) + 1]

EndComposition_KeepsPending(io) ==
    [cell |-> FreshCell(io), queue |-> Append(io.queue, EndSession(io.cell)),
     pending |-> io.pending]

EndComposition_KeepsCell(io) ==
    [cell |-> io.cell, queue |-> Append(io.queue, EndSession(io.cell)), pending |-> 0]

EndComposition_EndsTheNext(io) ==
    [cell |-> FreshCell(io), queue |-> Append(io.queue, EndSession(FreshCell(io))),
     pending |-> 0]

\* The cell goes to the EndComposition session, the service takes a new one.
EndComposition(io) ==
    [cell |-> FreshCell(io), queue |-> Append(io.queue, EndSession(io.cell)), pending |-> 0]

InsertText(io, text) == [io EXCEPT !.queue = Append(@, InsertSession(text))]

\* composing and candidates are is_composing() and candidate_list.is_some() at
\* the call.
UpdatePreedit(io, commit, preedit, composing, candidates) ==
    LET set == SetCompositionString(io, commit, preedit)
    IN  IF preedit # <<>> THEN set
        ELSE LET cleared == IF composing THEN set ELSE io
             IN  IF candidates THEN cleared ELSE EndComposition(cleared)

ClearPending_KeepsEdit(io) == [io EXCEPT !.pending = 0]

\* The edit that has not run yet is emptied "to avoid double commits".
ClearPending(io) ==
    IF io.pending # 0
    THEN [io EXCEPT !.queue[io.pending] = [@ EXCEPT !.armed = FALSE], !.pending = 0]
    ELSE io

\* The application ends the composition of cell c; its text stays where it is.
Taken(c) == [comps EXCEPT ![c] = [state |-> "dead", text |-> <<>>]]

\* What the application may end: a composition of a cell, or one that is left in
\* the document without one.
Endings ==
    {[comps |-> Taken(c), orphans |-> orphans, text |-> comps[c].text] :
        c \in {d \in Cells : IsLive(d)}}
    \cup {[comps |-> comps, orphans |-> RemoveAt(orphans, i), text |-> orphans[i]] :
        i \in DOMAIN orphans}

\* The reference of cell c is dropped: a composition that is still live stays in the
\* document as it is.
Drop(cs, os, c) ==
    /\ comps' = [cs EXCEPT ![c] = NoComposition]
    /\ orphans' = IF cs[c].state = "live" THEN Append(os, cs[c].text) ELSE os
    /\ Len(orphans') <= MaxOrphans

TerminatedTail_KeepsEditor(io, cs, os) ==
    /\ Assign(ClearPending(io))
    /\ Drop(cs, os, io.cell)
    /\ UNCHANGED ed
    /\ cand' = FALSE

\* on_composition_terminated_tail, with the requests and compositions of the moment.
TerminatedTail(io, cs, os) ==
    /\ Assign(ClearPending(io))
    /\ Drop(cs, os, io.cell)
    /\ ed' = NewEditor
    /\ cand' = FALSE
-----------------------------------------------------------------------------
(***************************************************************************)
(* Keys.  libchewing is external: each kind of answer that src/ tells      *)
(* apart is an action, and OnKeyDown is what the tip does with the answer. *)
(***************************************************************************)

\* "Not composing so we can commit the text immediately"
CommitImmediately(e, commit) ==
    /\ ~IsComposing /\ commit # <<>>
    /\ ed' = e
    /\ Assign(InsertText(Io, commit))
    /\ UNCHANGED <<cand, comps, doc, orphans>>

\* Whether there is a list: that one could not be made is only logged.
ListAfter(e) == IF e.sel /\ ~cand /\ "fail" \in Features THEN BOOLEAN ELSE {e.sel}

\* update_candidates then update_preedit.  With a candidate list to place, the
\* selection is read by a synchronous session; the application may end a
\* composition in it, and that callback is deferred to the handler's tail.
UpdateComposition(e, commit) ==
    /\ IsComposing \/ commit = <<>>
    /\ \E shown \in ListAfter(e) :
          LET composing == comps[cell].state # "none" \/ shown
              io == UpdatePreedit(Io, commit, Preedit(e), composing, shown)
          IN  \/ /\ Assign(io)
                 /\ ed' = e
                 /\ cand' = shown
                 /\ UNCHANGED <<comps, doc, orphans>>
              \/ /\ "terminate" \in Features
                 /\ shown
                 /\ \E end \in Endings :
                       /\ TerminatedTail(io, end.comps, end.orphans)
                       /\ doc' = doc \o end.text

\* on_test_keydown.  A key that is not printable reaches the editor only while the
\* tip is composing.
Wanted(printable) == enabled /\ (printable \/ IsComposing)

\* e and commit are the editor's answer.  The tail of OnTestKeyDown has left no
\* termination deferred.
OnKeyDown(e, commit, printable) ==
    /\ Wanted(printable)
    /\ hasFocus /\ ~terminated /\ HasRoom
    /\ CommitImmediately(e, commit) \/ UpdateComposition(e, commit)
    /\ sent' = sent \o commit
    /\ keyBusy' = TRUE
    /\ UNCHANGED <<terminated, enabled, hasFocus, disturbed>>

Entering == ~ed.sel
NewChar == typed < MaxKeys /\ typed' = typed + 1

TypeBopomofo ==
    /\ Entering /\ ed.syl = <<>>
    /\ NewChar
    /\ OnKeyDown([ed EXCEPT !.syl = <<typed + 1>>], <<>>, TRUE)
    /\ UNCHANGED dropped

FinishSyllable ==
    /\ Entering /\ ed.syl # <<>>
    /\ OnKeyDown([ed EXCEPT !.buf = @ \o ed.syl, !.syl = <<>>], <<>>, TRUE)
    /\ UNCHANGED <<typed, dropped>>

\* The buffer is full: its first character is committed to make room.
FinishSyllableAndOverflow ==
    /\ "overflow" \in Features
    /\ Entering /\ ed.syl # <<>> /\ ed.buf # <<>>
    /\ OnKeyDown([ed EXCEPT !.buf = Tail(@) \o ed.syl, !.syl = <<>>],
                 <<Head(ed.buf)>>, TRUE)
    /\ UNCHANGED <<typed, dropped>>

\* A symbol goes to the buffer, or directly to the application without one.
TypeSymbol ==
    /\ Entering /\ ed.syl = <<>>
    /\ NewChar
    /\ IF ed.buf = <<>>
       THEN OnKeyDown(ed, <<typed + 1>>, TRUE)
       ELSE OnKeyDown([ed EXCEPT !.buf = Append(@, typed + 1)], <<>>, TRUE)
    /\ UNCHANGED dropped

PressEnter ==
    /\ Entering /\ ed.syl = <<>> /\ ed.buf # <<>>
    /\ OnKeyDown(NewEditor, ed.buf, FALSE)
    /\ UNCHANGED <<typed, dropped>>

PressBackspace ==
    /\ Entering /\ Preedit(ed) # <<>>
    /\ IF ed.syl # <<>>
       THEN /\ OnKeyDown([ed EXCEPT !.syl = <<>>], <<>>, FALSE)
            /\ dropped' = dropped \cup Chars(ed.syl)
       ELSE /\ OnKeyDown([ed EXCEPT !.buf = SubSeq(@, 1, Len(@) - 1)], <<>>, FALSE)
            /\ dropped' = dropped \cup {ed.buf[Len(ed.buf)]}
    /\ UNCHANGED typed

\* Down chooses for the buffer; ` opens the symbol menu, with or without one.
OpenCandidates ==
    /\ Entering /\ ed.syl = <<>>
    /\ OnKeyDown([ed EXCEPT !.sel = TRUE], <<>>, TRUE)
    /\ UNCHANGED <<typed, dropped>>

CloseCandidates ==
    /\ ed.sel
    /\ OnKeyDown([ed EXCEPT !.sel = FALSE], <<>>, TRUE)
    /\ UNCHANGED <<typed, dropped>>

Key ==
    \/ TypeBopomofo \/ FinishSyllable \/ FinishSyllableAndOverflow \/ TypeSymbol
    \/ PressEnter \/ PressBackspace \/ OpenCandidates \/ CloseCandidates
-----------------------------------------------------------------------------
(***************************************************************************)
(* The other callbacks.                                                    *)
(***************************************************************************)

\* toggle_lang_mode changed the mode: the syllable is cleared and the preedit
\* drawn again.
RedrawAfterToggle ==
    LET e == [ed EXCEPT !.syl = <<>>]
    IN  /\ HasRoom
        /\ ed' = e
        /\ dropped' = dropped \cup Chars(ed.syl)
        /\ Assign(UpdatePreedit(Io, <<>>, Preedit(e), IsComposing, cand))

ToggleLangMode ==
    /\ "toggle" \in Features
    /\ RedrawAfterToggle
    /\ UNCHANGED <<cand, comps, terminated, enabled, hasFocus, keyBusy, doc, typed, sent,
                   orphans, disturbed>>

\* A tap of Shift: show_message reads the selection in a synchronous session, in
\* which the application ends a composition, then fails to create the
\* notification: OnKeyUp returns the error and skips its tail.
ToggleThenMessageFails ==
    /\ "fail" \in Features
    /\ enabled /\ hasFocus /\ ~terminated
    /\ RedrawAfterToggle
    /\ \E end \in Endings :
          /\ comps' = end.comps
          /\ orphans' = end.orphans
          /\ doc' = doc \o end.text
    /\ terminated' = TRUE
    /\ UNCHANGED <<cand, enabled, hasFocus, keyBusy, typed, sent, disturbed>>

\* The tail of the next key handler that returns normally.  It clears what there is
\* now: the composition that was terminated, or one that was started since.
TailHandler ==
    /\ terminated
    /\ terminated' = FALSE
    /\ TerminatedTail(Io, comps, orphans)
    /\ disturbed' = (disturbed \/ IsLive(cell))
    /\ UNCHANGED <<enabled, hasFocus, keyBusy, doc, typed, sent, dropped>>

\* The application ends a composition outside of our handlers.  The callback
\* does not look at which one it was.
OnCompositionTerminated ==
    /\ "terminate" \in Features
    /\ \E end \in Endings :
          /\ TerminatedTail(Io, end.comps, end.orphans)
          /\ doc' = doc \o end.text
    /\ UNCHANGED <<terminated, enabled, hasFocus, keyBusy, typed, sent, dropped, disturbed>>

\* The same, when TSF fails to give the range, the focused document or the display
\* attributes: the callback returns before its tail, and the editor and the edit
\* that waits are left as if nothing had happened.
TerminationFails ==
    /\ "fail" \in Features
    /\ \E end \in Endings :
          /\ comps' = end.comps
          /\ orphans' = end.orphans
          /\ doc' = doc \o end.text
    /\ UNCHANGED <<ed, cand, cell, queue, pending, terminated, enabled, hasFocus, keyBusy,
                   typed, sent, dropped, disturbed>>

\* Ctrl+Space.  chewing_editor.commit() fails on an empty buffer, while selecting
\* and inside a syllable.
CommitSucceeds == ed.buf # <<>> /\ ed.syl = <<>> /\ ~ed.sel

\* The text is committed in a last session of its composition.  When TSF does not
\* give the document or its context, the editor has forgotten the text already.
CommitAndEnd ==
    /\ IsComposing /\ CommitSucceeds
    /\ ed' = NewEditor
    /\ sent' = sent \o ed.buf
    /\ \/ Assign(EndComposition(SetCompositionString(Io, ed.buf, <<>>)))
       \/ "fail" \in Features /\ Assign(Io)

\* The mode alone changes when the commit fails, when sync_lang_mode does, or when
\* the change came while the service was borrowed (on_compartment_change_ro).
OnCompartmentChange ==
    /\ "openclose" \in Features
    /\ hasFocus /\ HasRoom
    /\ enabled' = ~enabled
    /\ \/ enabled /\ CommitAndEnd
       \/ UNCHANGED <<cell, queue, pending, ed, sent>>
    /\ UNCHANGED <<cand, comps, terminated, hasFocus, keyBusy, doc, typed, dropped,
                   orphans, disturbed>>

\* The release of a key, where the application calls OnKeyUp although
\* OnTestKeyUp, which has run the tail, wants none.
OnKeyUp ==
    /\ "keyup" \in Features
    /\ keyBusy /\ ~terminated
    /\ keyBusy' = FALSE
    /\ UNCHANGED <<ed, cand, cell, comps, queue, pending, terminated, enabled, hasFocus,
                   doc, typed, sent, dropped, orphans, disturbed>>

\* The composition is ended, where the document that loses the focus still has a
\* context, and the windows are hidden; the editor is left as it is.  OnSetFocus does
\* nothing during a key.
OnKillFocus ==
    /\ "blur" \in Features /\ Len(doc) <= MaxText
    /\ ~keyBusy
    /\ hasFocus /\ HasRoom
    /\ hasFocus' = FALSE
    /\ (IsComposing /\ Assign(EndComposition(Io))) \/ Assign(Io)
    /\ cand' = FALSE
    /\ UNCHANGED <<ed, comps, terminated, enabled, keyBusy, doc, typed, sent, dropped,
                   orphans, disturbed>>

OnFocus ==
    /\ ~keyBusy /\ ~hasFocus
    /\ hasFocus' = TRUE
    /\ UNCHANGED <<ed, cand, cell, comps, queue, pending, terminated, enabled, keyBusy, doc,
                   typed, sent, dropped, orphans, disturbed>>

\* OnSetThreadFocus, or the first key after the configuration changed:
\* apply_runtime_config replaces the editor and nothing else.
RebuildEditor ==
    /\ "rebuild" \in Features
    /\ ed' = NewEditor
    /\ UNCHANGED <<cand, cell, comps, queue, pending, terminated, enabled, hasFocus,
                   keyBusy, doc, typed, sent, dropped, orphans, disturbed>>
-----------------------------------------------------------------------------
(***************************************************************************)
(* TSF runs the oldest edit session.                                       *)
(***************************************************************************)

\* What a session that draws preedit and commits commit leaves when a call of TSF
\* fails in it: [slot, out], the composition and what went to the document.  One
\* SetText replaces the text by commit and preedit, then the start is shifted over
\* the commit.  The composition is not started; or its text is not replaced; or it
\* is not, which is only logged, and the start is shifted over the old text; or it
\* is replaced and the start is not shifted.
HalfDrawn(slot, commit, preedit) ==
    LET n == IF Len(commit) < Len(slot.text) THEN Len(commit) ELSE Len(slot.text)
        Live(text, out) == [slot |-> [state |-> "live", text |-> text], out |-> out]
    IN  {[slot |-> slot, out |-> <<>>],
         Live(slot.text, <<>>),
         Live(SubSeq(slot.text, n + 1, Len(slot.text)), SubSeq(slot.text, 1, n)),
         Live(commit \o preedit, <<>>)}

Drawn(slot, commit, preedit) ==
    {[slot |-> [state |-> "live", text |-> preedit], out |-> commit]}
    \cup (IF "refuse" \in Features THEN HalfDrawn(slot, commit, preedit) ELSE {})

\* Starts the composition if need be, and draws it.  A dead composition has no
\* range: the session fails.
RunSetCompositionString(s) ==
    /\ s.op = "set"
    /\ IF s.armed /\ comps[s.cell].state # "dead"
       THEN \E drawn \in Drawn(comps[s.cell], s.commit, s.preedit) :
               /\ comps' = [comps EXCEPT ![s.cell] = drawn.slot]
               /\ doc' = doc \o drawn.out
       ELSE UNCHANGED <<comps, doc>>
    /\ UNCHANGED <<orphans, disturbed>>

RunEndComposition_Skips(s) ==
    /\ s.op = "end"
    /\ UNCHANGED <<comps, doc, orphans, disturbed>>

\* The composition is taken out of its cell, the only reference to it, and ended
\* around its text.  When TSF refuses, it stays in the document, before or after
\* its start was moved over its text.
RunEndComposition(s) ==
    /\ s.op = "end"
    /\ \/ /\ comps' = [comps EXCEPT ![s.cell] = NoComposition]
          /\ doc' = doc \o comps[s.cell].text
          /\ UNCHANGED <<orphans, disturbed>>
       \/ /\ "refuse" \in Features /\ IsLive(s.cell)
          /\ \/ Drop(comps, orphans, s.cell) /\ UNCHANGED doc
             \/ /\ Drop([comps EXCEPT ![s.cell].text = <<>>], orphans, s.cell)
                /\ doc' = doc \o comps[s.cell].text
          /\ disturbed' = TRUE

\* The caret is inside a composition if there is one: the text becomes part of it
\* or is put in front of it; or TSF refuses, and it is lost.
RunInsertText(s) ==
    /\ s.op = "insert"
    /\ \/ doc' = doc \o s.commit /\ UNCHANGED <<comps, orphans>>
       \/ /\ \E c \in Cells :
                /\ IsLive(c)
                /\ comps' = [comps EXCEPT ![c].text = @ \o s.commit]
          /\ UNCHANGED <<doc, orphans>>
       \/ /\ \E i \in DOMAIN orphans :
                orphans' = [orphans EXCEPT ![i] = @ \o s.commit]
          /\ UNCHANGED <<doc, comps>>
       \/ "refuse" \in Features /\ UNCHANGED <<doc, comps, orphans>>
    /\ UNCHANGED disturbed

DoEditSession_KeepsEdit ==
    /\ queue # <<>>
    /\ LET s == Head(queue)
       IN  RunSetCompositionString(s) \/ RunEndComposition(s) \/ RunInsertText(s)
    /\ queue' = Tail(queue)
    /\ UNCHANGED <<ed, cand, cell, pending, terminated, enabled, hasFocus, keyBusy, typed, sent,
                   dropped>>

\* The session is released when it has run, and its edit with it.
DoEditSession ==
    /\ queue # <<>>
    /\ LET s == Head(queue)
       IN  RunSetCompositionString(s) \/ RunEndComposition(s) \/ RunInsertText(s)
    /\ queue' = Tail(queue)
    /\ pending' = IF pending = 0 THEN 0 ELSE pending - 1
    /\ UNCHANGED <<ed, cand, cell, terminated, enabled, hasFocus, keyBusy, typed, sent, dropped>>
-----------------------------------------------------------------------------
Init ==
    /\ ed = NewEditor
    /\ cand = FALSE
    /\ cell = CHOOSE c \in Cells : TRUE
    /\ comps = [c \in Cells |-> NoComposition]
    /\ queue = <<>>
    /\ pending = 0
    /\ terminated = FALSE
    /\ enabled = TRUE
    /\ hasFocus = TRUE
    /\ keyBusy = FALSE
    /\ doc = <<>>
    /\ typed = 0
    /\ sent = <<>>
    /\ dropped = {}
    /\ orphans = <<>>
    /\ disturbed = FALSE

Next ==
    \/ Key
    \/ ToggleLangMode \/ ToggleThenMessageFails \/ TailHandler
    \/ OnCompositionTerminated \/ TerminationFails
    \/ OnCompartmentChange
    \/ OnKeyUp \/ OnKillFocus \/ OnFocus \/ RebuildEditor
    \/ DoEditSession

Spec == Init /\ [][Next]_vars

\* TSF runs every session it has accepted; nothing else is promised.
FairSpec == Spec /\ WF_vars(DoEditSession)
-----------------------------------------------------------------------------
(***************************************************************************)
(* Properties.                                                             *)
(***************************************************************************)

\* Every variable has its type.
TypeOK ==
    /\ ed \in Editor
    /\ cand \in BOOLEAN
    /\ cell \in Cells
    /\ comps \in [Cells -> Slot]
    /\ queue \in Seq(Session)
    /\ pending \in 0..Len(queue)
    /\ terminated \in BOOLEAN
    /\ enabled \in BOOLEAN
    /\ hasFocus \in BOOLEAN
    /\ keyBusy \in BOOLEAN
    /\ doc \in Text
    /\ typed \in Nat
    /\ sent \in Text
    /\ dropped \in SUBSET Nat
    /\ orphans \in Seq(Text)
    /\ disturbed \in BOOLEAN

UsesCell(s) == s.op # "insert"
EndsCell(s, c) == s.op = "end" /\ s.cell = c

\* The edit that pending_edit reaches belongs to the current composition: a later
\* key may replace its contents.
PendingIsCurrent ==
    pending # 0 => queue[pending].op = "set" /\ queue[pending].cell = cell

\* A composition handed to an EndComposition session is touched by no session
\* after it, and is not the current one.
NothingAfterEnd ==
    \A i \in DOMAIN queue : queue[i].op = "end" =>
        /\ queue[i].cell # cell
        /\ \A j \in DOMAIN queue : i < j /\ UsesCell(queue[j]) => queue[j].cell # queue[i].cell

\* Between the sessions of two compositions the first one is ended.
EndedBeforeNext ==
    \A i, j \in DOMAIN queue :
        /\ i < j /\ UsesCell(queue[i]) /\ UsesCell(queue[j])
        /\ queue[i].cell # queue[j].cell
        => \E k \in DOMAIN queue : i <= k /\ k < j /\ EndsCell(queue[k], queue[i].cell)

\* Whatever is queued for a composition the service has given up is followed by
\* its end.
GivenUpIsEnded ==
    \A i \in DOMAIN queue : UsesCell(queue[i]) /\ queue[i].cell # cell =>
        \E k \in DOMAIN queue : i <= k /\ EndsCell(queue[k], queue[i].cell)

\* A composition is in the current cell or in that of a queued end.
OwnedOnce ==
    \A c \in Cells : comps[c].state # "none" /\ c # cell =>
        \E k \in DOMAIN queue : EndsCell(queue[k], c)

\* While a composition is live, the sessions of the others wait for its end.
LiveIsFirst ==
    \A c \in Cells : IsLive(c) =>
        \A j \in DOMAIN queue : UsesCell(queue[j]) /\ queue[j].cell # c =>
            \E k \in DOMAIN queue : k < j /\ EndsCell(queue[k], c)

\* The cells hold one live composition at most (end_composition gives the cell away
\* and later edits go to a new one).  What the document has is OneInTheDocument's.
SingleComposition == \A c, d \in Cells : IsLive(c) /\ IsLive(d) => c = d

\* The order of the queued sessions keeps every composition apart from the next.
SessionOrder ==
    /\ PendingIsCurrent
    /\ NothingAfterEnd
    /\ EndedBeforeNext
    /\ GivenUpIsEnded
    /\ OwnedOnce
    /\ LiveIsFirst
    /\ SingleComposition

\* The text of the composition in the document, if there is one.
ShownText ==
    IF \E c \in Cells : IsLive(c) THEN comps[CHOOSE c \in Cells : IsLive(c)].text ELSE <<>>

Increasing(s) == \A i, j \in DOMAIN s : i < j => s[i] < s[j]

\* The document has the characters in the order of the keys, and none twice:
\* "Clear pending edits to avoid double commits".
InTypedOrder == Increasing(doc \o ShownText)

\* When TSF has run everything, the document shows what the editor holds.
Agreement == queue = <<>> /\ ~terminated => ShownText = Preedit(ed)

\* The document has one composition of ours at most, and something refers to it, as
\* long as TSF ends what it is told to end and no deferred termination comes late.
\* on_composition_terminated clears the current cell whatever composition ended, and
\* end_composition gives the only reference away: neither loses one that is live.
OneInTheDocument == ~disturbed => orphans = <<>> /\ SingleComposition

\* A character the user took back (Backspace, or a toggle inside a syllable:
\* "clear pending bopomofo when toggle Chi/Eng mode") is not committed.
DroppedNotCommitted == dropped \cap Chars(doc) = {}

\* A composition the service has given up does not stay in the document, unless TSF
\* refuses to end it.
GivenUpEnds ==
    (\E c \in Cells : IsLive(c) /\ c # cell)
        ~> (((\A c \in Cells : IsLive(c) => c = cell) /\ orphans = <<>>) \/ disturbed)
=============================================================================
