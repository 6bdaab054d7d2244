--------------------------- MODULE CandidateList ---------------------------
(***************************************************************************)
(* The candidate list (tip's ui_elements/candidate_list.rs), the page of   *)
(* candidates of the conversion editor it shows, and the keys that choose  *)
(* from it (on_keydown of tip's chewing.rs).                               *)
(*                                                                         *)
(* The list is a copy: items, labels and a cursor of its own.  The editor  *)
(* is told a place in ITS page, so that the copy must be of that page.     *)
(***************************************************************************)
EXTENDS Integers, Sequences

CONSTANTS
    Candidates,
    Dictionary,     \* the sequences of candidates the editor may offer
    NoList,         \* candidate_list is None
    NothingPicked

ASSUME DictionaryAssumption == Dictionary \subseteq Seq(Candidates)
ASSUME NoListAssumption == NoList \notin [items : Seq(Candidates), cur : Nat, row : Nat,
                                          sel : Nat, uiless : BOOLEAN]

VARIABLES
    cfg,        \* the configuration of the text service; here its per (cand_per_page),
                \* row (cand_per_row), sel (sel_key_type) and cursor (cursor_cand_list)
    ed,         \* chewing_editor: [on, cands, page, per], on when it is selecting
    list,       \* candidate_list
    failed,     \* history: an editor could not be built, and none has been since
    picked      \* history: the last candidate chosen from the list, [cand, shown]

listVars == <<cfg, ed, list, failed, picked>>
-----------------------------------------------------------------------------
(***************************************************************************)
(* The editor: external.                                                   *)
(***************************************************************************)
NewEditor(per) == [on |-> FALSE, cands |-> <<>>, page |-> 0, per |-> per]

TotalPage(e) == (Len(e.cands) + e.per - 1) \div e.per

\* paginated_candidates, truncated to a page.
Page(e) ==
    LET left == Len(e.cands) - e.page * e.per
    IN SubSeq(e.cands, e.page * e.per + 1, e.page * e.per + (IF left < e.per THEN left ELSE e.per))

\* A page is never empty while there are candidates.
EditorStates(per) ==
    {NewEditor(per)} \cup
    UNION {{[on |-> TRUE, cands |-> d, page |-> p, per |-> per] :
               p \in {p \in 0 .. Len(d) : p = 0 \/ p * per < Len(d)}} : d \in Dictionary}

List(items, row, sel, uiless) ==
    [items |-> items, cur |-> 0, row |-> row, sel |-> sel, uiless |-> uiless]
-----------------------------------------------------------------------------
(***************************************************************************)
(* The list after a change of the editor to e: update_candidates.          *)
(***************************************************************************)
\* An application that draws the list itself has it uiless.  BeginUIElement may fail,
\* and then there is none.
UpdateCandidates(e) ==
    \/ ~e.on /\ ed' = e /\ list' = NoList
    \/ e.on /\ TotalPage(e) = 0 /\ ed' = [e EXCEPT !.on = FALSE] /\ list' = NoList
    \/ /\ e.on /\ TotalPage(e) > 0
       /\ ed' = e
       /\ \E uiless \in IF list = NoList THEN BOOLEAN ELSE {list.uiless} :
             list' = List(Page(e), cfg.row, cfg.sel, uiless)
    \/ e.on /\ list = NoList /\ ed' = e /\ UNCHANGED list

\* A configuration with pages: any the preferences write.
ListConfig(c) ==
    c.per \in Nat \ {0} /\ c.row \in Nat /\ c.sel \in Nat /\ c.cursor \in BOOLEAN

\* A text service that could not build an editor has one with the library's options.
ListInit ==
    /\ ListConfig(cfg)
    /\ failed \in BOOLEAN
    /\ ed.per \in Nat \ {0}
    /\ ed = NewEditor(ed.per)
    /\ ~failed => ed.per = cfg.per
    /\ list = NoList
    /\ picked = NothingPicked

\* Places of a list, from 0.
Places(items) == 0 .. Len(items) - 1
-----------------------------------------------------------------------------
(***************************************************************************)
(* Keys.                                                                   *)
(***************************************************************************)

\* What the editor does next is its affair.  Text that is committed while there is no
\* composition is inserted at once, and on_keydown ends before update_candidates.
Proceeds ==
    \/ \E e \in EditorStates(ed.per) : UpdateCandidates(e)
    \/ ed' = NewEditor(ed.per) /\ UNCHANGED list

\* The editor handles a key or ignores it.
EditorKey ==
    /\ Proceeds \/ UNCHANGED <<ed, list>>
    /\ UNCHANGED <<cfg, failed, picked>>

\* The editor chooses a candidate of its page.
CanChoose(place) == ed.on /\ place \in Places(Page(ed))
Choose(place, shown) ==
    /\ CanChoose(place)
    /\ picked' = [cand |-> Page(ed)[place + 1], shown |-> shown]
    /\ Proceeds
    /\ UNCHANGED <<cfg, failed>>

\* map_sel_key makes a label the number key of its place among the selection keys of
\* the configuration; those of another configuration have other places, or none.
MapSelKey(place) == IF list.sel = cfg.sel THEN {place} ELSE Places(Page(ed))

\* A key that labels an item of the list.
LabelKey(place) ==
    \/ \E chosen \in MapSelKey(place) : Choose(chosen, list.items[place + 1])
    \/ ~(list.sel = cfg.sel /\ CanChoose(place)) /\ EditorKey

Moves == {"up", "down", "left", "right"}

\* In a list the application draws there are no rows.
MoveUiless(l, move) ==
    IF move \in {"down", "right"} THEN (IF l.cur + 1 < Len(l.items) THEN l.cur + 1 ELSE l.cur)
    ELSE (IF l.cur > 0 THEN l.cur - 1 ELSE 0)

MoveInRows_PastTheEnd(l, move) ==
    CASE move = "up" -> IF l.cur >= l.row THEN l.cur - l.row ELSE l.cur
      [] move = "down" -> IF l.cur + l.row <= Len(l.items) THEN l.cur + l.row ELSE l.cur
      [] move = "left" -> IF l.row > 1 /\ l.cur > 0 THEN l.cur - 1 ELSE l.cur
      [] move = "right" -> IF l.row > 1 /\ l.cur + 1 < Len(l.items) THEN l.cur + 1 ELSE l.cur

MoveInRows(l, move) ==
    CASE move = "up" -> IF l.cur >= l.row THEN l.cur - l.row ELSE l.cur
      [] move = "down" -> IF l.cur + l.row < Len(l.items) THEN l.cur + l.row ELSE l.cur
      [] move = "left" -> IF l.row > 1 /\ l.cur > 0 THEN l.cur - 1 ELSE l.cur
      [] move = "right" -> IF l.row > 1 /\ l.cur + 1 < Len(l.items) THEN l.cur + 1 ELSE l.cur

Moved(l, move) == IF l.uiless THEN MoveUiless(l, move) ELSE MoveInRows(l, move)

HasCursor == list # NoList /\ cfg.cursor

\* filter_key_event, an arrow: a move that does not change the place goes on to the
\* editor.
ArrowKey(move) ==
    \/ /\ HasCursor /\ Moved(list, move) # list.cur
       /\ list' = [list EXCEPT !.cur = Moved(list, move)]
       /\ UNCHANGED <<cfg, ed, failed, picked>>
    \/ ~(HasCursor /\ Moved(list, move) # list.cur) /\ EditorKey

\* Return chooses the place of the cursor; an editor that is not selecting refuses,
\* and the handler ends there.
ReturnKey_NextItem ==
    \/ HasCursor /\ Choose(list.cur + 1, list.items[list.cur + 1])
    \/ HasCursor /\ ~CanChoose(list.cur) /\ UNCHANGED listVars
    \/ ~HasCursor /\ EditorKey

ReturnKey ==
    \/ HasCursor /\ Choose(list.cur, list.items[list.cur + 1])
    \/ HasCursor /\ ~CanChoose(list.cur) /\ UNCHANGED listVars
    \/ ~HasCursor /\ EditorKey

\* "selecting_unlearn_phrase": the editor offers what is left of the candidates.
UnlearnKey_NoUpdate ==
    \/ /\ HasCursor /\ ed.on
       /\ \E e \in EditorStates(ed.per) : e.on /\ ed' = e
       /\ UNCHANGED <<cfg, list, failed, picked>>
    \/ EditorKey

UnlearnKey ==
    \/ /\ HasCursor /\ ed.on
       /\ \E e \in EditorStates(ed.per) : e.on /\ UpdateCandidates(e)
       /\ UNCHANGED <<cfg, failed, picked>>
    \/ EditorKey
-----------------------------------------------------------------------------
(***************************************************************************)
(* What is not a key.                                                      *)
(***************************************************************************)

\* on_kill_focus hides the list; the editor goes on selecting.
KillFocus ==
    /\ list' = NoList
    /\ UNCHANGED <<cfg, ed, failed, picked>>

\* on_composition_terminated_tail
TerminatedTail ==
    /\ list' = NoList
    /\ ed' = NewEditor(ed.per)
    /\ UNCHANGED <<cfg, failed, picked>>

\* ITfUIElement::Show: the application takes the drawing over, or gives it back.
AppShows ==
    /\ list # NoList
    /\ list' = [list EXCEPT !.uiless = ~@]
    /\ UNCHANGED <<cfg, ed, failed, picked>>

\* apply_runtime_config: a new editor, and the list stays; or the editor cannot be
\* built and the old one goes on under the new configuration.
ReplaceEditor == ed' = NewEditor(cfg'.per) /\ failed' = FALSE /\ UNCHANGED <<list, picked>>
RebuildFails == failed' = TRUE /\ UNCHANGED <<ed, list, picked>>

Reconfigure == ListConfig(cfg') /\ (ReplaceEditor \/ RebuildFails)

KeyStep ==
    \/ EditorKey \/ ReturnKey \/ UnlearnKey
    \/ list # NoList /\ \E place \in Places(list.items) : LabelKey(place)
    \/ \E move \in Moves : ArrowKey(move)

ListNext == KeyStep \/ KillFocus \/ TerminatedTail \/ AppShows \/ Reconfigure

ListSpec == ListInit /\ [][ListNext]_listVars
-----------------------------------------------------------------------------
(***************************************************************************)
(* Properties.                                                             *)
(***************************************************************************)
Lists == [items : Seq(Candidates), cur : Nat, row : Nat, sel : Nat, uiless : BOOLEAN]
Editors == [on : BOOLEAN, cands : Seq(Candidates), page : Nat, per : Nat \ {0}]

\* Every variable of the list has its type.
ListTypeOK ==
    /\ ListConfig(cfg)
    /\ ed \in Editors
    /\ list \in Lists \cup {NoList}
    /\ failed \in BOOLEAN

\* The cursor is on an item: current_phrase indexes items with it, and the arrows
\* subtract one from their number.
CursorOnItem == list # NoList => list.cur \in Places(list.items)

\* While the editor is selecting, the list is the page it will choose from, whatever
\* replaced the editor or ignored a key since.
ListShowsThePage == list # NoList /\ ed.on => list.items = Page(ed)

\* The candidate that is chosen is the one the user saw there, and the keys that
\* choose are those the list was labelled with: unless a rebuild failed.
PicksWhatIsShown ==
    [][~failed /\ picked' # picked => picked'.cand = picked'.shown]_listVars
=============================================================================
