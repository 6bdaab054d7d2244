------------------------ MODULE CandidateList_proofs ------------------------
(***************************************************************************)
(* Proofs about the candidate list, for every dictionary of candidates,    *)
(* every size of pages and rows, and every change of them.                 *)
(***************************************************************************)
EXTENDS CandidateList, TLAPS

\* An editor that offers candidates is at a page that has some.
OnAPage(e) == e.page = 0 \/ e.page * e.per < Len(e.cands)

\* The labels of the list are the selection keys of the configuration.
LabelsAreKeys == ~failed /\ list # NoList /\ ed.on => list.sel = cfg.sel

ListInv ==
    /\ ListTypeOK
    /\ CursorOnItem
    /\ ListShowsThePage
    /\ LabelsAreKeys

-----------------------------------------------------------------------------
\* Without candidates there is no page.
LEMMA NoCandidatesNoPage ==
    ASSUME NEW per \in Nat \ {0}
    PROVE  (0 + per - 1) \div per = 0
BY SMT

\* The states of the editor are well formed, and a page it is at has candidates.
LEMMA EditorStatesType ==
    ASSUME NEW per \in Nat \ {0}, NEW e \in EditorStates(per)
    PROVE  e \in Editors /\ e.per = per /\ OnAPage(e)
<1>1. CASE e = NewEditor(per)
  <2>1. e.cands = <<>> /\ <<>> \in Seq(Candidates)
    BY <1>1 DEF NewEditor
  <2> QED
    BY <1>1, <2>1 DEF NewEditor, Editors, OnAPage
<1>2. CASE e # NewEditor(per)
  <2>1. PICK d \in Dictionary : \E p \in {p \in 0 .. Len(d) : p = 0 \/ p * per < Len(d)} :
           e = [on |-> TRUE, cands |-> d, page |-> p, per |-> per]
    BY <1>2 DEF EditorStates
  <2>2. PICK p \in 0 .. Len(d) : /\ p = 0 \/ p * per < Len(d)
                                /\ e = [on |-> TRUE, cands |-> d, page |-> p, per |-> per]
    BY <2>1
  <2>3. d \in Seq(Candidates) /\ p \in Nat
    BY DictionaryAssumption
  <2> QED
    BY <2>2, <2>3 DEF Editors, OnAPage
<1> QED
  BY <1>1, <1>2

LEMMA PageType ==
    ASSUME NEW e \in Editors, OnAPage(e)
    PROVE  /\ Page(e) \in Seq(Candidates)
           /\ TotalPage(e) > 0 => Len(Page(e)) > 0
<1> DEFINE left == Len(e.cands) - e.page * e.per
           size == IF left < e.per THEN left ELSE e.per
<1>1. e.cands \in Seq(Candidates) /\ e.page \in Nat /\ e.per \in Nat \ {0}
  BY DEF Editors
<1>2. e.page * e.per \in Nat
  BY <1>1, SMT
<1>3. left \in Int /\ left <= Len(e.cands)
  BY <1>1, <1>2
<1>4. Page(e) = SubSeq(e.cands, e.page * e.per + 1, e.page * e.per + size)
  BY DEF Page
<1>5. ASSUME TotalPage(e) > 0 PROVE left > 0
  <2>1. Len(e.cands) # 0
    BY <1>1, <1>5, NoCandidatesNoPage DEF TotalPage
  <2>2. CASE e.page = 0
    BY <1>1, <2>1, <2>2
  <2>3. CASE e.page * e.per < Len(e.cands)
    BY <1>1, <1>2, <2>3
  <2> QED
    BY <2>2, <2>3 DEF OnAPage
<1>6. size \in Int /\ (left > 0 => size > 0) /\ e.page * e.per + size <= Len(e.cands)
  BY <1>1, <1>2, <1>3
<1> DEFINE first == e.page * e.per + 1
           final == e.page * e.per + size
<1>7. first \in Nat \ {0} /\ final \in Int /\ final <= Len(e.cands)
  BY <1>2, <1>6
<1>8. /\ SubSeq(e.cands, first, final) \in Seq(Candidates)
      /\ first <= final => Len(SubSeq(e.cands, first, final)) = final - first + 1
  <2> HIDE DEF first, final
  <2> QED
    BY <1>1, <1>7
<1>9. left > 0 => first <= final /\ final - first + 1 > 0
  BY <1>2, <1>6
<1> HIDE DEF left, size, first, final
<1>10. Page(e) = SubSeq(e.cands, first, final)
  BY <1>4 DEF first, final, left, size
<1> QED
  BY <1>5, <1>8, <1>9, <1>10

-----------------------------------------------------------------------------
(***************************************************************************)
(* The cursor.                                                             *)
(***************************************************************************)

\* Rows of any length, none included: a move ends on an item.
LEMMA MovedOnItem ==
    ASSUME NEW l \in Lists, l.cur \in Places(l.items), NEW move \in Moves
    PROVE  Moved(l, move) \in Places(l.items)
<1>1. l.cur \in Nat /\ l.row \in Nat /\ Len(l.items) \in Nat /\ l.cur < Len(l.items)
  BY DEF Lists, Places
<1>2. MoveUiless(l, move) \in Places(l.items)
  BY <1>1 DEF MoveUiless, Places
<1>3. MoveInRows(l, move) \in Places(l.items)
  <2>1. move \in {"up", "down", "left", "right"}
    BY DEF Moves
  <2>2. CASE move = "up"
    BY <1>1, <2>2 DEF MoveInRows, Places
  <2>3. CASE move = "down"
    BY <1>1, <2>3 DEF MoveInRows, Places
  <2>4. CASE move = "left"
    BY <1>1, <2>4 DEF MoveInRows, Places
  <2>5. CASE move = "right"
    BY <1>1, <2>5 DEF MoveInRows, Places
  <2> QED
    BY <2>1, <2>2, <2>3, <2>4, <2>5
<1> QED
  BY <1>2, <1>3 DEF Moved

-----------------------------------------------------------------------------
(***************************************************************************)
(* The invariant.                                                          *)
(***************************************************************************)

\* update_candidates makes the list a page with its cursor on the first item, or
\* none.
LEMMA UpdateCandidatesKeeps ==
    ASSUME ListInv, NEW e \in EditorStates(ed.per), UpdateCandidates(e),
           UNCHANGED <<cfg, failed>>
    PROVE  ListInv'
<1>1. /\ ListConfig(cfg) /\ failed \in BOOLEAN /\ ed.per \in Nat \ {0}
      /\ list \in Lists \cup {NoList}
  BY DEF ListInv, ListTypeOK, Editors
<1>2. e \in Editors /\ OnAPage(e)
  BY <1>1, EditorStatesType
<1>3. ListConfig(cfg') /\ failed' \in BOOLEAN
  BY <1>1
<1>4. CASE ~e.on /\ ed' = e /\ list' = NoList
  BY <1>2, <1>3, <1>4 DEF ListInv, ListTypeOK, CursorOnItem, ListShowsThePage, LabelsAreKeys
<1>5. CASE e.on /\ ed' = [e EXCEPT !.on = FALSE] /\ list' = NoList
  <2>1. ed' \in Editors
    BY <1>2, <1>5 DEF Editors
  <2> QED
    BY <2>1, <1>3, <1>5 DEF ListInv, ListTypeOK, CursorOnItem, ListShowsThePage, LabelsAreKeys
<1>6. ASSUME e.on, TotalPage(e) > 0, ed' = e, NEW uiless \in BOOLEAN,
             list' = List(Page(e), cfg.row, cfg.sel, uiless)
      PROVE  ListInv'
  <2>1. Page(e) \in Seq(Candidates) /\ Len(Page(e)) > 0
    BY <1>2, <1>6, PageType
  <2>2. /\ list'.items = Page(e) /\ list'.cur = 0 /\ list'.sel = cfg.sel
        /\ list' \in Lists
    BY <1>1, <1>6, <2>1 DEF List, Lists, ListConfig
  <2>3. ListTypeOK' /\ LabelsAreKeys' /\ ListShowsThePage'
    BY <1>2, <1>3, <1>6, <2>2 DEF ListTypeOK, LabelsAreKeys, ListShowsThePage
  <2>4. CursorOnItem'
    BY <2>1, <2>2 DEF CursorOnItem, Places
  <2> QED
    BY <2>3, <2>4 DEF ListInv
<1>7. CASE e.on /\ list = NoList /\ ed' = e /\ UNCHANGED list
  BY <1>2, <1>3, <1>7 DEF ListInv, ListTypeOK, CursorOnItem, ListShowsThePage, LabelsAreKeys
<1>8. ASSUME e.on, TotalPage(e) > 0, ed' = e,
             \E uiless \in IF list = NoList THEN BOOLEAN ELSE {list.uiless} :
                list' = List(Page(e), cfg.row, cfg.sel, uiless)
      PROVE  ListInv'
  <2>1. list # NoList => list.uiless \in BOOLEAN
    BY <1>1 DEF Lists
  <2> QED
    BY <1>6, <1>8, <2>1
<1> QED
  BY <1>4, <1>5, <1>7, <1>8 DEF UpdateCandidates

\* A list that stays while the editor stops selecting.
LEMMA NewEditorKeeps ==
    ASSUME ListInv, NEW per \in Nat \ {0}, ed' = NewEditor(per),
           \/ UNCHANGED list
           \/ list' = NoList,
           ListConfig(cfg'), failed' \in BOOLEAN
    PROVE  ListInv'
<1>1. ed' \in Editors /\ ~ed'.on
  BY DEF Editors, NewEditor
<1> QED
  BY <1>1 DEF ListInv, ListTypeOK, CursorOnItem, ListShowsThePage, LabelsAreKeys

LEMMA ProceedsKeeps ==
    ASSUME ListInv, Proceeds, UNCHANGED <<cfg, failed>>
    PROVE  ListInv'
<1>1. ed.per \in Nat \ {0} /\ ListConfig(cfg) /\ failed \in BOOLEAN
  BY DEF ListInv, ListTypeOK, Editors
<1> QED
  BY <1>1, UpdateCandidatesKeeps, NewEditorKeeps DEF Proceeds

\* What changes none of the variables of the invariant keeps it.
LEMMA StutterKeeps ==
    ASSUME ListInv, UNCHANGED <<cfg, ed, list, failed>>
    PROVE  ListInv'
BY DEF ListInv, ListTypeOK, CursorOnItem, ListShowsThePage, LabelsAreKeys, Page

LEMMA EditorKeyKeeps == ListInv /\ EditorKey => ListInv'
BY ProceedsKeeps, StutterKeeps DEF EditorKey

LEMMA ChooseKeeps ==
    ASSUME ListInv, NEW place, NEW shown, Choose(place, shown)
    PROVE  ListInv'
BY ProceedsKeeps DEF Choose

\* A move of the cursor.
LEMMA ArrowKeyKeeps ==
    ASSUME ListInv, NEW move \in Moves, ArrowKey(move)
    PROVE  ListInv'
<1>1. CASE EditorKey
  BY <1>1, EditorKeyKeeps
<1>2. CASE /\ HasCursor
           /\ list' = [list EXCEPT !.cur = Moved(list, move)]
           /\ UNCHANGED <<cfg, ed, failed, picked>>
  <2>1. list \in Lists /\ list.cur \in Places(list.items)
    BY <1>2 DEF ListInv, ListTypeOK, CursorOnItem, HasCursor
  <2>2. Moved(list, move) \in Places(list.items)
    BY <2>1, MovedOnItem
  <2>3. Moved(list, move) \in Nat
    BY <2>2 DEF Places
  <2>4. /\ list' \in Lists
        /\ list'.items = list.items /\ list'.sel = list.sel /\ list'.cur = Moved(list, move)
    BY <1>2, <2>1, <2>3 DEF Lists
  <2>5. list # NoList
    BY <1>2 DEF HasCursor
  <2>6. CursorOnItem'
    BY <2>2, <2>4 DEF CursorOnItem, Places
  <2> QED
    BY <1>2, <2>4, <2>5, <2>6
    DEF ListInv, ListTypeOK, ListShowsThePage, LabelsAreKeys, Page
<1> QED
  BY <1>1, <1>2 DEF ArrowKey

LEMMA ReturnKeyKeeps == ListInv /\ ReturnKey => ListInv'
BY ChooseKeeps, StutterKeeps, EditorKeyKeeps DEF ReturnKey, listVars

LEMMA UnlearnKeyKeeps == ListInv /\ UnlearnKey => ListInv'
BY UpdateCandidatesKeeps, EditorKeyKeeps DEF UnlearnKey

LEMMA LabelKeyKeeps ==
    ASSUME ListInv, NEW place, LabelKey(place)
    PROVE  ListInv'
BY ChooseKeeps, EditorKeyKeeps DEF LabelKey

LEMMA KillFocusKeeps == ListInv /\ KillFocus => ListInv'
BY DEF ListInv, ListTypeOK, CursorOnItem, ListShowsThePage, LabelsAreKeys, KillFocus

LEMMA TerminatedTailKeeps == ListInv /\ TerminatedTail => ListInv'
<1> SUFFICES ASSUME ListInv, TerminatedTail PROVE ListInv'
  OBVIOUS
<1>1. ed.per \in Nat \ {0} /\ ListConfig(cfg') /\ failed' \in BOOLEAN
  BY DEF ListInv, ListTypeOK, Editors, TerminatedTail
<1> QED
  BY <1>1, NewEditorKeeps DEF TerminatedTail

LEMMA AppShowsKeeps == ListInv /\ AppShows => ListInv'
<1> SUFFICES ASSUME ListInv, AppShows PROVE ListInv'
  OBVIOUS
<1>1. list \in Lists /\ list # NoList
  BY DEF ListInv, ListTypeOK, AppShows
<1>2. /\ list' \in Lists
      /\ list'.items = list.items /\ list'.sel = list.sel /\ list'.cur = list.cur
  BY <1>1 DEF AppShows, Lists
<1> QED
  BY <1>1, <1>2
  DEF ListInv, ListTypeOK, CursorOnItem, ListShowsThePage, LabelsAreKeys, AppShows, Page

\* A failed rebuild leaves an editor of another configuration: labels and keys may
\* differ then, and LabelsAreKeys says nothing.
LEMMA ReconfigureKeeps == ListInv /\ Reconfigure => ListInv'
<1> SUFFICES ASSUME ListInv, Reconfigure PROVE ListInv'
  OBVIOUS
<1>1. CASE ReplaceEditor
  <2>1. cfg'.per \in Nat \ {0} /\ ListConfig(cfg') /\ failed' \in BOOLEAN
    BY <1>1 DEF Reconfigure, ListConfig, ReplaceEditor
  <2> QED
    BY <1>1, <2>1, NewEditorKeeps DEF ReplaceEditor
<1>2. CASE RebuildFails
  BY <1>2
  DEF ListInv, ListTypeOK, CursorOnItem, ListShowsThePage, LabelsAreKeys, RebuildFails,
      Reconfigure, Page
<1> QED
  BY <1>1, <1>2 DEF Reconfigure

-----------------------------------------------------------------------------
(***************************************************************************)
(* The theorems.                                                           *)
(***************************************************************************)
LEMMA InitHolds == ListInit => ListInv
<1> SUFFICES ASSUME ListInit PROVE ListInv
  OBVIOUS
<1>1. PICK per \in Nat \ {0} : ed = NewEditor(per)
  BY DEF ListInit
<1>2. <<>> \in Seq(Candidates)
  OBVIOUS
<1>3. ed \in Editors
  BY <1>1, <1>2 DEF NewEditor, Editors
<1> QED
  BY <1>3 DEF ListInit, ListInv, ListTypeOK, CursorOnItem, ListShowsThePage, LabelsAreKeys

LEMMA NextKeeps == ListInv /\ [ListNext]_listVars => ListInv'
<1> SUFFICES ASSUME ListInv, [ListNext]_listVars PROVE ListInv'
  OBVIOUS
<1>1. CASE KeyStep
  BY <1>1, EditorKeyKeeps, ReturnKeyKeeps, UnlearnKeyKeeps, LabelKeyKeeps, ArrowKeyKeeps
  DEF KeyStep
<1>2. CASE UNCHANGED listVars
  BY <1>2, StutterKeeps DEF listVars
<1> QED
  BY <1>1, <1>2, KillFocusKeeps, TerminatedTailKeeps, AppShowsKeeps, ReconfigureKeeps
  DEF ListNext

\* The list is always of its type, with its cursor on an item, the page of the editor
\* and its labels the keys that choose.
THEOREM Invariance == ListSpec => []ListInv
BY InitHolds, NextKeeps, PTL DEF ListSpec

\* The variables of the list keep their types.
THEOREM TypeCorrect == ListSpec => []ListTypeOK
<1>1. ListInv => ListTypeOK
  BY DEF ListInv
<1> QED
  BY Invariance, <1>1, PTL

\* For pages and rows of every size the cursor is on an item, so that neither
\* current_phrase nor the arrows leave the page.
THEOREM CursorStaysOnItem == ListSpec => []CursorOnItem
<1>1. ListInv => CursorOnItem
  BY DEF ListInv
<1> QED
  BY Invariance, <1>1, PTL

\* A list that is shown while the editor selects is the editor's page.
THEOREM ListIsThePage == ListSpec => []ListShowsThePage
<1>1. ListInv => ListShowsThePage
  BY DEF ListInv
<1> QED
  BY Invariance, <1>1, PTL

\* What the cursor or a label is on is what the editor chooses, unless a rebuild
\* failed.
LEMMA ChoosesWhatIsShown ==
    ASSUME ListInv, ListNext, ~failed, picked' # picked
    PROVE  picked'.cand = picked'.shown
<1>1. ASSUME NEW place, NEW chosen, list # NoList, chosen = place,
             Choose(chosen, list.items[place + 1])
      PROVE  picked'.cand = picked'.shown
  BY <1>1 DEF Choose, CanChoose, ListInv, ListShowsThePage
<1>2. CASE ReturnKey
  BY <1>1, <1>2 DEF ReturnKey, HasCursor, EditorKey, listVars
<1>3. CASE list # NoList /\ \E place \in Places(list.items) : LabelKey(place)
  <2>1. PICK place \in Places(list.items) : LabelKey(place)
    BY <1>3
  <2>2. ~EditorKey
    BY DEF EditorKey
  <2>3. PICK chosen \in MapSelKey(place) : Choose(chosen, list.items[place + 1])
    BY <2>1, <2>2 DEF LabelKey
  <2>4. chosen = place
    BY <1>3, <2>3 DEF MapSelKey, Choose, CanChoose, ListInv, LabelsAreKeys
  <2> QED
    BY <1>1, <1>3, <2>3, <2>4
<1>4. CASE EditorKey \/ UnlearnKey \/ \E move \in Moves : ArrowKey(move)
  BY <1>4 DEF EditorKey, UnlearnKey, ArrowKey
<1>5. CASE KillFocus \/ TerminatedTail \/ AppShows \/ Reconfigure
  BY <1>5 DEF KillFocus, TerminatedTail, AppShows, Reconfigure, ReplaceEditor, RebuildFails
<1> QED
  BY <1>2, <1>3, <1>4, <1>5 DEF ListNext, KeyStep

\* The candidate that is chosen is the one the user saw at that place.
THEOREM ChoiceIsShown == ListSpec => PicksWhatIsShown
<1>1. ListInv /\ [ListNext]_listVars
         => [~failed /\ picked' # picked => picked'.cand = picked'.shown]_listVars
  BY ChoosesWhatIsShown
<1> QED
  BY Invariance, <1>1, PTL DEF ListSpec, PicksWhatIsShown
=============================================================================
