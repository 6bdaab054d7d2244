--------------------------- MODULE Settings_proofs ---------------------------
(***************************************************************************)
(* Proofs about the settings, for every world: what a text service makes   *)
(* of keys and of changed settings is a behaviour of CandidateList, what   *)
(* it and the preferences do to the registry one of UpdateCheck; readings  *)
(* catch up; both copies of on_test_keydown answer alike; what was saved   *)
(* is read as it was written, and a binding that was saved works.          *)
(***************************************************************************)
EXTENDS Settings, CandidateList_proofs, UpdateCheck_proofs, FlattenTheorems

\* What from_reg reads, and save_reg writes, is a configuration of a list.
ListFields == {"per", "row", "sel", "cursor"}
ListValue(f, v) ==
    CASE f = "per" -> v \in Nat \ {0}
      [] f \in {"row", "sel"} -> v \in Nat
      [] f = "cursor" -> v \in BOOLEAN

RegInv == \A f \in ListFields : reg[f] = Absent \/ ListValue(f, reg[f])

SaveInv == saving.turn \in Nat /\ (saving.next # 0 => saving.turn # 0)

ReadingInv == "part" \in DOMAIN reading /\ ListConfig(reading.part)

SettingsInv ==
    /\ world \in Worlds
    /\ RegInv
    /\ SaveInv
    /\ ListConfig(cfg)
    /\ ReadingInv

-----------------------------------------------------------------------------
LEMMA ConfigIsList ==
    ASSUME NEW c, \A f \in ListFields : ListValue(f, c[f])
    PROVE  ListConfig(c)
BY DEF ListConfig, ListFields, ListValue

LEMMA ListOfConfig ==
    ASSUME NEW c \in Config
    PROVE  /\ ListConfig(c)
           /\ \A f \in ListFields : ListValue(f, c[f])
           /\ c.channel \in Channels
BY DEF Config, ListConfig, ListFields, ListValue

LEMMA ListFieldsKept == ListFields \subseteq Fields /\ ListFields \subseteq OnlySaved
BY DEF ListFields, Fields, OnlySaved, ReadOrder

\* What is read of a value of the list is a value of the list.
LEMMA ValueOfList ==
    ASSUME RegInv, NEW f \in ListFields
    PROVE  ListValue(f, Value(f))
<1>1. f \in Fields /\ f \notin {"channel", "url", "last", "keybind"}
  BY ListFieldsKept DEF ListFields
<1>2. Registry[f] = reg[f]
  BY <1>1 DEF Registry
<1>3. Value(f) = IF reg[f] = Absent THEN Defaults[f] ELSE reg[f]
  BY <1>1, <1>2 DEF Value
<1>4. ListValue(f, Defaults[f])
  BY DefaultsAssumption, ListOfConfig
<1> QED
  BY <1>3, <1>4 DEF RegInv

LEMMA LoadedIsList ==
    ASSUME RegInv
    PROVE  ListConfig(Loaded)
<1>1. \A f \in ListFields : Loaded[f] = Value(f)
  BY ListFieldsKept DEF Loaded
<1>2. \A f \in ListFields : ListValue(f, Loaded[f])
  BY <1>1, ValueOfList
<1> QED
  BY <1>2, ConfigIsList

\* The values of a configuration that is written.
LEMMA SavesType ==
    ASSUME SettingsInv, SaveReg
    PROVE  \E c \in Config : \E batch :
              /\ Write(c, batch)
              /\ saving'.turn \in Nat /\ saving'.turn # 0
<1> DEFINE turn == IF saving.next = 0 THEN saving.turn + 1 ELSE saving.turn
           next == IF saving.next = 0 THEN 1 ELSE saving.next
<1>1. /\ turn <= Len(world.saves)
      /\ Write(world.saves[turn], Batch(SaveOrder, next))
      /\ saving'.turn = turn
  BY DEF SaveReg
<1>2. world.saves \in Seq(Config)
  BY WorldsAssumption DEF SettingsInv
<1>3. turn \in Nat /\ turn # 0
  BY DEF SettingsInv, SaveInv
<1> HIDE DEF turn, next
<1>4. turn \in 1 .. Len(world.saves)
  BY <1>1, <1>2, <1>3
<1>5. world.saves[turn] \in Config
  BY <1>2, <1>4
<1> QED
  BY <1>1, <1>3, <1>5

LEMMA SaveRegKeeps ==
    ASSUME SettingsInv, SaveReg
    PROVE  SettingsInv'
<1>1. PICK c \in Config : \E batch : /\ Write(c, batch)
                                     /\ saving'.turn \in Nat /\ saving'.turn # 0
  BY SavesType
<1>2. PICK batch : Write(c, batch)
  BY <1>1
<1>3. \A f \in ListFields : reg'[f] = IF f \in batch THEN c[f] ELSE reg[f]
  BY <1>2, ListFieldsKept DEF Write, Stored, ListFields
<1>4. RegInv'
  BY <1>3, ListOfConfig DEF SettingsInv, RegInv
<1>5. SaveInv'
  BY <1>1 DEF SaveInv
<1>6. UNCHANGED <<world, cfg, reading>>
  BY DEF SaveReg, readVars, listVars
<1> QED
  BY <1>4, <1>5, <1>6 DEF SettingsInv, ReadingInv, ListConfig

\* A value that is read is put into the part that was read before.
LEMMA ReadValuesKeeps ==
    ASSUME SettingsInv, ReadValues
    PROVE  SettingsInv'
<1>1. PICK batch, pc, next : reading' = [reading EXCEPT
             !.part = [f \in Fields |-> IF f \in batch THEN Value(f) ELSE @[f]],
             !.pc = pc, !.next = next]
  BY DEF ReadValues
<1>2. /\ "part" \in DOMAIN reading'
      /\ reading'.part = [f \in Fields |-> IF f \in batch THEN Value(f) ELSE reading.part[f]]
  BY <1>1 DEF SettingsInv, ReadingInv
<1>3. \A f \in ListFields : ListValue(f, reading.part[f])
  BY DEF SettingsInv, ReadingInv, ListConfig, ListFields, ListValue
<1>4. \A f \in ListFields : ListValue(f, reading'.part[f])
  BY <1>2, <1>3, ListFieldsKept, ValueOfList DEF SettingsInv
<1>5. ReadingInv'
  BY <1>2, <1>4, ConfigIsList DEF ReadingInv
<1>6. UNCHANGED <<world, reg, saving, cfg>>
  BY DEF ReadValues, regVars, listVars
<1> QED
  BY <1>5, <1>6 DEF SettingsInv, RegInv, SaveInv, ListConfig

\* The rest of the service does not write the registry.
LEMMA OthersKeep ==
    ASSUME SettingsInv, UNCHANGED <<world, regVars>>, ListConfig(cfg'), ReadingInv'
    PROVE  SettingsInv'
BY DEF SettingsInv, RegInv, SaveInv, regVars

LEMMA IdleIsList ==
    /\ "part" \in DOMAIN Idle /\ ListConfig(Idle.part)
    /\ \A pc, for, before :
          /\ "part" \in DOMAIN [Idle EXCEPT !.pc = pc, !.before = before]
          /\ [Idle EXCEPT !.pc = pc, !.before = before].part = Idle.part
          /\ "part" \in DOMAIN [Idle EXCEPT !.pc = pc, !.for = for, !.before = before]
          /\ [Idle EXCEPT !.pc = pc, !.for = for, !.before = before].part = Idle.part
BY DefaultsAssumption, ListOfConfig DEF Idle

LEMMA BeginReadingKeeps ==
    ASSUME SettingsInv, BeginReading
    PROVE  SettingsInv'
<1>1. PICK for : reading' = [Idle EXCEPT !.pc = "reading", !.for = for, !.before = cfg.flags]
  BY DEF BeginReading
<1>2. ReadingInv'
  BY <1>1, IdleIsList DEF ReadingInv
<1>3. ListConfig(cfg')
  BY DEF BeginReading, listVars, SettingsInv
<1> QED
  BY <1>2, <1>3, OthersKeep DEF BeginReading

LEMMA ReadingFailsKeeps ==
    ASSUME SettingsInv, ReadingFails
    PROVE  SettingsInv'
<1>1. /\ reading' = [reading EXCEPT !.pc = "read", !.part = cfg]
      /\ UNCHANGED <<world, regVars, cfg>>
  BY DEF ReadingFails, listVars
<1>2. ReadingInv'
  BY <1>1 DEF SettingsInv, ReadingInv
<1> QED
  BY <1>1, <1>2, OthersKeep DEF SettingsInv

\* What is taken into use is what was read.
LEMMA UseReadingKeeps ==
    ASSUME SettingsInv, UseReading
    PROVE  SettingsInv'
<1>1. cfg' = cfg \/ cfg' = reading.part
  BY DEF UseReading, ApplyRuntimeConfig, listVars
<1>2. ListConfig(cfg')
  BY <1>1 DEF SettingsInv, ReadingInv
<1>3. ReadingInv'
  BY IdleIsList DEF UseReading, ReadingInv
<1> QED
  BY <1>2, <1>3, OthersKeep DEF UseReading
-----------------------------------------------------------------------------
(***************************************************************************)
(* The list.                                                               *)
(***************************************************************************)

\* A key of the service is a key of the list, or none of its business.
LEMMA PassKeyIsKeyStep ==
    ASSUME NEW ev, PassKey(ev)
    PROVE  KeyStep
<1>1. \/ EditorKey \/ ReturnKey \/ UnlearnKey
      \/ list # NoList /\ \E place \in Places(list.items) : LabelKey(place)
      \/ ev.sym \in Moves /\ ArrowKey(ev.sym)
  BY DEF PassKey
<1> QED
  BY <1>1 DEF KeyStep

LEMMA OnKeydownIsKeyStep ==
    ASSUME NEW ev, OnKeydown(ev)
    PROVE  KeyStep \/ UNCHANGED listVars
<1>1. \/ PassKey(ev) \/ UNCHANGED listVars \/ EditorKey
  BY DEF OnKeydown
<1> QED
  BY <1>1, PassKeyIsKeyStep DEF KeyStep

LEMMA HandleKeyFacts ==
    ASSUME NEW ev, HandleKey(ev)
    PROVE  /\ OnKeydown(ev) \/ UNCHANGED <<tipVars, listVars>>
           /\ reading' = Idle
           /\ UNCHANGED <<world, regVars, checkVars>>
BY DEF HandleKey

\* No key, and nothing that hides the list, changes the configuration.
LEMMA ListStepKeepsConfig ==
    KeyStep \/ KillFocus \/ TerminatedTail \/ AppShows => UNCHANGED <<cfg, failed>>
BY DEF KeyStep, EditorKey, ReturnKey, UnlearnKey, LabelKey, ArrowKey, Choose,
       KillFocus, TerminatedTail, AppShows, listVars

LEMMA HandleKeyKeeps ==
    ASSUME SettingsInv, NEW ev, HandleKey(ev)
    PROVE  SettingsInv'
<1>1. cfg' = cfg
  BY HandleKeyFacts, OnKeydownIsKeyStep, ListStepKeepsConfig DEF listVars
<1>2. ReadingInv'
  BY HandleKeyFacts, IdleIsList DEF ReadingInv
<1> QED
  BY <1>1, <1>2, HandleKeyFacts, OthersKeep DEF SettingsInv

LEMMA EventsKeep ==
    ASSUME SettingsInv, OnCommand \/ ListEvent \/ CheckEvent \/ UNCHANGED vars
    PROVE  SettingsInv'
<1>1. UNCHANGED <<world, regVars, reading>>
  BY DEF OnCommand, ListEvent, CheckEvent, vars, readVars
<1>2. cfg' = cfg
  BY ListStepKeepsConfig DEF OnCommand, ListEvent, CheckEvent, vars, listVars
<1> QED
  BY <1>1, <1>2, OthersKeep DEF SettingsInv, ReadingInv

LEMMA SettingsInit == Init => SettingsInv
<1> SUFFICES ASSUME Init PROVE SettingsInv
  OBVIOUS
<1>1. world \in Worlds /\ world.start \in Start
  BY WorldsAssumption DEF Init
<1>2. \A f \in ListFields : reg[f] = world.start[f]
  BY ListFieldsKept DEF Init
<1>3. RegInv
  BY <1>1, <1>2 DEF RegInv, Start, ListFields, ListValue
<1>4. ListConfig(cfg)
  BY <1>3, LoadedIsList, DefaultsAssumption, ListOfConfig DEF Init
<1> QED
  BY <1>1, <1>3, <1>4, IdleIsList DEF Init, SettingsInv, SaveInv, ReadingInv

LEMMA SettingsNext == SettingsInv /\ [Next]_vars => SettingsInv'
<1> SUFFICES ASSUME SettingsInv, [Next]_vars PROVE SettingsInv'
  OBVIOUS
<1> QED
  BY SaveRegKeeps, BeginReadingKeeps, ReadValuesKeeps, ReadingFailsKeeps, UseReadingKeeps,
     HandleKeyKeeps, EventsKeep DEF Next

\* What a text service reads, has and is about to use has pages and rows.
THEOREM SettingsInvariance == Spec => []SettingsInv
BY SettingsInit, SettingsNext, PTL DEF Spec

-----------------------------------------------------------------------------
(***************************************************************************)
(* Every step of the settings is a step of the list, or none.              *)
(***************************************************************************)
LEMMA InitIsListInit == Init => ListInit
<1> SUFFICES ASSUME Init PROVE ListInit
  OBVIOUS
<1>1. ListConfig(cfg)
  BY SettingsInit DEF SettingsInv
<1>2. failed \in BOOLEAN /\ ed = NewEditor(IF failed THEN Defaults.per ELSE cfg.per)
  BY DEF Init
<1>3. Defaults.per \in Nat \ {0}
  BY DefaultsAssumption, ListOfConfig DEF ListConfig
<1>4. ed.per = IF failed THEN Defaults.per ELSE cfg.per
  BY <1>2 DEF NewEditor
<1> QED
  BY <1>1, <1>2, <1>3, <1>4 DEF Init, ListInit, ListConfig

LEMMA UseReadingIsReconfigure ==
    ASSUME SettingsInv, UseReading
    PROVE  Reconfigure \/ UNCHANGED listVars
<1>1. CASE UNCHANGED listVars
  BY <1>1
<1>2. CASE ApplyRuntimeConfig(reading.part)
  BY <1>2 DEF ApplyRuntimeConfig, Reconfigure, SettingsInv, ReadingInv
<1> QED
  BY <1>1, <1>2 DEF UseReading

LEMMA NextIsListNext == SettingsInv /\ [Next]_vars => [ListNext]_listVars
<1> SUFFICES ASSUME SettingsInv, [Next]_vars PROVE ListNext \/ UNCHANGED listVars
  OBVIOUS
<1>1. CASE SaveReg \/ BeginReading \/ ReadValues \/ ReadingFails \/ OnCommand \/ CheckEvent
  BY <1>1 DEF SaveReg, BeginReading, ReadValues, ReadingFails, OnCommand, CheckEvent
<1>2. CASE UseReading
  BY <1>2, UseReadingIsReconfigure DEF ListNext
<1>3. ASSUME NEW ev, HandleKey(ev) PROVE ListNext \/ UNCHANGED listVars
  BY <1>3, HandleKeyFacts, OnKeydownIsKeyStep DEF ListNext
<1>4. CASE ListEvent
  BY <1>4 DEF ListEvent, ListNext
<1>5. CASE UNCHANGED vars
  BY <1>5 DEF vars
<1> QED
  BY <1>1, <1>2, <1>3, <1>4, <1>5 DEF Next

\* A text service that follows the registry uses its list as CandidateList says: it is
\* reconfigured at any time between two keys, and only to configurations with pages.
THEOREM ListIsImplemented == Spec => ListSpec
<1>1. Init => ListInit
  BY InitIsListInit
<1>2. SettingsInv /\ [Next]_vars => [ListNext]_listVars
  BY NextIsListNext
<1> QED
  BY <1>1, <1>2, SettingsInvariance, PTL DEF Spec, ListSpec

\* Whatever is written to the registry between two keys, the cursor is on an item.
THEOREM SettingsLeaveTheCursor == Spec => []CursorOnItem
BY ListIsImplemented, CursorStaysOnItem, PTL

\* Whatever is written to the registry between two keys, a list that is shown while
\* the editor is selecting is its page.
THEOREM SettingsLeaveThePage == Spec => []ListShowsThePage
BY ListIsImplemented, ListIsThePage, PTL

\* A candidate is never another than the one that was shown, though the selection keys
\* and the page change under the list: unless a rebuild failed.
THEOREM SettingsLeaveTheChoice == Spec => PicksWhatIsShown
BY ListIsImplemented, ChoiceIsShown, PTL
-----------------------------------------------------------------------------
(***************************************************************************)
(* Every step of the settings is a step of the check for updates, or none. *)
(***************************************************************************)
LEMMA InitIsCheckInit == Init => CheckInit
<1> SUFFICES ASSUME Init PROVE CheckInit
  OBVIOUS
<1>1. /\ world.start \in Start
      /\ world.clock \in 0 .. MaxClock /\ world.dll \in Installable
      /\ world.published \in ReleaseLists
  BY WorldsAssumption DEF Init
<1> QED
  BY <1>1 DEF Init, CheckInit, Start

LEMMA SaveRegIsSetChannel ==
    ASSUME SettingsInv, SaveReg
    PROVE  (\E ch \in Channels : SetChannel(ch)) \/ UNCHANGED checkVars
<1>1. PICK c \in Config : \E batch : Write(c, batch)
  BY SavesType
<1>2. SetChannel(c.channel) \/ UNCHANGED checkVars
  BY <1>1 DEF Write
<1> QED
  BY <1>2, ListOfConfig

LEMMA NextIsCheckNext == SettingsInv /\ [Next]_vars => [CheckNext]_checkVars
<1> SUFFICES ASSUME SettingsInv, [Next]_vars PROVE CheckNext \/ UNCHANGED checkVars
  OBVIOUS
<1>1. CASE SaveReg
  BY <1>1, SaveRegIsSetChannel DEF CheckNext
<1>2. CASE BeginReading \/ ReadValues \/ ReadingFails \/ UseReading \/ OnCommand \/ ListEvent
  BY <1>2 DEF BeginReading, ReadValues, ReadingFails, UseReading, OnCommand, ListEvent
<1>3. ASSUME NEW ev, HandleKey(ev) PROVE UNCHANGED checkVars
  BY <1>3, HandleKeyFacts
<1>4. CASE CheckEvent
  <2>1. world.clients \subseteq Clients
    BY WorldsAssumption DEF SettingsInv
  <2> QED
    BY <1>4, <2>1 DEF CheckEvent, CheckNext
<1>5. CASE UNCHANGED vars
  BY <1>5 DEF vars
<1> QED
  BY <1>1, <1>2, <1>3, <1>4, <1>5 DEF Next

\* The preferences and the text service touch what the checks use only as UpdateCheck
\* says: a channel is chosen, and nothing else of theirs is written.
THEOREM CheckIsImplemented == Spec => CheckSpec
<1>1. Init => CheckInit
  BY InitIsCheckInit
<1>2. SettingsInv /\ [Next]_vars => [CheckNext]_checkVars
  BY NextIsCheckNext
<1> QED
  BY <1>1, <1>2, SettingsInvariance, PTL DEF Spec, CheckSpec
-----------------------------------------------------------------------------
(***************************************************************************)
(* The configuration that is in use.                                       *)
(***************************************************************************)
FollowsInv == FollowsConfig /\ opts = [full |-> opts.full, syl |-> opts.syl]

\* Whatever happens to the list, the editor keeps the size of its pages.
LEMMA ProceedsKeepsPer ==
    ASSUME ListInv, Proceeds
    PROVE  ed'.per = ed.per
<1>1. ed.per \in Nat \ {0}
  BY DEF ListInv, ListTypeOK, Editors
<1>2. NewEditor(ed.per).per = ed.per
  BY DEF NewEditor
<1>3. ASSUME NEW e \in EditorStates(ed.per), UpdateCandidates(e) PROVE ed'.per = ed.per
  <2>1. e \in Editors /\ e.per = ed.per
    BY <1>1, EditorStatesType
  <2>2. [e EXCEPT !.on = FALSE].per = ed.per
    BY <2>1 DEF Editors
  <2> QED
    BY <1>3, <2>1, <2>2 DEF UpdateCandidates
<1> QED
  BY <1>2, <1>3 DEF Proceeds

LEMMA ListStepKeepsPer ==
    ASSUME ListInv, KeyStep \/ KillFocus \/ TerminatedTail \/ AppShows
    PROVE  ed'.per = ed.per
<1>1. ed.per \in Nat \ {0}
  BY DEF ListInv, ListTypeOK, Editors
<1>2. Proceeds \/ UNCHANGED ed => ed'.per = ed.per
  BY ProceedsKeepsPer
<1>3. EditorKey => ed'.per = ed.per
  BY <1>2 DEF EditorKey
<1>4. \A place, shown : Choose(place, shown) => ed'.per = ed.per
  BY <1>2 DEF Choose
<1>5. UnlearnKey => ed'.per = ed.per
  <2>1. ASSUME NEW e \in EditorStates(ed.per), UpdateCandidates(e) PROVE ed'.per = ed.per
    BY <2>1, ProceedsKeepsPer DEF Proceeds
  <2> QED
    BY <1>3, <2>1 DEF UnlearnKey
<1>6. ReturnKey => ed'.per = ed.per
  BY <1>3, <1>4 DEF ReturnKey, listVars
<1>7. \A place : LabelKey(place) => ed'.per = ed.per
  BY <1>3, <1>4 DEF LabelKey
<1>8. \A move : ArrowKey(move) => ed'.per = ed.per
  BY <1>3 DEF ArrowKey
<1>9. KillFocus \/ TerminatedTail \/ AppShows => ed'.per = ed.per
  BY DEF KillFocus, TerminatedTail, AppShows, NewEditor
<1> QED
  BY <1>3, <1>5, <1>6, <1>7, <1>8, <1>9 DEF KeyStep

\* A toggle changes what it says it changes, and notes what no longer follows.
LEMMA TogglesKeep ==
    ASSUME FollowsInv, UNCHANGED <<cfg, failed>>, ed'.per = ed.per,
           \/ ToggleSimpChinese \/ ToggleShapeMode \/ ToggleHsuKeyboard \/ ToggleLangMode
           \/ UNCHANGED tipVars
           \/ \E ev : EditorToggles(ev)
    PROVE  FollowsInv'
<1> USE DEF FollowsInv, FollowsConfig
<1>1. CASE ToggleSimpChinese
  BY <1>1 DEF ToggleSimpChinese
<1>2. CASE ToggleShapeMode
  BY <1>2 DEF ToggleShapeMode
<1>3. CASE ToggleHsuKeyboard
  BY <1>3 DEF ToggleHsuKeyboard
<1>4. CASE ToggleLangMode
  BY <1>4 DEF ToggleLangMode
<1>5. CASE UNCHANGED tipVars
  BY <1>5 DEF tipVars
<1>6. CASE \E ev : EditorToggles(ev)
  BY <1>5, <1>6 DEF EditorToggles
<1> QED
  BY <1>1, <1>2, <1>3, <1>4, <1>5, <1>6

LEMMA HandleKeyFollows ==
    ASSUME ListInv, FollowsInv, NEW ev, HandleKey(ev)
    PROVE  FollowsInv'
<1>1. CASE UNCHANGED <<tipVars, listVars>>
  BY <1>1, TogglesKeep DEF listVars
<1>2. CASE OnKeydown(ev)
  <2>1. UNCHANGED <<cfg, failed>> /\ ed'.per = ed.per
    BY <1>2, OnKeydownIsKeyStep, ListStepKeepsConfig, ListStepKeepsPer DEF listVars
  <2>2. \/ ToggleSimpChinese \/ ToggleHsuKeyboard \/ UNCHANGED tipVars \/ EditorToggles(ev)
    BY <1>2 DEF OnKeydown, PassKey
  <2> QED
    BY <2>1, <2>2, TogglesKeep
<1> QED
  BY <1>1, <1>2, HandleKeyFacts

\* What is applied is applied wholly, or the editor could not be built.
LEMMA UseReadingFollows ==
    ASSUME FollowsInv, UseReading
    PROVE  FollowsInv'
<1>1. CASE UNCHANGED <<tipVars, listVars>>
  BY <1>1, TogglesKeep DEF listVars
<1>2. CASE ApplyRuntimeConfig(reading.part) /\ UNCHANGED <<simp, lang>>
  <2>1. CASE ReplaceEditor /\ UsesNewOptions(reading.part)
    BY <1>2, <2>1 DEF FollowsInv, FollowsConfig, ApplyRuntimeConfig, ReplaceEditor,
       UsesNewOptions, NewEditor, LangIcon
  <2>2. CASE RebuildFails /\ UNCHANGED opts
    BY <2>2 DEF FollowsInv, FollowsConfig, RebuildFails
  <2> QED
    BY <1>2, <2>1, <2>2 DEF ApplyRuntimeConfig
<1> QED
  BY <1>1, <1>2 DEF UseReading

LEMMA InitFollows == Init => FollowsInv
<1> SUFFICES ASSUME Init PROVE FollowsInv
  OBVIOUS
<1>1. opts = [full |-> opts.full, syl |-> opts.syl]
  BY DEF Init
<1>2. ASSUME ~failed PROVE FollowsConfig
  BY <1>2 DEF Init, FollowsConfig, NewEditor
<1> QED
  BY <1>1, <1>2 DEF FollowsInv, FollowsConfig

LEMMA NextFollows == ListInv /\ FollowsInv /\ [Next]_vars => FollowsInv'
<1> SUFFICES ASSUME ListInv, FollowsInv, [Next]_vars PROVE FollowsInv'
  OBVIOUS
<1>1. CASE SaveReg \/ BeginReading \/ ReadValues \/ ReadingFails \/ CheckEvent \/ UNCHANGED vars
  <2>1. UNCHANGED <<tipVars, listVars>>
    BY <1>1 DEF SaveReg, BeginReading, ReadValues, ReadingFails, CheckEvent, vars
  <2> QED
    BY <2>1, TogglesKeep DEF listVars
<1>2. CASE OnCommand
  BY <1>2, TogglesKeep DEF OnCommand, listVars
<1>3. CASE ListEvent
  BY <1>3, TogglesKeep, ListStepKeepsConfig, ListStepKeepsPer DEF ListEvent
<1> QED
  BY <1>1, <1>2, <1>3, UseReadingFollows, HandleKeyFollows DEF Next

\* Editor, keyboard, bindings and icon follow the configuration through every change of
\* it and every toggle, however the changes fall between the keys.
THEOREM OptionsFollow == Spec => []FollowsConfig
<1>1. FollowsInv => FollowsConfig
  BY DEF FollowsInv
<1>2. Spec => []ListInv
  BY ListIsImplemented, Invariance, PTL
<1> QED
  BY <1>1, <1>2, InitFollows, NextFollows, PTL DEF Spec
-----------------------------------------------------------------------------
(***************************************************************************)
(* What is read while it is written.                                       *)
(***************************************************************************)

\* While the registry is as it was when this reading began, what has been read so far
\* is what it holds; while it is as it was when the last one began, so is what is in
\* use.
PartIsRead ==
    reading.pc = "reading" /\ ~unread =>
        \A i \in DOMAIN ReadOrder : i < reading.next =>
            reading.part[ReadOrder[i]] = Value(ReadOrder[i])

AllIsRead == reading.pc = "read" /\ ~unread => reading.part = Loaded

InUseIsRead == ~unread /\ (~late \/ reading.pc \in {"ready", "idle"}) => cfg = Loaded

CatchUpInv ==
    /\ reading = [pc |-> reading.pc, for |-> reading.for, next |-> reading.next,
                  part |-> reading.part, before |-> reading.before]
    /\ reading.pc \in {"idle", "reading", "read", "ready"}
    /\ reading.pc = "reading" => reading.next \in DOMAIN ReadOrder
    /\ rebuilt \in BOOLEAN /\ late \in BOOLEAN /\ unread \in BOOLEAN
    /\ PartIsRead /\ AllIsRead /\ InUseIsRead
    /\ rebuilt => reading.pc = "ready" /\ (late \/ unread)

\* What from_reg reads depends on the registry alone.
LEMMA ValueOfRegistry ==
    ASSUME Registry' = Registry
    PROVE  /\ \A f : Value(f)' = Value(f)
           /\ Loaded' = Loaded
<1>1. \A f : Value(f)' = Value(f)
  BY DEF Value
<1> QED
  BY <1>1 DEF Loaded

LEMMA RegistryKept ==
    ASSUME UNCHANGED <<regVars, checkVars>>
    PROVE  Registry' = Registry
BY DEF regVars, checkVars, Registry

\* As many numbers as there are, one of them is the least.
LEMMA SmallestOfSome ==
    ASSUME NEW S \in SUBSET Nat, S # {}
    PROVE  \E i \in S : \A j \in S : i <= j
<1> DEFINE Less == {ss \in Nat \X Nat : ss[1] < ss[2]}
<1>1. IsWellFoundedOn(Less, Nat)
  BY NatLessThanWellFounded DEF OpToRel
<1>2. PICK i \in S : \A j \in S : ~(<<j, i>> \in Less)
  BY <1>1, WFMin
<1>3. ASSUME NEW j \in S PROVE i <= j
  <2>1. ~(<<j, i>> \in Less) /\ i \in Nat /\ j \in Nat
    BY <1>2
  <2> QED
    BY <2>1
<1> QED
  BY <1>3

LEMMA LargestOfSome ==
    ASSUME NEW n \in Nat, NEW S \in SUBSET (0..n), S # {}
    PROVE  \E i \in S : \A j \in S : j <= i
<1> DEFINE R == {n - i : i \in S}
<1>0. \A i \in S : i \in Nat /\ n - i \in Nat
  OBVIOUS
<1>1. R \in SUBSET Nat /\ R # {}
  BY <1>0
<1> HIDE DEF R
<1>2. PICK r \in R : \A j \in R : r <= j
  BY <1>1, SmallestOfSome
<1>3. PICK i \in S : r = n - i
  BY DEF R
<1>4. ASSUME NEW j \in S PROVE j <= i
  <2>1. r <= n - j
    BY <1>2 DEF R
  <2> QED
    BY <1>3, <2>1
<1> QED
  BY <1>4

\* The place of the last value of a batch.
LEMMA PlaceType ==
    ASSUME NEW order, Len(order) \in Nat, NEW next \in 1..Len(order)
    PROVE  Upto(order, next) \in next..Len(order)
<1> DEFINE ends == {i \in next..Len(order) : order[i] \in Stops \/ i = Len(order)}
<1>1. ends \subseteq Nat /\ Len(order) \in ends
  OBVIOUS
<1>2. ends \subseteq next..Len(order)
  OBVIOUS
<1>3. Upto(order, next) = CHOOSE i \in ends : \A j \in ends : i <= j
  BY DEF Upto
<1> HIDE DEF ends
<1>4. \E i \in ends : \A j \in ends : i <= j
  BY <1>1, SmallestOfSome
<1>5. (CHOOSE i \in ends : \A j \in ends : i <= j) \in ends
  BY <1>4
<1> QED
  BY <1>2, <1>3, <1>5

LEMMA UptoType ==
    ASSUME NEW next \in DOMAIN ReadOrder
    PROVE  Upto(ReadOrder, next) \in next .. Len(ReadOrder)
<1>1. Len(ReadOrder) = 13 /\ DOMAIN ReadOrder = 1 .. 13
  BY DEF ReadOrder
<1>2. Len(ReadOrder) \in Nat /\ next \in 1 .. Len(ReadOrder)
  BY <1>1
<1> QED
  BY <1>2, PlaceType

\* Steps of others: whatever they write is noticed.
LEMMA NoticedKeeps ==
    ASSUME CatchUpInv, UNCHANGED <<readVars, cfg>>, Noticed
    PROVE  CatchUpInv'
<1> USE DEF CatchUpInv, readVars
<1>1. unread' \in BOOLEAN
  BY DEF Noticed
<1>2. ASSUME ~unread' PROVE ~unread /\ Registry' = Registry
  BY <1>2 DEF Noticed
<1>3. PartIsRead' /\ AllIsRead' /\ InUseIsRead'
  BY <1>2, ValueOfRegistry DEF PartIsRead, AllIsRead, InUseIsRead
<1>4. rebuilt' => reading'.pc = "ready" /\ (late' \/ unread')
  BY DEF Noticed
<1> QED
  BY <1>1, <1>3, <1>4

LEMMA BeginReadingCatchesUp ==
    ASSUME CatchUpInv, BeginReading
    PROVE  CatchUpInv'
<1>1. PICK for : reading' = [Idle EXCEPT !.pc = "reading", !.for = for, !.before = cfg.flags]
  BY DEF BeginReading
<1>2. reading' = [pc |-> "reading", for |-> for, next |-> 1, part |-> Defaults,
                  before |-> cfg.flags]
  BY <1>1 DEF Idle
<1>3. /\ reading.pc = "idle" /\ late' = unread /\ unread' = FALSE
      /\ UNCHANGED <<regVars, checkVars, rebuilt, cfg>>
  BY DEF BeginReading, listVars
<1>4. Loaded' = Loaded
  BY <1>3, RegistryKept, ValueOfRegistry
<1>5. PartIsRead'
  BY <1>2 DEF PartIsRead, ReadOrder
<1>6. AllIsRead' /\ InUseIsRead'
  BY <1>2, <1>3, <1>4 DEF AllIsRead, InUseIsRead, CatchUpInv
<1>7. 1 \in DOMAIN ReadOrder
  BY DEF ReadOrder
<1> QED
  BY <1>2, <1>3, <1>5, <1>6, <1>7 DEF CatchUpInv

LEMMA ReadValuesCatchesUp ==
    ASSUME CatchUpInv, ReadValues
    PROVE  CatchUpInv'
<1> DEFINE batch == Batch(ReadOrder, reading.next)
           end == Upto(ReadOrder, reading.next)
<1>1. /\ reading.pc = "reading" /\ reading.next \in DOMAIN ReadOrder
      /\ UNCHANGED <<unread, late, rebuilt, cfg>>
      /\ UNCHANGED <<regVars, checkVars>>
  BY DEF ReadValues, CatchUpInv, listVars
<1>2. reading' = [reading EXCEPT
             !.part = [f \in Fields |-> IF f \in batch THEN Value(f) ELSE reading.part[f]],
             !.pc = IF end = Len(ReadOrder) THEN "read" ELSE "reading",
             !.next = end + 1]
  BY DEF ReadValues, CatchUpInv
<1>3. end \in reading.next .. Len(ReadOrder)
  BY <1>1, UptoType
<1>4. batch = {ReadOrder[i] : i \in reading.next .. end}
  BY DEF Batch
<1>5. Len(ReadOrder) = 13 /\ DOMAIN ReadOrder = 1 .. 13
  BY DEF ReadOrder
<1>6. Loaded' = Loaded /\ \A f : Value(f)' = Value(f)
  BY <1>1, RegistryKept, ValueOfRegistry
<1> HIDE DEF batch, end
<1>7. reading' = [pc |-> IF end = Len(ReadOrder) THEN "read" ELSE "reading", for |-> reading.for,
                  next |-> end + 1,
                  part |-> [f \in Fields |-> IF f \in batch THEN Value(f) ELSE reading.part[f]],
                  before |-> reading.before]
  BY <1>2 DEF CatchUpInv
<1>8. ASSUME ~unread, NEW i \in DOMAIN ReadOrder, i < end + 1
      PROVE  reading'.part[ReadOrder[i]] = Value(ReadOrder[i])
  <2>1. ReadOrder[i] \in Fields
    BY DEF Fields
  <2>2. CASE i < reading.next
    BY <1>1, <1>7, <1>8, <2>1, <2>2 DEF CatchUpInv, PartIsRead
  <2>3. CASE i \in reading.next .. end
    BY <1>4, <1>7, <2>1, <2>3
  <2> QED
    BY <1>1, <1>3, <1>5, <1>8, <2>2, <2>3
<1>9. PartIsRead'
  BY <1>1, <1>6, <1>7, <1>8 DEF PartIsRead
<1>10. AllIsRead'
  <2>1. ASSUME end = Len(ReadOrder), ~unread PROVE reading'.part = Loaded
    <3>1. \A f \in Fields : reading'.part[f] = Value(f)
      BY <1>3, <1>5, <1>8, <2>1 DEF Fields
    <3>2. reading'.part = [f \in Fields |-> reading'.part[f]]
      BY <1>7
    <3> QED
      BY <3>1, <3>2 DEF Loaded
  <2>2. reading'.pc = "read" => end = Len(ReadOrder)
    BY <1>7
  <2> QED
    BY <1>1, <1>6, <2>1, <2>2 DEF AllIsRead
<1>11. InUseIsRead'
  <2>1. reading'.pc \notin {"ready", "idle"}
    BY <1>7
  <2>2. ~unread /\ ~late => cfg = Loaded
    BY DEF CatchUpInv, InUseIsRead
  <2> QED
    BY <1>1, <1>6, <2>1, <2>2 DEF InUseIsRead
<1>12. reading'.pc = "reading" => reading'.next \in DOMAIN ReadOrder
  <2>1. reading'.pc = "reading" => end # Len(ReadOrder)
    BY <1>7
  <2>2. reading'.next = end + 1
    BY <1>7
  <2> QED
    BY <1>1, <1>3, <1>5, <2>1, <2>2
<1> QED
  BY <1>1, <1>7, <1>9, <1>10, <1>11, <1>12 DEF CatchUpInv

LEMMA ReadingFailsCatchesUp ==
    ASSUME CatchUpInv, ReadingFails
    PROVE  CatchUpInv'
<1>1. /\ reading.pc = "reading" /\ unread' = (unread \/ late)
      /\ UNCHANGED <<late, rebuilt, cfg>>
      /\ UNCHANGED <<regVars, checkVars>>
      /\ reading' = [reading EXCEPT !.pc = "read", !.part = cfg]
  BY DEF ReadingFails, listVars
<1>2. reading' = [pc |-> "read", for |-> reading.for, next |-> reading.next, part |-> cfg,
                  before |-> reading.before]
  BY <1>1 DEF CatchUpInv
<1>3. Loaded' = Loaded
  BY <1>1, RegistryKept, ValueOfRegistry
<1>4. unread' \in BOOLEAN /\ PartIsRead' /\ AllIsRead' /\ InUseIsRead'
  BY <1>1, <1>2, <1>3 DEF CatchUpInv, PartIsRead, AllIsRead, InUseIsRead
<1> QED
  BY <1>1, <1>2, <1>4 DEF CatchUpInv

\* What differs from what was in use came with a change of the registry.
LEMMA UseReadingCatchesUp ==
    ASSUME CatchUpInv, UseReading
    PROVE  CatchUpInv'
<1>1. /\ reading.pc = "read" /\ UNCHANGED <<unread, late>>
      /\ UNCHANGED <<regVars, checkVars>>
  BY DEF UseReading
<1>2. /\ cfg' = reading.part
      /\ rebuilt' = rebuilt \/ (rebuilt' \in BOOLEAN
                                /\ (rebuilt' => reading.for = "key" /\ reading.part # cfg))
  BY DEF UseReading, Differs, ApplyRuntimeConfig, listVars
<1>3. Loaded' = Loaded
  BY <1>1, RegistryKept, ValueOfRegistry
<1>4. /\ reading' = [pc |-> reading'.pc, for |-> "key", next |-> 1, part |-> Defaults,
                     before |-> reading'.before]
      /\ reading'.pc = IF reading.for = "key" THEN "ready" ELSE "idle"
  BY DEF UseReading, Idle
<1>5. InUseIsRead'
  BY <1>1, <1>2, <1>3 DEF CatchUpInv, AllIsRead, InUseIsRead
<1>6. PartIsRead' /\ AllIsRead'
  BY <1>4 DEF PartIsRead, AllIsRead
<1>7. rebuilt' => reading'.pc = "ready" /\ (late' \/ unread')
  BY <1>1, <1>2, <1>4 DEF CatchUpInv, AllIsRead, InUseIsRead
<1>8. rebuilt' \in BOOLEAN
  BY <1>2 DEF CatchUpInv
<1>9. reading'.for = "key" /\ reading'.next = 1 /\ reading'.part = Defaults
  BY <1>4
<1>10. reading' = [pc |-> reading'.pc, for |-> reading'.for, next |-> reading'.next,
                   part |-> reading'.part, before |-> reading'.before]
  BY <1>4, <1>9
<1> QED
  BY <1>1, <1>4, <1>5, <1>6, <1>7, <1>8, <1>10 DEF CatchUpInv

LEMMA HandleKeyCatchesUp ==
    ASSUME CatchUpInv, NEW ev, HandleKey(ev)
    PROVE  CatchUpInv'
<1>1. /\ reading.pc = "ready" /\ reading' = Idle /\ rebuilt' = FALSE /\ late' = FALSE
      /\ UNCHANGED unread
      /\ UNCHANGED <<regVars, checkVars>>
  BY DEF HandleKey
<1>2. cfg' = cfg
  BY HandleKeyFacts, OnKeydownIsKeyStep, ListStepKeepsConfig DEF listVars
<1>3. Loaded' = Loaded
  BY <1>1, RegistryKept, ValueOfRegistry
<1> QED
  BY <1>1, <1>2, <1>3 DEF CatchUpInv, PartIsRead, AllIsRead, InUseIsRead, Idle

LEMMA OthersCatchUp ==
    ASSUME CatchUpInv, OnCommand \/ ListEvent \/ UNCHANGED vars
    PROVE  CatchUpInv'
<1>1. UNCHANGED <<readVars, unread>> /\ UNCHANGED <<regVars, checkVars>>
  BY DEF OnCommand, ListEvent, vars
<1>2. cfg' = cfg
  BY ListStepKeepsConfig DEF OnCommand, ListEvent, vars, listVars
<1>3. Noticed
  BY <1>1, RegistryKept DEF Noticed, CatchUpInv
<1> QED
  BY <1>1, <1>2, <1>3, NoticedKeeps

LEMMA InitCatchesUp == Init => CatchUpInv
<1> SUFFICES ASSUME Init PROVE CatchUpInv
  OBVIOUS
<1>1. unread \in BOOLEAN /\ (~unread => cfg = Loaded)
  BY DEF Init
<1> QED
  BY <1>1 DEF Init, CatchUpInv, PartIsRead, AllIsRead, InUseIsRead, Idle

LEMMA NextCatchesUp == CatchUpInv /\ [Next]_vars => CatchUpInv'
<1> SUFFICES ASSUME CatchUpInv, [Next]_vars PROVE CatchUpInv'
  OBVIOUS
<1>1. CASE SaveReg \/ CheckEvent
  <2>1. UNCHANGED <<readVars, cfg>> /\ Noticed
    BY <1>1 DEF SaveReg, CheckEvent, listVars
  <2> QED
    BY <2>1, NoticedKeeps
<1> QED
  BY <1>1, BeginReadingCatchesUp, ReadValuesCatchesUp, ReadingFailsCatchesUp,
     UseReadingCatchesUp, HandleKeyCatchesUp, OthersCatchUp DEF Next

\* When nothing was written since the last complete reading began, what is in use is
\* the registry's, however the values were written while earlier readings took them.
THEOREM ReadingsCatchUp == Spec => []CaughtUp
<1>1. CatchUpInv => CaughtUp
  BY DEF CatchUpInv, CaughtUp, InUseIsRead
<1> QED
  BY <1>1, InitCatchesUp, NextCatchesUp, PTL DEF Spec

\* A key replaces the editor only when the registry was written to.
THEOREM TypedIsKept == Spec => []KeptUnlessWritten
<1>1. CatchUpInv => KeptUnlessWritten
  BY DEF CatchUpInv, KeptUnlessWritten
<1> QED
  BY <1>1, InitCatchesUp, NextCatchesUp, PTL DEF Spec
-----------------------------------------------------------------------------
(***************************************************************************)
(* The two copies of on_test_keydown.                                      *)
(***************************************************************************)

\* The first of the early returns whose condition holds gives the host's answer.
LEMMA FirstRuleAnswers ==
    ASSUME NEW s, NEW ev, NEW k \in 1 .. 13,
           HostRules(s, ev)[k].condition,
           \A j \in 1 .. 13 : j < k => ~HostRules(s, ev)[j].condition
    PROVE  HostWants(s, ev) = HostRules(s, ev)[k].answer
<1> DEFINE rules == HostRules(s, ev)
           holds == {i \in DOMAIN rules : rules[i].condition}
<1>1. DOMAIN rules = 1 .. 13
  BY DEF HostRules
<1>2. HostWants(s, ev) = rules[CHOOSE i \in holds : \A j \in holds : i <= j].answer
  BY DEF HostWants
<1> HIDE DEF rules
<1>3. k \in holds /\ \A j \in holds : k <= j
  BY <1>1 DEF rules
<1>4. \A i \in holds : (\A j \in holds : i <= j) => i = k
  BY <1>1, <1>3
<1>5. (CHOOSE i \in holds : \A j \in holds : i <= j) = k
  BY <1>3, <1>4
<1> QED
  BY <1>2, <1>5 DEF rules

\* The conditions and answers of the early returns.
LEMMA ConditionsOfRules ==
    ASSUME NEW s, NEW ev
    PROVE  LET r == HostRules(s, ev)
               shift == "shift" \in ev.mods
               ctrl == "ctrl" \in ev.mods
           IN /\ r[1].condition <=> s.disabled
              /\ r[2].condition <=>
                    ev.sym = "Shift_L" /\ "switch_lang_with_shift" \in s.flags /\ s.shift_up
              /\ r[3].condition <=> \E i \in DOMAIN s.bindings : Matches(s.bindings[i], ev)
              /\ r[4].condition <=> ev.sym = "CapsLock" /\ "enable_caps_lock" \notin s.flags
              /\ r[5].condition <=> ~s.mutable
              /\ r[6].condition <=> "alt" \in ev.mods
              /\ r[7].condition <=> ctrl /\ s.composing /\ ev.sym \in Digits
              /\ r[8].condition <=> ctrl
              /\ r[9].condition <=> CaseConversion(s, ev)
              /\ r[10].condition <=> ~s.composing /\ PureEnglish(s)
              /\ r[11].condition <=> ~s.composing /\ ev.sym = "Space" /\ ~s.full /\ ~shift
              /\ r[12].condition <=> ~s.composing /\ ev.sym \notin Printable
              /\ r[13].condition
BY DEF HostRules, Rule, CaseConversion, PureEnglish

LEMMA AnswersOfRules ==
    ASSUME NEW s, NEW ev
    PROVE  LET r == HostRules(s, ev)
           IN /\ ~r[1].answer /\ ~r[2].answer /\ r[3].answer /\ ~r[4].answer
              /\ ~r[5].answer /\ ~r[6].answer /\ r[7].answer
              /\ r[8].answer <=>
                    "shift" \in ev.mods /\ "easy_symbols_with_shift_ctrl" \in s.flags
              /\ r[9].answer
              /\ r[10].answer <=>
                    ev.sym = "Space" /\ "shift" \in ev.mods
                    /\ "enable_fullwidth_toggle_key" \in s.flags
              /\ ~r[11].answer /\ ~r[12].answer /\ r[13].answer
BY DEF HostRules, Rule

LEMMA AnswersAreBoolean ==
    ASSUME NEW s, NEW ev
    PROVE  LET r == HostRules(s, ev)
           IN /\ r[1].answer \in BOOLEAN /\ r[2].answer \in BOOLEAN /\ r[3].answer \in BOOLEAN
              /\ r[4].answer \in BOOLEAN /\ r[5].answer \in BOOLEAN /\ r[6].answer \in BOOLEAN
              /\ r[7].answer \in BOOLEAN /\ r[8].answer \in BOOLEAN /\ r[9].answer \in BOOLEAN
              /\ r[10].answer \in BOOLEAN /\ r[11].answer \in BOOLEAN
              /\ r[12].answer \in BOOLEAN /\ r[13].answer \in BOOLEAN
BY DEF HostRules, Rule

LEMMA EqualIfEquivalent ==
    ASSUME NEW a \in BOOLEAN, NEW b \in BOOLEAN, a <=> b
    PROVE  a = b
OBVIOUS

\* The two copies answer alike, where the setting they look up at different times is
\* the same.
LEMMA CopiesAgree ==
    ASSUME NEW s, NEW ev,
           ("switch_lang_with_shift" \in s.before) <=> ("switch_lang_with_shift" \in s.flags)
    PROVE  TipWants(s, ev) = HostWants(s, ev)
<1> DEFINE r == HostRules(s, ev)
           First ==
               IF r[1].condition THEN r[1].answer ELSE IF r[2].condition THEN r[2].answer ELSE
               IF r[3].condition THEN r[3].answer ELSE IF r[4].condition THEN r[4].answer ELSE
               IF r[5].condition THEN r[5].answer ELSE IF r[6].condition THEN r[6].answer ELSE
               IF r[7].condition THEN r[7].answer ELSE IF r[8].condition THEN r[8].answer ELSE
               IF r[9].condition THEN r[9].answer ELSE IF r[10].condition THEN r[10].answer ELSE
               IF r[11].condition THEN r[11].answer ELSE IF r[12].condition THEN r[12].answer ELSE
               r[13].answer
<1>1. \A k \in 1 .. 13 : r[k].condition /\ (\A j \in 1 .. 13 : j < k => ~r[j].condition)
                            => HostWants(s, ev) = r[k].answer
  BY FirstRuleAnswers
<1>2. r[13].condition
  BY ConditionsOfRules
<1> HIDE DEF r
<1>3. HostWants(s, ev) = First
  BY <1>1, <1>2
<1>4. HostWants(s, ev) <=> First
  BY <1>3
<1>5. TipWants(s, ev) \in BOOLEAN /\ HostWants(s, ev) \in BOOLEAN
  BY <1>3, AnswersAreBoolean DEF r, TipWants
<1>6. TipWants(s, ev) <=> HostWants(s, ev)
  BY <1>4, ConditionsOfRules, AnswersOfRules DEF r, TipWants, ControlKey, PlainKey, Matching
<1> QED
  BY <1>5, <1>6, EqualIfEquivalent

LEMMA NextAgrees == agreed /\ [Next]_vars => agreed'
<1> SUFFICES ASSUME agreed, [Next]_vars PROVE agreed'
  OBVIOUS
<1>1. ASSUME NEW ev, HandleKey(ev) PROVE agreed'
  <2>1. PICK s : agreed' = (("switch_lang_with_shift" \in s.before)
                               = ("switch_lang_with_shift" \in s.flags)
                                => TipWants(s, ev) = HostWants(s, ev))
    BY <1>1 DEF HandleKey
  <2> QED
    BY <2>1, CopiesAgree
<1>2. CASE ~\E ev : HandleKey(ev)
  BY <1>2 DEF Next, SaveReg, BeginReading, ReadValues, ReadingFails, UseReading, OnCommand,
     ListEvent, CheckEvent, vars
<1> QED
  BY <1>1, <1>2

\* Tip and host answer every key alike, under every setting and every list of bindings,
\* unless this very key brought another switch_lang_with_shift.
THEOREM CopiesAnswerAlike == Spec => []HostAgrees
<1>1. Init => agreed
  BY DEF Init
<1> QED
  BY <1>1, NextAgrees, PTL DEF Spec, HostAgrees
-----------------------------------------------------------------------------
\* What a value from_reg reads may be; a configuration is one of each.
IsValue(f, v) ==
    /\ f = "layout" => v \in Layouts
    /\ f \in {"row", "sel", "stamp", "last"} => v \in Nat
    /\ f = "per" => v \in Nat \ {0}
    /\ f \in {"full", "simp", "cursor"} => v \in BOOLEAN
    /\ f = "flags" => v \in SUBSET Flags
    /\ f = "channel" => v \in Channels
    /\ f = "url" => v \in Urls \cup {Absent}
    /\ f = "keybind" => v \in Seq(BindingValue)

LEMMA ConfigHasFields ==
    ASSUME NEW c \in Config
    PROVE  /\ DOMAIN c = Fields
           /\ \A f \in Fields : IsValue(f, c[f])
           /\ c = [f \in Fields |-> c[f]]
<1>1. Fields = {"layout", "row", "full", "simp", "sel", "per", "cursor", "flags",
                "channel", "url", "last", "stamp", "keybind"}
  BY DEF Fields, ReadOrder
<1>2. DOMAIN c = Fields
  BY <1>1 DEF Config
<1>3. \A f \in Fields : IsValue(f, c[f])
  BY <1>1 DEF Config, IsValue
<1>4. c = [f \in Fields |-> c[f]]
  BY <1>2 DEF Config
<1> QED
  BY <1>2, <1>3, <1>4

LEMMA ConfigOfFields ==
    ASSUME NEW c, c = [f \in Fields |-> c[f]], \A f \in Fields : IsValue(f, c[f])
    PROVE  c \in Config
<1>1. Fields = {"layout", "row", "full", "simp", "sel", "per", "cursor", "flags",
                "channel", "url", "last", "stamp", "keybind"}
  BY DEF Fields, ReadOrder
<1>2. /\ c.layout \in Layouts /\ c.row \in Nat /\ c.full \in BOOLEAN /\ c.simp \in BOOLEAN
      /\ c.sel \in Nat /\ c.per \in Nat \ {0} /\ c.cursor \in BOOLEAN
      /\ c.flags \in SUBSET Flags /\ c.channel \in Channels
      /\ c.url \in Urls \cup {Absent} /\ c.last \in Nat /\ c.stamp \in Nat
      /\ c.keybind \in Seq(BindingValue)
  BY <1>1 DEF IsValue
<1>3. c = [layout |-> c.layout, row |-> c.row, full |-> c.full, simp |-> c.simp, sel |-> c.sel,
           per |-> c.per, cursor |-> c.cursor, flags |-> c.flags, channel |-> c.channel,
           url |-> c.url, last |-> c.last, stamp |-> c.stamp, keybind |-> c.keybind]
  BY <1>1
<1> QED
  BY <1>2, <1>3 DEF Config

\* What FromStr makes of a text: a binding or nothing.

\* rsplit_once: the place is that of a separator, and none is behind it.
LEMMA LastOfFacts ==
    ASSUME NEW text \in Seq(Words), NEW separator
    PROVE  /\ LastOf(text, separator) \in 0..Len(text)
           /\ LastOf(text, separator) # 0 => text[LastOf(text, separator)] = separator
           /\ \A j \in 1..Len(text) : text[j] = separator => j <= LastOf(text, separator)
<1> DEFINE places == {0} \cup {i \in DOMAIN text : text[i] = separator}
<1>1. places \in SUBSET (0..Len(text)) /\ places # {} /\ Len(text) \in Nat
  OBVIOUS
<1>2. \A i \in places : i # 0 => text[i] = separator
  OBVIOUS
<1>3. \A j \in 1..Len(text) : text[j] = separator => j \in places
  OBVIOUS
<1>4. LastOf(text, separator) = CHOOSE i \in places : \A j \in places : j <= i
  BY DEF LastOf
<1> HIDE DEF places
<1>5. \E i \in places : \A j \in places : j <= i
  BY <1>1, LargestOfSome
<1>6. LastOf(text, separator) \in places /\ \A j \in places : j <= LastOf(text, separator)
  BY <1>4, <1>5
<1> QED
  BY <1>1, <1>2, <1>3, <1>6

LEMMA PartsType ==
    ASSUME NEW text \in Seq(Words), NEW place \in 0..Len(text)
    PROVE  /\ place # 0 => SubSeq(text, 1, place - 1) \in Seq(Words)
           /\ SubSeq(text, place + 1, Len(text)) \in Seq(Words)
OBVIOUS

LEMMA FromStrType ==
    ASSUME NEW text \in Seq(Words)
    PROVE  FromStr(text) \in Seq(BindingValue)
<1> DEFINE equals == LastOf(text, "=")
           rest == SubSeq(text, equals + 1, Len(text))
           colon == LastOf(rest, ":")
           key == SubSeq(text, 1, equals - 1)
           action == IF colon = 0 THEN rest ELSE SubSeq(rest, 1, colon - 1)
           param == IF colon = 0 THEN <<>> ELSE SubSeq(rest, colon + 1, Len(rest))
<1>1. equals \in 0..Len(text) /\ Len(text) \in Nat
  BY LastOfFacts
<1>2. FromStr(text) = IF equals = 0 THEN <<>> ELSE <<[key |-> key, action |-> action, param |-> param]>>
  BY DEF FromStr
<1>3. rest \in Seq(Words)
  <2> HIDE DEF equals
  <2> QED
    BY <1>1, PartsType
<1>4. colon \in 0..Len(rest)
  <2> HIDE DEF rest
  <2> QED
    BY <1>3, LastOfFacts
<1>5. equals # 0 => key \in Seq(Words)
  <2> HIDE DEF equals
  <2> QED
    BY <1>1, PartsType
<1>6. action \in Seq(Words) /\ param \in Seq(Words)
  <2> HIDE DEF rest, colon
  <2>1. colon # 0 => /\ SubSeq(rest, 1, colon - 1) \in Seq(Words)
                     /\ SubSeq(rest, colon + 1, Len(rest)) \in Seq(Words)
    BY <1>3, <1>4, PartsType
  <2>2. action \in Seq(Words)
    BY <1>3, <2>1
  <2>3. param \in Seq(Words)
    <3>1. CASE colon = 0
      <4>1. param = <<>>
        BY <3>1
      <4> HIDE DEF param
      <4> QED
        BY <4>1
    <3>2. CASE colon # 0
      BY <2>1, <3>2, Zenon
    <3> QED
      BY <3>1, <3>2
  <2> QED
    BY <2>2, <2>3
<1> HIDE DEF equals, key, action, param
<1>7. equals # 0 => [key |-> key, action |-> action, param |-> param] \in BindingValue
  BY <1>5, <1>6 DEF BindingValue
<1>8. \A b \in BindingValue : <<b>> \in Seq(BindingValue)
  OBVIOUS
<1> QED
  BY <1>2, <1>7, <1>8
-----------------------------------------------------------------------------
\* word is not in s.
Without(s, word) == \A i \in 1..Len(s) : s[i] # word

LEMMA WellFormedIsPlain ==
    ASSUME NEW b \in BindingValue, WellFormed(b)
    PROVE  /\ Without(b.action, "=") /\ Without(b.param, "=") /\ Without(b.param, ":")
           /\ b.param = <<>> => Without(b.action, ":")
<1>1. b.action \in Seq(Words) /\ b.param \in Seq(Words)
  BY DEF BindingValue
<1>2. \A s \in Seq(Words) : \A w \in {"=", ":"} : w \notin ToSet(s) => Without(s, w)
  BY SMTT(30) DEF Without, ToSet
<1> QED
  BY <1>1, <1>2 DEF WellFormed

\* Nothing to split.
LEMMA LastOfNone ==
    ASSUME NEW text \in Seq(Words), NEW separator,
           \A j \in 1..Len(text) : text[j] # separator
    PROVE  LastOf(text, separator) = 0
<1>1. Len(text) \in Nat
  OBVIOUS
<1> QED
  BY <1>1, LastOfFacts

\* e is between x and y.
Divides(text, x, e, y) == text = x \o (<<e>> \o y)

\* Where a separator with only other words behind it divides a text.
LEMMA Divided ==
    ASSUME NEW x \in Seq(Words), NEW y \in Seq(Words), NEW separator \in Words,
           \A j \in 1..Len(y) : y[j] # separator,
           NEW text, Divides(text, x, separator, y)
    PROVE  /\ text \in Seq(Words)
           /\ LastOf(text, separator) # 0
           /\ SubSeq(text, 1, LastOf(text, separator) - 1) = x
           /\ SubSeq(text, LastOf(text, separator) + 1, Len(text)) = y
<1>a. PICK z : z = <<separator>> \o y
  OBVIOUS
<1>b. /\ z \in Seq(Words) /\ Len(z) = 1 + Len(y) /\ z[1] = separator
      /\ \A j \in 1..Len(y) : z[1 + j] = y[j]
  BY <1>a, Prefixed
<1>c. /\ text \in Seq(Words) /\ Len(text) = Len(x) + Len(z)
      /\ \A j \in 1..Len(x) : text[j] = x[j]
      /\ \A j \in 1..Len(z) : text[Len(x) + j] = z[j]
  <2>1. Joins(text, x, z)
    BY <1>a DEF Divides, Joins
  <2> QED
    BY <1>b, <2>1, Joined
<1>d. Len(x) \in Nat /\ Len(y) \in Nat
  OBVIOUS
<1>1. /\ text \in Seq(Words) /\ Len(text) = Len(x) + 1 + Len(y)
      /\ Len(x) \in Nat /\ Len(y) \in Nat
  BY <1>b, <1>c, <1>d
<1>2. text[Len(x) + 1] = separator
  BY <1>b, <1>c, <1>d
<1>3. \A j \in 1..Len(x) : text[j] = x[j]
  BY <1>c
<1>4. \A j \in 1..Len(y) : text[Len(x) + 1 + j] = y[j]
  <2> SUFFICES ASSUME NEW j \in 1..Len(y)
               PROVE  text[Len(x) + 1 + j] = y[j]
    OBVIOUS
  <2>1. 1 + j \in 1..Len(z) /\ Len(x) + (1 + j) = Len(x) + 1 + j
    BY <1>b, <1>d
  <2>2. text[Len(x) + (1 + j)] = z[1 + j]
    BY <1>b, <1>c, <2>1
  <2> QED
    BY <1>b, <2>1, <2>2
<1>5. LastOf(text, separator) = Len(x) + 1
  <2> DEFINE last1 == LastOf(text, separator)
  <2>1. /\ last1 \in 0..Len(text)
        /\ last1 # 0 => text[last1] = separator
        /\ \A j \in 1..Len(text) : text[j] = separator => j <= last1
    BY <1>1, LastOfFacts
  <2> HIDE DEF last1
  <2>2. Len(x) + 1 <= last1
    <3>1. Len(x) + 1 \in 1..Len(text)
      BY <1>1
    <3> QED
      BY <1>2, <2>1, <3>1
  <2>3. ASSUME last1 > Len(x) + 1
        PROVE  FALSE
    <3>1. PICK j \in 1..Len(y) : last1 = Len(x) + 1 + j
      <4>1. last1 - Len(x) - 1 \in 1..Len(y) /\ last1 = Len(x) + 1 + (last1 - Len(x) - 1)
        BY <1>1, <2>1, <2>3
      <4> QED
        BY <4>1
    <3>2. text[last1] = y[j]
      BY <1>4, <3>1
    <3>3. last1 # 0 /\ y[j] # separator
      BY <1>1, <2>3
    <3> QED
      BY <2>1, <3>2, <3>3
  <2>4. last1 = Len(x) + 1
    BY <1>1, <2>1, <2>2, <2>3
  <2> QED
    BY <2>4 DEF last1
<1>6. SubSeq(text, 1, Len(x)) = x
  <2>1. /\ SubSeq(text, 1, Len(x)) \in Seq(Words)
        /\ Len(SubSeq(text, 1, Len(x))) = Len(x)
        /\ \A j \in 1..Len(x) : SubSeq(text, 1, Len(x))[j] = text[j]
    BY <1>1
  <2> QED
    BY <1>3, <2>1, SeqEqual
<1>7. SubSeq(text, Len(x) + 2, Len(text)) = y
  <2>1. /\ SubSeq(text, Len(x) + 2, Len(text)) \in Seq(Words)
        /\ Len(SubSeq(text, Len(x) + 2, Len(text))) = Len(y)
        /\ \A j \in 1..Len(y) : SubSeq(text, Len(x) + 2, Len(text))[j] = text[Len(x) + 1 + j]
    BY <1>1
  <2> QED
    BY <1>4, <2>1, SeqEqual
<1>8. (Len(x) + 1) - 1 = Len(x) /\ (Len(x) + 1) + 1 = Len(x) + 2 /\ Len(x) + 1 # 0
  BY <1>1
<1> QED
  BY <1>1, <1>5, <1>6, <1>7, <1>8

\* The first separator is where the key ends.
LEMMA ShownIsDivided ==
    ASSUME NEW key \in Seq(Words), NEW action \in Seq(Words), NEW rest \in Seq(Words)
    PROVE  ((key \o <<"=">>) \o action) \o rest = key \o (<<"=">> \o (action \o rest))
<1>1. PICK one \in Seq(Words) : one = <<"=">>
  <2>1. <<"=">> \in Seq(Words)
    BY WordsAssumption
  <2> QED
    BY <2>1
<1>2. key \o one \in Seq(Words) /\ action \o rest \in Seq(Words)
  BY <1>1
<1>3. ((key \o one) \o action) \o rest = (key \o one) \o (action \o rest)
  BY <1>2, Associative, SMTT(30)
<1>4. (key \o one) \o (action \o rest) = key \o (one \o (action \o rest))
  BY <1>1, <1>2, Associative
<1> QED
  BY <1>1, <1>3, <1>4

\* A binding whose last separators are those that Display writes is read as it was written.
LEMMA ReadAsWritten ==
    ASSUME NEW b \in BindingValue, WellFormed(b)
    PROVE  FromStr(Show(b)) = <<b>>
<1> DEFINE written == IF b.param = <<>> THEN <<>> ELSE <<":">> \o b.param
           tail == b.action \o written
           text == Show(b)
           equals == LastOf(text, "=")
           rest == SubSeq(text, equals + 1, Len(text))
           colon == LastOf(rest, ":")
<1>1. b.key \in Seq(Words) /\ b.action \in Seq(Words) /\ b.param \in Seq(Words)
  BY DEF BindingValue
<1>2. /\ Without(b.action, "=") /\ Without(b.param, "=") /\ Without(b.param, ":")
      /\ b.param = <<>> => Without(b.action, ":")
  BY WellFormedIsPlain
<1>3. written \in Seq(Words) /\ \A j \in 1..Len(written) : written[j] # "="
  <2>1. CASE b.param = <<>>
    <3>1. written = <<>>
      BY <2>1
    <3> HIDE DEF written
    <3> QED
      BY <3>1
  <2>2. CASE b.param # <<>>
    <3>1. written = <<":">> \o b.param
      BY <2>2
    <3> HIDE DEF written
    <3>2. /\ written \in Seq(Words) /\ Len(written) = 1 + Len(b.param) /\ written[1] = ":"
          /\ \A j \in 1..Len(b.param) : written[1 + j] = b.param[j]
      BY <1>1, <3>1, WordsAssumption, Prefixed
    <3>3. \A j \in 1..Len(b.param) : b.param[j] # "="
      BY <1>2 DEF Without
    <3>4. ASSUME NEW j \in 1..Len(written) PROVE written[j] # "="
      <4>1. j = 1 \/ (j - 1 \in 1..Len(b.param) /\ j = 1 + (j - 1))
        BY <1>1, <3>2
      <4> QED
        BY <3>2, <3>3, <4>1
    <3> QED
      BY <3>2, <3>4
  <2> QED
    BY <2>1, <2>2
<1>4. text = ((b.key \o <<"=">>) \o b.action) \o written
  BY DEF Show
<1>5. "=" \in Words /\ ":" \in Words /\ <<"=">> \in Seq(Words)
  BY WordsAssumption
<1> HIDE DEF written
<1>6. tail \in Seq(Words) /\ \A j \in 1..Len(tail) : tail[j] # "="
  BY <1>1, <1>2, <1>3 DEF Without
<1>7. Divides(text, b.key, "=", tail)
  BY <1>1, <1>3, <1>4, ShownIsDivided DEF Divides
<1> HIDE DEF text
<1>8. equals # 0 /\ SubSeq(text, 1, equals - 1) = b.key /\ rest = tail
  <2> HIDE DEF tail
  <2>1. /\ LastOf(text, "=") # 0
        /\ SubSeq(text, 1, LastOf(text, "=") - 1) = b.key
        /\ SubSeq(text, LastOf(text, "=") + 1, Len(text)) = tail
    BY <1>1, <1>5, <1>6, <1>7, Divided, SMTT(30)
  <2> QED
    BY <2>1
<1>9. FromStr(text) =
        <<[key |-> SubSeq(text, 1, equals - 1),
           action |-> IF colon = 0 THEN rest ELSE SubSeq(rest, 1, colon - 1),
           param |-> IF colon = 0 THEN <<>> ELSE SubSeq(rest, colon + 1, Len(rest))]>>
  BY <1>8 DEF FromStr
<1> HIDE DEF equals, rest
<1>10. CASE b.param = <<>>
  <2>1. rest = b.action
    <3>1. written = <<>>
      BY <1>10 DEF written
    <3> QED
      BY <1>1, <1>8, <3>1
  <2>2. colon = 0
    BY <1>1, <1>2, <1>10, <2>1, LastOfNone DEF Without
  <2>3. FromStr(text) = <<[key |-> b.key, action |-> b.action, param |-> b.param]>>
    BY <1>8, <1>9, <1>10, <2>1, <2>2
  <2> QED
    BY <2>3 DEF BindingValue, text
<1>11. CASE b.param # <<>>
  <2>1. rest = b.action \o (<<":">> \o b.param)
    BY <1>8, <1>11 DEF written
  <2>2. \A j \in 1..Len(b.param) : b.param[j] # ":"
    BY <1>2 DEF Without
  <2>3. /\ colon # 0
        /\ SubSeq(rest, 1, colon - 1) = b.action
        /\ SubSeq(rest, colon + 1, Len(rest)) = b.param
    <3>0. Divides(rest, b.action, ":", b.param)
      BY <2>1 DEF Divides
    <3>1. /\ LastOf(rest, ":") # 0
          /\ SubSeq(rest, 1, LastOf(rest, ":") - 1) = b.action
          /\ SubSeq(rest, LastOf(rest, ":") + 1, Len(rest)) = b.param
      BY <1>1, <1>5, <3>0, <2>2, Divided
    <3> QED
      BY <3>1
  <2>4. FromStr(text) = <<[key |-> b.key, action |-> b.action, param |-> b.param]>>
    BY <1>8, <1>9, <2>3
  <2> QED
    BY <2>4 DEF BindingValue, text
<1> QED
  BY <1>10, <1>11
-----------------------------------------------------------------------------
\* What save_reg leaves in the registry.
IsStored(f, v) ==
    IF f = "keybind" THEN v \in Seq(Seq(Words)) ELSE IsValue(f, v)

\* The types, in four parts: of the registry, of the saving, of the configurations in
\* use and being read, and of the rest.
RegTypes ==
    /\ DOMAIN reg = OnlySaved
    /\ \A f \in OnlySaved : reg[f] = Absent \/ IsStored(f, reg[f])

SaveTypes ==
    /\ saving.turn \in 0 .. Len(world.saves) /\ saving.next \in 0 .. Len(SaveOrder)
    /\ saving.next # 0 => saving.turn # 0

ConfigTypes == cfg \in Config /\ reading.part \in Config /\ reading.for \in {"key", "focus"}

TipTypes ==
    /\ simp \in BOOLEAN /\ agreed \in BOOLEAN
    /\ kbtype \in Layouts
    /\ opts \in [full : BOOLEAN, syl : Layouts]
    /\ lang \in Langs
    /\ icon \in [lang : Langs, simp : BOOLEAN, dot : BOOLEAN]
    /\ toggled \subseteq {"shape", "hsu"}

TypesInv == RegTypes /\ SaveTypes /\ ConfigTypes /\ TipTypes

\* A sequence of n values of T.
LEMMA SequenceOf ==
    ASSUME NEW T, NEW n \in Nat, NEW s \in [1..n -> T]
    PROVE  s \in Seq(T)
OBVIOUS

\* What is written is a text, and what is read is bindings.
LEMMA ShowType ==
    ASSUME NEW b \in BindingValue
    PROVE  Show(b) \in Seq(Words)
<1> DEFINE written == IF b.param = <<>> THEN <<>> ELSE <<":">> \o b.param
           front == (b.key \o <<"=">>) \o b.action
<1>1. b.key \in Seq(Words) /\ b.action \in Seq(Words) /\ b.param \in Seq(Words)
  BY DEF BindingValue
<1>2. <<"=">> \in Seq(Words) /\ <<":">> \in Seq(Words)
  BY WordsAssumption
<1>3. front \in Seq(Words)
  <2>1. b.key \o <<"=">> \in Seq(Words)
    BY <1>1, <1>2
  <2> QED
    BY <1>1, <2>1
<1>4. written \in Seq(Words)
  <2>1. CASE b.param = <<>>
    <3>1. written = <<>>
      BY <2>1
    <3> HIDE DEF written
    <3> QED
      BY <3>1
  <2>2. CASE b.param # <<>>
    <3>1. <<":">> \o b.param \in Seq(Words)
      BY <1>1, <1>2
    <3> QED
      BY <2>2, <3>1, Zenon
  <2> QED
    BY <2>1, <2>2
<1>5. Show(b) = front \o written
  BY DEF Show
<1> HIDE DEF front, written
<1> QED
  BY <1>3, <1>4, <1>5

LEMMA StoredType ==
    ASSUME NEW c \in Config, NEW f \in OnlySaved, CheckTypeOK
    PROVE  IsStored(f, Stored(c, f))
<1>1. f \in Fields /\ IsValue(f, c[f])
  BY ConfigHasFields DEF OnlySaved
<1>2. CASE f = "stamp"
  BY <1>2, MaxClockAssumption DEF Stored, IsStored, IsValue, CheckTypeOK
<1>3. CASE f = "keybind"
  <2>1. c.keybind \in Seq(BindingValue)
    BY DEF Config
  <2>2. [i \in DOMAIN c.keybind |-> Show(c.keybind[i])] \in [1..Len(c.keybind) -> Seq(Words)]
    BY <2>1, ShowType
  <2>3. [i \in DOMAIN c.keybind |-> Show(c.keybind[i])] \in Seq(Seq(Words))
    BY <2>1, <2>2, SequenceOf
  <2> QED
    BY <1>3, <2>3 DEF Stored, IsStored
<1>4. CASE f \notin {"stamp", "keybind"}
  BY <1>1, <1>4 DEF Stored, IsStored
<1> QED
  BY <1>2, <1>3, <1>4

LEMMA ParsedType ==
    ASSUME NEW texts \in Seq(Seq(Words)),
           NEW parsed, parsed = [i \in DOMAIN texts |-> FromStr(texts[i])]
    PROVE  parsed \in Seq(Seq(BindingValue)) /\ Len(parsed) = Len(texts)
<1>1. \A i \in 1..Len(texts) : FromStr(texts[i]) \in Seq(BindingValue)
  BY FromStrType
<1>2. parsed \in [1..Len(texts) -> Seq(BindingValue)]
  BY <1>1
<1>3. Len(texts) \in Nat
  OBVIOUS
<1>4. parsed \in Seq(Seq(BindingValue))
  BY <1>2, <1>3, SequenceOf
<1>5. DOMAIN parsed = 1..Len(texts)
  BY <1>2
<1> QED
  BY <1>3, <1>4, <1>5

LEMMA ParseAllType ==
    ASSUME NEW texts \in Seq(Seq(Words))
    PROVE  ParseAll(texts) \in Seq(BindingValue)
<1>1. [i \in DOMAIN texts |-> FromStr(texts[i])] \in Seq(Seq(BindingValue))
  BY ParsedType
<1> QED
  BY <1>1, FlattenType DEF ParseAll

\* from_reg makes a configuration of whatever the registry holds.
LEMMA ValueType ==
    ASSUME RegTypes, CheckTypeOK, NEW f \in Fields
    PROVE  IsValue(f, Value(f))
<1>1. IsValue(f, Defaults[f])
  BY DefaultsAssumption, ConfigHasFields
<1>2. CASE Registry[f] = Absent
  BY <1>1, <1>2 DEF Value
<1>3. CASE Registry[f] # Absent /\ f \in {"channel", "url", "last"}
  <2>1. Value(f) = Registry[f]
    BY <1>3 DEF Value
  <2>2. f = "channel" => Registry[f] \in Channels
    BY <1>3 DEF Registry, CheckTypeOK
  <2>3. f = "url" => Registry[f] \in Urls
    BY <1>3 DEF Registry, CheckTypeOK
  <2>4. f = "last" => Registry[f] \in Nat
    BY <1>3 DEF Registry, CheckTypeOK
  <2> QED
    BY <1>3, <2>1, <2>2, <2>3, <2>4 DEF IsValue
<1>4. CASE Registry[f] # Absent /\ f \notin {"channel", "url", "last"}
  <2>1. f \in OnlySaved /\ Registry[f] = reg[f]
    BY <1>4 DEF OnlySaved, Registry
  <2>2. IsStored(f, reg[f])
    BY <1>4, <2>1 DEF RegTypes
  <2>3. CASE f = "keybind"
    <3>1. Value(f) = ParseAll(reg[f])
      BY <1>4, <2>1, <2>3 DEF Value
    <3>2. reg[f] \in Seq(Seq(Words))
      BY <2>2, <2>3 DEF IsStored
    <3> QED
      BY <2>3, <3>1, <3>2, ParseAllType DEF IsValue
  <2>4. CASE f # "keybind"
    BY <1>4, <2>1, <2>2, <2>4 DEF Value, IsStored
  <2> QED
    BY <2>3, <2>4
<1> QED
  BY <1>2, <1>3, <1>4

LEMMA LoadedType ==
    ASSUME RegTypes, CheckTypeOK
    PROVE  Loaded \in Config
<1>1. Loaded = [f \in Fields |-> Loaded[f]] /\ \A f \in Fields : Loaded[f] = Value(f)
  BY DEF Loaded
<1>2. \A f \in Fields : IsValue(f, Loaded[f])
  BY <1>1, ValueType
<1> HIDE DEF Loaded
<1> QED
  BY <1>1, <1>2, ConfigOfFields

\* The types hold at first, and every step keeps them.
LEMMA IconType ==
    ASSUME NEW l \in Langs, NEW s \in BOOLEAN, NEW c
    PROVE  LangIcon(l, s, c) \in [lang : Langs, simp : BOOLEAN, dot : BOOLEAN]
BY DEF LangIcon

LEMMA InitTypes == Init /\ CheckTypeOK => TypesInv
<1> SUFFICES ASSUME Init, CheckTypeOK PROVE TypesInv
  OBVIOUS
<1>1. world \in Worlds /\ world.start \in Start /\ world.langs \subseteq Langs
      /\ world.saves \in Seq(Config)
  BY WorldsAssumption DEF Init
<1>2. RegTypes
  <2>1. reg = [f \in OnlySaved |-> world.start[f]]
    BY DEF Init
  <2>2. ASSUME NEW f \in OnlySaved, world.start[f] # Absent
        PROVE  IsStored(f, world.start[f])
    BY <1>1, <2>2 DEF Start, IsStored, IsValue, OnlySaved, Fields, ReadOrder
  <2> QED
    BY <2>1, <2>2 DEF RegTypes
<1>3. Loaded \in Config
  BY <1>2, LoadedType
<1>4. cfg \in Config
  BY <1>3, DefaultsAssumption DEF Init
<1>5. SaveTypes
  BY <1>1 DEF Init, SaveTypes, SaveOrder
<1>6. ConfigTypes
  BY <1>4, DefaultsAssumption DEF Init, ConfigTypes, Idle
<1>7. cfg.layout \in Layouts /\ cfg.simp \in BOOLEAN /\ cfg.full \in BOOLEAN
  BY <1>4 DEF Config
<1>8. kbtype \in Layouts /\ simp \in BOOLEAN /\ lang \in Langs /\ agreed \in BOOLEAN
      /\ toggled \subseteq {"shape", "hsu"}
  BY <1>1, <1>7 DEF Init
<1>9. opts \in [full : BOOLEAN, syl : Layouts]
  BY <1>7 DEF Init, Layouts
<1>10. icon \in [lang : Langs, simp : BOOLEAN, dot : BOOLEAN]
  <2>1. LangIcon(lang, simp, cfg) \in [lang : Langs, simp : BOOLEAN, dot : BOOLEAN]
    BY <1>8, IconType
  <2> QED
    BY <2>1 DEF Init, Langs
<1> QED
  BY <1>2, <1>5, <1>6, <1>8, <1>9, <1>10 DEF TypesInv, TipTypes

LEMMA SaveRegTypes ==
    ASSUME SettingsInv, CheckTypeOK, TypesInv, SaveReg
    PROVE  TypesInv'
<1> DEFINE turn == IF saving.next = 0 THEN saving.turn + 1 ELSE saving.turn
           next == IF saving.next = 0 THEN 1 ELSE saving.next
           end == Upto(SaveOrder, next)
<1>1. /\ turn <= Len(world.saves)
      /\ Write(world.saves[turn], Batch(SaveOrder, next))
      /\ saving' = [turn |-> turn, next |-> IF end = Len(SaveOrder) THEN 0 ELSE end + 1]
      /\ UNCHANGED <<world, readVars, tipVars, agreed, listVars>>
  BY DEF SaveReg
<1>2. world.saves \in Seq(Config) /\ Len(world.saves) \in Nat /\ Len(SaveOrder) = 11
  BY WorldsAssumption DEF SettingsInv, SaveOrder
<1>3. turn \in 1..Len(world.saves) /\ next \in 1..Len(SaveOrder)
  BY <1>1, <1>2 DEF TypesInv, SaveTypes
<1>4. end \in next..Len(SaveOrder)
  <2> HIDE DEF next
  <2>1. end = Upto(SaveOrder, next)
    OBVIOUS
  <2> HIDE DEF end
  <2>2. Len(SaveOrder) \in Nat
    BY <1>2
  <2> QED
    BY <1>3, <2>1, <2>2, PlaceType
<1> HIDE DEF turn, next, end
<1>5. world.saves[turn] \in Config
  BY <1>2, <1>3
<1>6. RegTypes'
  <2>1. PICK batch : reg' = [f \in OnlySaved |-> IF f \in batch THEN Stored(world.saves[turn], f)
                                                 ELSE reg[f]]
    BY <1>1 DEF Write
  <2>2. \A f \in OnlySaved : IsStored(f, Stored(world.saves[turn], f))
    BY <1>5, StoredType
  <2> QED
    BY <2>1, <2>2 DEF TypesInv, RegTypes
<1>7. SaveTypes'
  BY <1>1, <1>2, <1>3, <1>4 DEF SaveTypes
<1> QED
  BY <1>1, <1>6, <1>7 DEF TypesInv, ConfigTypes, TipTypes, readVars, tipVars, listVars

LEMMA OthersKeepTypes ==
    ASSUME TypesInv, UNCHANGED <<world, regVars>>, ConfigTypes', TipTypes'
    PROVE  TypesInv'
BY DEF TypesInv, regVars, RegTypes, SaveTypes

LEMMA BeginReadingTypes ==
    ASSUME CatchUpInv, TypesInv, BeginReading
    PROVE  TypesInv'
<1>1. UNCHANGED <<world, regVars, cfg, tipVars, agreed>>
  BY DEF BeginReading, listVars
<1>2. PICK for \in {"key", "focus"} :
          reading' = [Idle EXCEPT !.pc = "reading", !.for = for, !.before = cfg.flags]
  BY DEF BeginReading
<1>3. ConfigTypes'
  BY <1>1, <1>2, DefaultsAssumption DEF TypesInv, ConfigTypes, Idle
<1> QED
  BY <1>1, <1>3, OthersKeepTypes DEF TypesInv, TipTypes, tipVars

LEMMA ReadValuesTypes ==
    ASSUME CheckTypeOK, CatchUpInv, TypesInv, ReadValues
    PROVE  TypesInv'
<1>1. UNCHANGED <<world, regVars, cfg, tipVars, agreed>>
  BY DEF ReadValues, listVars
<1>2. PICK batch :
          /\ reading'.part = [f \in Fields |-> IF f \in batch THEN Value(f) ELSE reading.part[f]]
          /\ reading'.for = reading.for
  BY DEF ReadValues, CatchUpInv
<1>3. \A f \in Fields : IsValue(f, reading.part[f])
  BY ConfigHasFields DEF TypesInv, ConfigTypes
<1>4. \A f \in Fields : IsValue(f, reading'.part[f])
  BY <1>2, <1>3, ValueType DEF TypesInv
<1>5. reading'.part = [f \in Fields |-> reading'.part[f]]
  BY <1>2
<1>6. reading'.part \in Config
  BY <1>4, <1>5, ConfigOfFields
<1> QED
  BY <1>1, <1>2, <1>6, OthersKeepTypes DEF TypesInv, ConfigTypes, TipTypes, tipVars

LEMMA ReadingFailsTypes ==
    ASSUME CatchUpInv, TypesInv, ReadingFails
    PROVE  TypesInv'
<1>1. UNCHANGED <<world, regVars, cfg, tipVars, agreed>>
  BY DEF ReadingFails, listVars
<1>2. reading'.part = cfg /\ reading'.for = reading.for
  BY DEF ReadingFails, CatchUpInv
<1> QED
  BY <1>1, <1>2, OthersKeepTypes DEF TypesInv, ConfigTypes, TipTypes, tipVars

LEMMA UseReadingTypes ==
    ASSUME CatchUpInv, TypesInv, UseReading
    PROVE  TypesInv'
<1>1. UNCHANGED <<world, regVars, agreed>>
  BY DEF UseReading
<1>2. cfg' = cfg \/ cfg' = reading.part
  BY DEF UseReading, ApplyRuntimeConfig, listVars
<1>3. ConfigTypes'
  BY <1>2, DefaultsAssumption DEF UseReading, TypesInv, ConfigTypes, Idle
<1>4. TipTypes'
  <2>1. CASE UNCHANGED <<tipVars, listVars>>
    BY <1>1, <2>1 DEF TypesInv, TipTypes, tipVars
  <2>2. CASE ApplyRuntimeConfig(reading.part) /\ UNCHANGED <<simp, lang>>
    <3>1. reading.part.layout \in Layouts
      BY DEF TypesInv, ConfigTypes, Config
    <3>2. kbtype' \in Layouts
      BY <2>2, <3>1 DEF ApplyRuntimeConfig
    <3>3. CASE UsesNewOptions(reading.part)
      <4>1. icon' \in [lang : Langs, simp : BOOLEAN, dot : BOOLEAN]
        BY <3>3, IconType DEF UsesNewOptions, TypesInv, TipTypes
      <4> QED
        BY <1>1, <2>2, <3>1, <3>2, <3>3, <4>1 DEF UsesNewOptions, TypesInv, TipTypes
    <3>4. CASE UNCHANGED <<opts, bindings, icon, toggled>>
      BY <1>1, <2>2, <3>2, <3>4 DEF TypesInv, TipTypes
    <3> QED
      BY <2>2, <3>3, <3>4 DEF ApplyRuntimeConfig
  <2> QED
    BY <2>1, <2>2 DEF UseReading
<1> QED
  BY <1>1, <1>3, <1>4, OthersKeepTypes

LEMMA TogglesTypes ==
    ASSUME TypesInv, agreed' \in BOOLEAN,
           \/ ToggleSimpChinese \/ ToggleShapeMode \/ ToggleHsuKeyboard \/ ToggleLangMode
           \/ UNCHANGED tipVars
           \/ \E ev : EditorToggles(ev)
    PROVE  TipTypes'
<1> USE DEF TypesInv, TipTypes
<1>1. CASE ToggleSimpChinese
  <2>1. /\ simp' = ~simp /\ icon' = LangIcon(lang, simp', cfg)
        /\ UNCHANGED <<kbtype, opts, lang, bindings, toggled>>
    BY <1>1 DEF ToggleSimpChinese
  <2>2. simp' \in BOOLEAN
    BY <2>1, Zenon
  <2>3. icon' \in [lang : Langs, simp : BOOLEAN, dot : BOOLEAN]
    BY <2>1, <2>2, IconType, Zenon
  <2>4. simp' \in BOOLEAN /\ agreed' \in BOOLEAN /\ kbtype' \in Layouts
        /\ opts' \in [full : BOOLEAN, syl : Layouts]
        /\ lang' \in Langs /\ toggled' \subseteq {"shape", "hsu"}
    BY <2>1, <2>2, Zenon
  <2> QED
    BY <2>3, <2>4
<1>2. CASE ToggleShapeMode
  <2>1. opts' \in [full : BOOLEAN, syl : Layouts]
    BY <1>2 DEF ToggleShapeMode
  <2> QED
    BY <1>2, <2>1, IconType DEF ToggleShapeMode
<1>3. CASE ToggleHsuKeyboard
  <2>1. kbtype' \in Layouts
    BY <1>3 DEF ToggleHsuKeyboard, Layouts
  <2>2. opts' \in [full : BOOLEAN, syl : Layouts]
    BY <1>3, <2>1 DEF ToggleHsuKeyboard
  <2> QED
    BY <1>3, <2>1, <2>2 DEF ToggleHsuKeyboard
<1>4. CASE ToggleLangMode
  BY <1>4, IconType DEF ToggleLangMode
<1>5. CASE UNCHANGED tipVars
  BY <1>5 DEF tipVars
<1>6. CASE \E ev : EditorToggles(ev)
  BY <1>5, <1>6 DEF EditorToggles
<1> QED
  BY <1>1, <1>2, <1>3, <1>4, <1>5, <1>6

LEMMA HandleKeyTypes ==
    ASSUME CatchUpInv, TypesInv, NEW ev, HandleKey(ev)
    PROVE  TypesInv'
<1>1. cfg' = cfg
  BY HandleKeyFacts, OnKeydownIsKeyStep, ListStepKeepsConfig DEF listVars
<1>2. ConfigTypes'
  BY <1>1, HandleKeyFacts, DefaultsAssumption DEF TypesInv, ConfigTypes, Idle
<1>3. agreed' \in BOOLEAN
  BY DEF HandleKey
<1>4. TipTypes'
  <2>1. CASE UNCHANGED tipVars
    BY <1>3, <2>1, TogglesTypes
  <2>2. CASE OnKeydown(ev)
    <3>1. \/ ToggleSimpChinese \/ ToggleHsuKeyboard \/ UNCHANGED tipVars \/ EditorToggles(ev)
      BY <2>2 DEF OnKeydown, PassKey
    <3> QED
      BY <1>3, <3>1, TogglesTypes
  <2> QED
    BY <2>1, <2>2, HandleKeyFacts
<1> QED
  BY <1>2, <1>4, HandleKeyFacts, OthersKeepTypes

LEMMA EventsTypes ==
    ASSUME TypesInv, OnCommand \/ ListEvent \/ CheckEvent \/ UNCHANGED vars
    PROVE  TypesInv'
<1>1. UNCHANGED <<world, regVars, reading, agreed>>
  BY DEF OnCommand, ListEvent, CheckEvent, vars, readVars
<1>2. cfg' = cfg
  BY ListStepKeepsConfig DEF OnCommand, ListEvent, CheckEvent, vars, listVars
<1>3. agreed' \in BOOLEAN
  BY <1>1 DEF TypesInv, TipTypes
<1>4. \/ ToggleSimpChinese \/ ToggleShapeMode \/ ToggleLangMode
      \/ UNCHANGED tipVars
  BY DEF OnCommand, ListEvent, CheckEvent, vars
<1>5. TipTypes'
  BY <1>3, <1>4, TogglesTypes
<1> QED
  BY <1>1, <1>2, <1>5, OthersKeepTypes DEF TypesInv, ConfigTypes

LEMMA NextTypes ==
    SettingsInv /\ CheckTypeOK /\ CatchUpInv /\ TypesInv /\ [Next]_vars => TypesInv'
<1> SUFFICES ASSUME SettingsInv, CheckTypeOK, CatchUpInv, TypesInv, [Next]_vars
             PROVE  TypesInv'
  OBVIOUS
<1> QED
  BY SaveRegTypes, BeginReadingTypes, ReadValuesTypes, ReadingFailsTypes, UseReadingTypes,
     HandleKeyTypes, EventsTypes DEF Next

LEMMA TypesInvariance == Spec => []TypesInv
<1>1. Init /\ CheckTypeOK => TypesInv
  BY InitTypes
<1>2. SettingsInv /\ CheckTypeOK /\ CatchUpInv /\ TypesInv /\ [Next]_vars => TypesInv'
  BY NextTypes
<1>3. Spec => []CatchUpInv
  BY InitCatchesUp, NextCatchesUp, PTL DEF Spec
<1>4. Spec => []CheckTypeOK
  BY CheckIsImplemented, ChecksTypeCorrect, PTL
<1> QED
  BY <1>1, <1>2, <1>3, <1>4, SettingsInvariance, PTL DEF Spec

\* Every variable has its type: what is in use and what is being read is always a
\* configuration, whatever the registry holds and however it was written meanwhile.
THEOREM SettingsTypeCorrect == Spec => []TypeOK
<1>1. Spec => []ListTypeOK
  BY ListIsImplemented, TypeCorrect, PTL
<1>2. Spec => []CheckTypeOK
  BY CheckIsImplemented, ChecksTypeCorrect, PTL
<1>3. Spec => []CatchUpInv
  BY InitCatchesUp, NextCatchesUp, PTL DEF Spec
<1>4. ListTypeOK /\ CheckTypeOK /\ CatchUpInv /\ TypesInv /\ SettingsInv => TypeOK
  BY DEF TypeOK, CatchUpInv, TypesInv, SettingsInv, RegTypes, SaveTypes, ConfigTypes, TipTypes
<1> QED
  BY <1>1, <1>2, <1>3, <1>4, SettingsInvariance, TypesInvariance, PTL
-----------------------------------------------------------------------------
\* Once the keybindings of a saving are written, the registry has them until the next.
SavedInv ==
    saving.turn > 0 /\ (saving.next = 0 \/ saving.next > 10)
        => reg["keybind"] = Stored(world.saves[saving.turn], "keybind")

\* Keybindings are the tenth of the eleven values, and only save_reg writes them.
LEMMA SaveRegSaves ==
    ASSUME SettingsInv, TypesInv, SavedInv, SaveReg
    PROVE  SavedInv'
<1> DEFINE turn == IF saving.next = 0 THEN saving.turn + 1 ELSE saving.turn
           next == IF saving.next = 0 THEN 1 ELSE saving.next
           end == Upto(SaveOrder, next)
<1>1. /\ turn <= Len(world.saves)
      /\ Write(world.saves[turn], Batch(SaveOrder, next))
      /\ saving' = [turn |-> turn, next |-> IF end = Len(SaveOrder) THEN 0 ELSE end + 1]
      /\ world' = world
  BY DEF SaveReg
<1>2. Len(world.saves) \in Nat /\ Len(SaveOrder) = 11
  BY WorldsAssumption DEF SettingsInv, SaveOrder
<1>3. next \in 1..11
  BY <1>2 DEF TypesInv, SaveTypes
<1>4. end \in next..11
  <2> HIDE DEF next
  <2>1. end = Upto(SaveOrder, next)
    OBVIOUS
  <2> HIDE DEF end
  <2>2. Len(SaveOrder) \in Nat /\ next \in 1..Len(SaveOrder)
    BY <1>2, <1>3
  <2> QED
    BY <1>2, <2>1, <2>2, PlaceType
<1>5. Batch(SaveOrder, next) = {SaveOrder[i] : i \in next..end}
  BY DEF Batch
<1>6. reg' = [f \in OnlySaved |-> IF f \in Batch(SaveOrder, next)
                                  THEN Stored(world.saves[turn], f) ELSE reg[f]]
  BY <1>1 DEF Write
<1>7. "keybind" \in OnlySaved
  BY DEF OnlySaved, Fields, ReadOrder
<1>8. saving'.turn = turn /\ world'.saves = world.saves
  BY <1>1
<1>9. saving'.next = 0 \/ saving'.next > 10 => end >= 10
  <2> HIDE DEF end, turn, next
  <2>1. saving'.next = IF end = 11 THEN 0 ELSE end + 1
    BY <1>1, <1>2
  <2>2. end \in Nat
    BY <1>3, <1>4
  <2> QED
    BY <2>1, <2>2
<1>10. Stored(world.saves[turn], "keybind")' = Stored(world'.saves[turn'], "keybind")
  BY DEF Stored
<1>11. Stored(world.saves[saving.turn], "keybind")' = Stored(world.saves[turn], "keybind")
  BY <1>8 DEF Stored
<1>12. CASE next <= 10
  <2> HIDE DEF next, end, turn
  <2>1. ASSUME end >= 10 PROVE "keybind" \in Batch(SaveOrder, next)
    <3>1. 10 \in next..end
      BY <1>3, <1>4, <1>12, <2>1
    <3>2. SaveOrder[10] = "keybind"
      BY DEF SaveOrder
    <3> QED
      BY <1>5, <3>1, <3>2
  <2> QED
    BY <1>6, <1>7, <1>9, <1>11, <2>1 DEF SavedInv
<1>13. CASE next > 10
  <2>1. saving.next = 11 /\ turn = saving.turn /\ saving.turn > 0
    BY <1>3, <1>13 DEF TypesInv, SaveTypes
  <2>2. reg["keybind"] = Stored(world.saves[turn], "keybind")
    BY <2>1 DEF SavedInv
  <2> HIDE DEF next, end, turn
  <2> QED
    BY <1>6, <1>7, <1>11, <2>2 DEF SavedInv
<1> QED
  BY <1>3, <1>12, <1>13

LEMMA NextSaves == SettingsInv /\ TypesInv /\ SavedInv /\ [Next]_vars => SavedInv'
<1> SUFFICES ASSUME SettingsInv, TypesInv, SavedInv, [Next]_vars
             PROVE  SavedInv'
  OBVIOUS
<1>1. CASE UNCHANGED <<world, regVars>>
  <2>1. UNCHANGED <<world, reg, saving>>
    BY <1>1 DEF regVars
  <2>2. Stored(world.saves[saving.turn], "keybind")' = Stored(world.saves[saving.turn], "keybind")
    BY <2>1 DEF Stored
  <2> QED
    BY <2>1, <2>2 DEF SavedInv
<1>2. \/ SaveReg
      \/ UNCHANGED <<world, regVars>>
  BY DEF Next, BeginReading, ReadValues, ReadingFails, UseReading, HandleKey, OnCommand,
         ListEvent, CheckEvent, vars
<1> QED
  BY <1>1, <1>2, SaveRegSaves

\* A binding is parsed from the text it was saved as.
LEMMA SavedIsParsed ==
    ASSUME NEW saved \in Seq(BindingValue), NEW i \in DOMAIN saved, WellFormed(saved[i]),
           NEW texts, texts = [k \in DOMAIN saved |-> Show(saved[k])]
    PROVE  /\ texts \in Seq(Seq(Words))
           /\ Has(ParseAll(texts), saved[i])
<1>1. texts \in [1..Len(saved) -> Seq(Words)]
  BY ShowType
<1>2. texts \in Seq(Seq(Words)) /\ DOMAIN texts = DOMAIN saved
  BY <1>1, SequenceOf
<1> DEFINE parsed == [k \in DOMAIN texts |-> FromStr(texts[k])]
<1>3. parsed \in Seq(Seq(BindingValue)) /\ Len(parsed) = Len(texts)
  BY <1>2, ParsedType
<1>4. parsed[i] = <<saved[i]>>
  <2>1. saved[i] \in BindingValue
    OBVIOUS
  <2>2. FromStr(Show(saved[i])) = <<saved[i]>>
    BY <2>1, ReadAsWritten
  <2>3. parsed[i] = FromStr(Show(saved[i]))
    BY <1>2
  <2> QED
    BY <2>2, <2>3
<1>5. ParseAll(texts) = FlattenSeq(parsed)
  BY DEF ParseAll
<1>6. i \in 1..Len(parsed)
  BY <1>2, <1>3
<1> HIDE DEF parsed
<1>7. Has(parsed[i], saved[i])
  BY <1>4, HasOnly
<1> QED
  BY <1>2, <1>3, <1>5, <1>6, <1>7, FlattenKeeps

\* What a binding is parsed to, and where it then is.
Working(b) == [key |-> KeyFromStr(b.key), action |-> b.action, param |-> b.param]

LEMMA ParsedWorks ==
    ASSUME NEW values \in Seq(BindingValue), NEW j \in DOMAIN values,
           KeyFromStr(values[j].key) # NoKey
    PROVE  Has(Bindings(values), Working(values[j]))
<1> DEFINE T == {Working(b) : b \in BindingValue}
           tried == [k \in DOMAIN values |-> TryFrom(values[k])]
<1>1. \A b \in BindingValue : TryFrom(b) \in Seq(T)
  <2>1. \A b : TryFrom(b) = IF KeyFromStr(b.key) = NoKey THEN <<>> ELSE <<Working(b)>>
    BY DEF TryFrom, Working
  <2>2. \A b \in BindingValue : Working(b) \in T
    OBVIOUS
  <2> HIDE DEF T
  <2>3. \A x \in T : <<x>> \in Seq(T)
    OBVIOUS
  <2>4. <<>> \in Seq(T)
    OBVIOUS
  <2> QED
    BY <2>1, <2>2, <2>3, <2>4
<1>2. tried \in Seq(Seq(T)) /\ Len(tried) = Len(values)
  <2> HIDE DEF T
  <2>1. tried \in [1..Len(values) -> Seq(T)]
    BY <1>1
  <2> HIDE DEF tried
  <2>2. tried \in Seq(Seq(T))
    BY <2>1, SequenceOf
  <2> QED
    BY <2>1, <2>2
<1>3. tried[j] = <<Working(values[j])>>
  BY DEF TryFrom, Working
<1>4. Bindings(values) = FlattenSeq(tried)
  BY DEF Bindings
<1>5. j \in 1..Len(tried)
  BY <1>2
<1> HIDE DEF T, tried
<1>6. Has(tried[j], Working(values[j]))
  BY <1>3, HasOnly
<1> QED
  BY <1>2, <1>4, <1>5, <1>6, FlattenKeeps

LEMMA SavedWork ==
    ASSUME SettingsInv, TypesInv, CaughtUp, FollowsConfig, SavedInv
    PROVE  BindingsSurvive
<1> SUFFICES ASSUME saving.turn > 0, saving.next = 0, reading.pc = "idle", ~unread, ~failed,
                    NEW i \in DOMAIN world.saves[saving.turn].keybind,
                    WellFormed(world.saves[saving.turn].keybind[i]),
                    KeyFromStr(world.saves[saving.turn].keybind[i].key) # NoKey
             PROVE  Has(bindings, Working(world.saves[saving.turn].keybind[i]))
  BY DEF BindingsSurvive, Has, Working
<1> DEFINE saved == world.saves[saving.turn].keybind
           texts == [k \in DOMAIN saved |-> Show(saved[k])]
<1>1. saved \in Seq(BindingValue)
  <2>1. world.saves \in Seq(Config) /\ saving.turn \in 1..Len(world.saves)
    BY WorldsAssumption DEF SettingsInv, TypesInv, SaveTypes
  <2>2. world.saves[saving.turn] \in Config
    BY <2>1
  <2> QED
    BY <2>2 DEF Config
<1>2. reg["keybind"] = texts
  BY DEF SavedInv, Stored
<1>3. cfg = Loaded
  BY DEF CaughtUp
<1>4. i \in DOMAIN saved /\ WellFormed(saved[i]) /\ KeyFromStr(saved[i].key) # NoKey
  OBVIOUS
<1> HIDE DEF saved
<1>5. texts \in Seq(Seq(Words)) /\ Has(ParseAll(texts), saved[i])
  BY <1>1, <1>4, SavedIsParsed
<1> HIDE DEF texts
<1>6. texts # Absent
  BY <1>5, AbsentTextsAssumption
<1>7. cfg.keybind = ParseAll(texts)
  <2>1. "keybind" \in Fields
    BY DEF Fields, ReadOrder
  <2>2. Registry["keybind"] = texts
    BY <1>2, <2>1 DEF Registry
  <2>3. Value("keybind") = ParseAll(texts)
    BY <1>6, <2>2 DEF Value
  <2> QED
    BY <1>3, <2>1, <2>3 DEF Loaded
<1>8. cfg.keybind \in Seq(BindingValue)
  BY <1>5, <1>7, ParseAllType
<1>9. PICK j \in DOMAIN cfg.keybind : cfg.keybind[j] = saved[i]
  BY <1>5, <1>7 DEF Has
<1>10. bindings = Bindings(cfg.keybind)
  BY DEF FollowsConfig
<1>11. Has(bindings, Working(saved[i]))
  BY <1>4, <1>8, <1>9, <1>10, ParsedWorks
<1> QED
  BY <1>11 DEF saved

\* A binding the user saved works as soon as the text service has read it, whatever the
\* others of the list are and however the two processes took turns.
THEOREM SavedBindingsWork == Spec => []BindingsSurvive
<1>1. Spec => []SavedInv
  <2>1. Init => SavedInv
    BY DEF Init, SavedInv
  <2> QED
    BY <2>1, NextSaves, SettingsInvariance, TypesInvariance, PTL DEF Spec
<1> QED
  BY <1>1, SavedWork, SettingsInvariance, TypesInvariance, ReadingsCatchUp, OptionsFollow, PTL

\* Whatever the preferences and the text service do meanwhile, the registry names a
\* newer version only if there is one (UpdateCheck).
THEOREM SettingsLeaveTheCheck == Spec => []CheckedIsRight
BY CheckIsImplemented, RegistryNamesTheNewest, PTL
=============================================================================
