------------------------------ MODULE Settings ------------------------------
(***************************************************************************)
(* The settings of the user: how a text service follows the registry       *)
(* (core's config.rs, apply_config_if_changed of tip's chewing.rs) while   *)
(* it is being used, the preferences write to it and checks for updates    *)
(* leave their results in it.                                              *)
(*                                                                         *)
(* There is no lock and no notification.  The preferences write one value  *)
(* after another, the text service reads one value after another before    *)
(* each key, and whatever differs from what it had replaces the editor.    *)
(* It composes CandidateList (what the user was choosing from when the     *)
(* editor was replaced), UpdateCheck (who else writes) and KeyFilter.      *)
(***************************************************************************)
EXTENDS CandidateList, UpdateCheck, KeyFilter, FiniteSets

CONSTANTS
    Words,      \* what a binding is made of: words, "=" and ":"
    Defaults,   \* ChewingTsfConfig::default()
    Stops,      \* grain: after which values another process may come
    Worlds      \* bound: what there is at the start and what may happen, of
                \* [start, langs, clock, dll, published, saves, keys, clients, events]

\* The values save_reg writes and from_reg reads, in their order.  The settings that
\* are on or off and only matter to on_test_keydown are one value here.
SaveOrder == <<"layout", "row", "full", "simp", "sel", "per", "cursor", "flags",
               "channel", "keybind", "stamp">>
ReadOrder == <<"layout", "row", "full", "simp", "sel", "per", "cursor", "flags",
               "channel", "url", "last", "stamp", "keybind">>
Fields == {ReadOrder[i] : i \in DOMAIN ReadOrder}

OnlySaved == Fields \ {"channel", "url", "last"}

Layouts == {"Default", "Hsu", "Et"}
Langs == {"Chinese", "English"}

\* A KeybindValue, as sequences of words; and a configuration.
BindingValue == [key : Seq(Words), action : Seq(Words), param : Seq(Words)]
Config == [layout : Layouts, row : Nat, full : BOOLEAN, simp : BOOLEAN, sel : Nat,
           per : Nat \ {0}, cursor : BOOLEAN, flags : SUBSET Flags, channel : Channels,
           url : Urls \cup {Absent}, last : Nat, stamp : Nat, keybind : Seq(BindingValue)]

\* What the registry may hold at the start: nothing, or what was written.
Start == [layout : Layouts \cup {Absent}, row : Nat \cup {Absent},
          full : BOOLEAN \cup {Absent}, simp : BOOLEAN \cup {Absent},
          sel : Nat \cup {Absent}, per : (Nat \ {0}) \cup {Absent},
          cursor : BOOLEAN \cup {Absent}, flags : (SUBSET Flags) \cup {Absent},
          channel : Channels \cup {Absent}, url : Urls \cup {Absent},
          last : Nat \cup {Absent}, stamp : Nat \cup {Absent},
          keybind : Seq(Seq(Words)) \cup {Absent}]

\* What may happen in a world besides keys, checks and what the user saves.  Where an
\* application only asks ("ask"), it does so in all circumstances.
Happenings == {"ask", "fail", "command", "focus", "show",
               "publish", "install", "stop", "clock"}

ASSUME DefaultsAssumption == Defaults \in Config
ASSUME WordsAssumption == {"=", ":"} \subseteq Words
ASSUME AbsentTextsAssumption == Absent \notin Seq(Seq(Words))
ASSUME StopsAssumption == Stops \subseteq Fields
ASSUME WorldsAssumption ==
    \A w \in Worlds :
        /\ w.start \in Start /\ w.saves \in Seq(Config)
        /\ w.langs \subseteq Langs
        /\ w.clock \in 0 .. MaxClock /\ w.dll \in Installable /\ w.published \in ReleaseLists
        /\ w.clients \subseteq Clients /\ w.events \subseteq Happenings

VARIABLES
    world,      \* the one this is
    reg,        \* registry: the values only save_reg writes, or Absent
    saving,     \* save_reg: [turn, next], the next value to write or 0
    reading,    \* from_reg: [pc, for, next, part, before], the flags before it
    rebuilt,    \* the key that is being handled replaced the editor
    unread,     \* history: the registry changed since the last complete reading began
    late,       \* history: it had changed when this one began
    kbtype,     \* keyboard layout
    opts,       \* options of chewing_editor: [full, syl], its form and its layout
    simp,       \* output_simp_chinese
    lang,       \* lang_mode
    bindings,   \* keybindings
    icon,       \* of the language button: [lang, simp, dot]
    toggled,    \* history: what was toggled since the editor was built
    agreed      \* history: tip and host answered the last key alike, if they had to

regVars == <<reg, saving>>
readVars == <<reading, rebuilt, late>>
tipVars == <<kbtype, opts, simp, lang, bindings, icon, toggled>>
vars == <<world, regVars, readVars, unread, tipVars, agreed, listVars, checkVars>>
-----------------------------------------------------------------------------
(***************************************************************************)
(* The registry.                                                           *)
(***************************************************************************)
Registry == [f \in Fields |-> CASE f = "channel" -> channel
                                [] f = "url" -> url
                                [] f = "last" -> last
                                [] OTHER -> reg[f]]

Value_NoDefaultTime(f) ==
    CASE Registry[f] = Absent /\ f # "last" -> Defaults[f]
      [] Registry[f] # Absent /\ f = "keybind" -> ParseAll(Registry[f])
      [] OTHER -> Registry[f]

\* What from_reg makes of a value.
Value(f) ==
    CASE Registry[f] = Absent -> Defaults[f]
      [] Registry[f] # Absent /\ f = "keybind" -> ParseAll(Registry[f])
      [] OTHER -> Registry[f]

Loaded == [f \in Fields |-> Value(f)]

\* The values from the next one on that are taken without a stop; the place of the
\* last of them.
Upto(order, next) ==
    LET ends == {i \in next .. Len(order) : order[i] \in Stops \/ i = Len(order)}
    IN CHOOSE i \in ends : \A j \in ends : i <= j
Batch(order, next) == {order[i] : i \in next .. Upto(order, next)}

\* The registry was written to.
Noticed == unread' = (unread \/ Registry' # Registry)

\* What save_reg writes.
Stored(c, f) ==
    CASE f = "stamp" -> clock
      [] f = "keybind" -> [i \in DOMAIN c.keybind |-> Show(c.keybind[i])]
      [] OTHER -> c[f]

Write_EveryValue(c, batch) ==
    /\ reg' = [f \in OnlySaved |-> IF f \in batch THEN Stored(c, f) ELSE reg[f]]
    /\ IF "channel" \in batch
       THEN channel' = c.channel /\ url' = Absent
            /\ UNCHANGED <<last, clock, dll, published, check, checked>>
       ELSE UNCHANGED checkVars

Write(c, batch) ==
    /\ reg' = [f \in OnlySaved |-> IF f \in batch THEN Stored(c, f) ELSE reg[f]]
    /\ IF "channel" \in batch THEN SetChannel(c.channel) ELSE UNCHANGED checkVars

\* save_reg.  A value that cannot be written is left, without an error.
SaveReg ==
    LET turn == IF saving.next = 0 THEN saving.turn + 1 ELSE saving.turn
        next == IF saving.next = 0 THEN 1 ELSE saving.next
        end == Upto(SaveOrder, next)
    IN /\ turn <= Len(world.saves)
       /\ Write(world.saves[turn], Batch(SaveOrder, next))
       /\ saving' = [turn |-> turn, next |-> IF end = Len(SaveOrder) THEN 0 ELSE end + 1]
       /\ UNCHANGED <<world, readVars, tipVars, agreed, listVars>>
       /\ Noticed
-----------------------------------------------------------------------------
(***************************************************************************)
(* The text service: loading and applying the configuration.               *)
(***************************************************************************)
Idle == [pc |-> "idle", for |-> "key", next |-> 1, part |-> Defaults, before |-> {}]

\* get_lang_icon_id: the mode, its form for simplified Chinese, the dot of an update.
LangIcon(l, s, c) == [lang |-> l, simp |-> s /\ l = "Chinese", dot |-> c.url # Absent]

UsesNewOptions(c) ==
    /\ opts' = [full |-> FALSE, syl |-> c.layout]
    /\ bindings' = Bindings(c.keybind)
    /\ icon' = LangIcon(lang, simp, c)
    /\ toggled' = {}

\* new: without a registry key there are the defaults.  init_chewing_context sets the
\* form of the first editor, which is replaced.
Init ==
    /\ world \in Worlds
    /\ reg = [f \in OnlySaved |-> world.start[f]]
    /\ channel = world.start.channel /\ url = world.start.url /\ last = world.start.last
    /\ clock = world.clock /\ dll = world.dll /\ published = world.published
    /\ check = [c \in Clients |-> NoCheck]
    /\ checked = FALSE
    /\ saving = [turn |-> 0, next |-> 0]
    /\ reading = Idle
    /\ rebuilt = FALSE /\ late = FALSE
    /\ unread \in IF "fail" \in world.events THEN BOOLEAN ELSE {FALSE}
    /\ cfg = IF unread THEN Defaults ELSE Loaded
    /\ failed \in IF "fail" \in world.events THEN BOOLEAN ELSE {FALSE}
    /\ ed = NewEditor(IF failed THEN Defaults.per ELSE cfg.per)
    /\ kbtype = cfg.layout
    /\ simp = cfg.simp
    /\ lang \in world.langs
    /\ opts = IF failed THEN [full |-> cfg.full, syl |-> "Default"]
              ELSE [full |-> FALSE, syl |-> cfg.layout]
    /\ bindings = IF failed THEN <<>> ELSE Bindings(cfg.keybind)
    /\ icon = IF failed THEN [lang |-> "Chinese", simp |-> FALSE, dot |-> FALSE]
              ELSE LangIcon(lang, simp, cfg)
    /\ toggled = {}
    /\ list = NoList
    /\ picked = NothingPicked
    /\ agreed = TRUE

\* Before a key (on_test_keydown), and when the thread gets the focus.
BeginReading ==
    /\ reading.pc = "idle"
    /\ \E for \in {"key", "focus"} :
          /\ IF for = "key" THEN world.keys # {} ELSE for \in world.events
          /\ reading' = [Idle EXCEPT !.pc = "reading", !.for = for, !.before = cfg.flags]
    /\ late' = unread
    /\ unread' = FALSE
    /\ UNCHANGED <<world, regVars, rebuilt, tipVars, agreed, listVars, checkVars>>

ReadValues ==
    /\ reading.pc = "reading"
    /\ LET batch == Batch(ReadOrder, reading.next)
           end == Upto(ReadOrder, reading.next)
       IN reading' = [reading EXCEPT
             !.part = [f \in Fields |-> IF f \in batch THEN Value(f) ELSE @[f]],
             !.pc = IF end = Len(ReadOrder) THEN "read" ELSE "reading",
             !.next = end + 1]
    /\ UNCHANGED <<world, regVars, unread, late, rebuilt, tipVars, agreed, listVars, checkVars>>

\* The key cannot be opened: the text service goes on with what it has.
ReadingFails ==
    /\ "fail" \in world.events
    /\ reading.pc = "reading" /\ reading.next = 1
    /\ reading' = [reading EXCEPT !.pc = "read", !.part = cfg]
    /\ unread' = (unread \/ late)
    /\ UNCHANGED <<world, regVars, late, rebuilt, tipVars, agreed, listVars, checkVars>>

\* apply_runtime_config.  build_editor_from_cfg may fail, after cfg and kbtype are set.
ApplyRuntimeConfig_KeepsChoosing(c) ==
    /\ cfg' = c
    /\ kbtype' = c.layout
    /\ ed' = [ed EXCEPT !.per = c.per] /\ failed' = FALSE /\ UNCHANGED <<list, picked>>
    /\ UsesNewOptions(c)

ApplyRuntimeConfig_KeepsBindings(c) ==
    /\ cfg' = c
    /\ kbtype' = c.layout
    /\ ReplaceEditor /\ UsesNewOptions([c EXCEPT !.keybind = cfg.keybind])

ApplyRuntimeConfig(c) ==
    /\ cfg' = c
    /\ kbtype' = c.layout
    /\ \/ ReplaceEditor /\ UsesNewOptions(c)
       \/ "fail" \in world.events /\ RebuildFails /\ UNCHANGED <<opts, bindings, icon, toggled>>

\* reload_if_needed: does what was read differ?
Differs_Always(c) == TRUE
Differs_ByStamp(c) == c.stamp # cfg.stamp
Differs(c) == c # cfg

\* apply_config_if_changed for a key, on_thread_focus for the other.
UseReading ==
    /\ reading.pc = "read"
    /\ \/ /\ reading.for = "key" /\ ~Differs(reading.part)
          /\ UNCHANGED <<rebuilt, tipVars, listVars>>
       \/ /\ reading.for = "focus" \/ Differs(reading.part)
          /\ ApplyRuntimeConfig(reading.part)
          /\ rebuilt' = (reading.for = "key")
          /\ UNCHANGED <<simp, lang>>
    /\ reading' = IF reading.for = "key" THEN [Idle EXCEPT !.pc = "ready", !.before = reading.before]
                ELSE Idle
    /\ UNCHANGED <<world, regVars, unread, late, agreed, checkVars>>
-----------------------------------------------------------------------------
(***************************************************************************)
(* The text service: keys and commands.                                    *)
(***************************************************************************)
ToggleSimpChinese ==
    /\ simp' = ~simp
    /\ icon' = LangIcon(lang, simp', cfg)
    /\ UNCHANGED <<kbtype, opts, lang, bindings, toggled>>

ToggleShapeMode ==
    /\ opts' = [opts EXCEPT !.full = ~@]
    /\ icon' = LangIcon(lang, simp, cfg)
    /\ toggled' = toggled \cup {"shape"}
    /\ UNCHANGED <<kbtype, simp, lang, bindings>>

ToggleHsuKeyboard ==
    /\ kbtype' = IF kbtype = "Hsu" THEN "Default" ELSE "Hsu"
    /\ opts' = [opts EXCEPT !.syl = kbtype']
    /\ toggled' = toggled \cup {"hsu"}
    /\ UNCHANGED <<simp, lang, bindings, icon>>

\* The other mode, or with CapsLock that of its light (LangMode).
ToggleLangMode ==
    /\ lang' \in Langs
    /\ icon' = LangIcon(lang', simp, cfg)
    /\ UNCHANGED <<kbtype, opts, simp, bindings, toggled>>

\* on_command
OnCommand ==
    /\ "command" \in world.events /\ reading.pc = "idle"
    /\ ToggleSimpChinese \/ ToggleShapeMode \/ ToggleLangMode
    /\ UNCHANGED <<world, regVars, readVars, unread, agreed, listVars, checkVars>>

\* The editor toggles the form on Shift+Space.  The icons stay.
EditorToggles(ev) ==
    IF ev = [sym |-> "Space", mods |-> {"shift"}] /\ "enable_fullwidth_toggle_key" \in cfg.flags
    THEN /\ opts' = [opts EXCEPT !.full = ~@]
         /\ toggled' = toggled \cup {"shape"}
         /\ UNCHANGED <<kbtype, simp, lang, bindings, icon>>
    ELSE UNCHANGED tipVars

\* on_keydown, for a key without a binding or whose binding is for the list.
PassKey(ev) ==
    /\ CASE ev.sym \in Printable ->
                EditorKey \/ (list # NoList /\ \E place \in Places(list.items) : LabelKey(place))
         [] ev.sym = "Return" -> ReturnKey
         [] ev.sym \in Moves -> ArrowKey(ev.sym)
         [] \E i \in Matching(bindings, ev) : bindings[i].action = <<"selecting_unlearn_phrase">> ->
                UnlearnKey
         [] OTHER -> EditorKey
    /\ EditorToggles(ev)

\* on_keydown.  "text" commits what the editor has.
OnKeydown(ev) ==
    LET action == IF Matching(bindings, ev) = {} THEN <<>> ELSE FirstMatch(bindings, ev).action
    IN CASE action \in {<<>>, <<"selecting_unlearn_phrase">>} -> PassKey(ev)
         [] action = <<"toggle_simplified_chinese">> -> ToggleSimpChinese /\ UNCHANGED listVars
         [] action = <<"toggle_hsu_keyboard">> -> ToggleHsuKeyboard /\ UNCHANGED listVars
         [] action = <<"text">> -> EditorKey /\ UNCHANGED tipVars
         [] OTHER -> UNCHANGED <<tipVars, listVars>>

\* What on_test_keydown looks at besides the settings; in most worlds all keys come to
\* a composition.
Typing == [disabled |-> FALSE, composing |-> TRUE, mutable |-> TRUE, shift_up |-> FALSE]
Circumstances ==
    IF "ask" \in world.events THEN [DOMAIN Typing -> BOOLEAN] ELSE {Typing}

\* An application may ask for the answer (OnTestKeyDown) and not give the key.
HandleKey(ev) ==
    /\ reading.pc = "ready"
    /\ \E at \in Circumstances :
         LET s == [before |-> reading.before, flags |-> cfg.flags, lang |-> lang,
                   disabled |-> at.disabled,
                   full |-> opts.full, composing |-> at.composing \/ list # NoList,
                   mutable |-> at.mutable, shift_up |-> at.shift_up, bindings |-> bindings]
             shift == "switch_lang_with_shift"
         IN /\ agreed' = ((shift \in s.before) = (shift \in s.flags)
                             => TipWants(s, ev) = HostWants(s, ev))
            /\ \/ "ask" \notin world.events /\ TipWants(s, ev) /\ OnKeydown(ev)
               \/ UNCHANGED <<tipVars, listVars>>
    /\ reading' = Idle
    /\ rebuilt' = FALSE /\ late' = FALSE
    /\ UNCHANGED <<world, regVars, unread, checkVars>>

\* The list without a key.
ListEvent ==
    /\ "show" \in world.events /\ reading.pc = "idle"
    /\ KillFocus \/ TerminatedTail \/ AppShows
    /\ UNCHANGED <<world, regVars, readVars, unread, tipVars, agreed, checkVars>>

\* The checks, and what they depend on.
CheckEvent ==
    /\ \/ \E c \in world.clients : CheckStep(c)
       \/ "publish" \in world.events /\ Publish
       \/ "install" \in world.events /\ Install
       \/ "stop" \in world.events /\ HostStops
       \/ "clock" \in world.events /\ ClockChanges
    /\ UNCHANGED <<world, regVars, readVars, tipVars, agreed, listVars>>
    /\ Noticed

Next ==
    \/ SaveReg
    \/ BeginReading \/ ReadValues \/ ReadingFails \/ UseReading
    \/ \E ev \in world.keys : HandleKey(ev)
    \/ OnCommand \/ ListEvent \/ CheckEvent

Spec == Init /\ [][Next]_vars
-----------------------------------------------------------------------------
(***************************************************************************)
(* Properties.                                                             *)
(***************************************************************************)

\* Every variable has its type.
TypeOK ==
    /\ ListTypeOK /\ CheckTypeOK
    /\ world \in Worlds
    /\ cfg \in Config /\ reading.part \in Config
    /\ DOMAIN reg = OnlySaved
    /\ saving.turn \in 0 .. Len(world.saves) /\ saving.next \in 0 .. Len(SaveOrder)
    /\ reading.pc \in {"idle", "reading", "read", "ready"} /\ reading.for \in {"key", "focus"}
    /\ {rebuilt, unread, late, simp, agreed} \subseteq BOOLEAN
    /\ kbtype \in Layouts
    /\ opts \in [full : BOOLEAN, syl : Layouts]
    /\ lang \in Langs
    /\ icon \in [lang : Langs, simp : BOOLEAN, dot : BOOLEAN]
    /\ toggled \subseteq {"shape", "hsu"}

\* What one reading tore apart the next one puts together: when nothing was written
\* since the last complete reading began, the configuration is the registry's
\* (from_reg, save_reg, reload_if_needed).
CaughtUp == reading.pc \in {"ready", "idle"} /\ ~unread => cfg = Loaded

\* A key replaces the editor, and with it what the user has typed, only when the
\* registry was written to: an unchanged one is never taken for a changed one.
KeptUnlessWritten == rebuilt => late \/ unread

\* Editor, keyboard, bindings and icon are those of the configuration the text
\* service holds, but for what was toggled since and unless the editor could not be
\* built (apply_runtime_config, the toggles).
FollowsConfig ==
    ~failed => /\ ed.per = cfg.per
               /\ opts.syl = kbtype
               /\ "hsu" \notin toggled => kbtype = cfg.layout
               /\ bindings = Bindings(cfg.keybind)
               /\ icon = LangIcon(lang, simp, cfg)

\* Another window gets the focus and comes back, and no setting has changed: the
\* form the user chose in the menu stays (on_thread_focus).
FormSurvivesFocus ==
    [][UseReading /\ reading.for = "focus" /\ reading.part = cfg => opts'.full = opts.full]_vars

\* A binding the user saved works, whatever the others of the list look like: it is
\* written as text, read and parsed twice (KeybindValue, key_from_str).
BindingsSurvive ==
    saving.turn > 0 /\ saving.next = 0 /\ reading.pc = "idle" /\ ~unread /\ ~failed
        => LET saved == world.saves[saving.turn].keybind
           IN \A i \in DOMAIN saved :
                 WellFormed(saved[i]) /\ KeyFromStr(saved[i].key) # NoKey
                 => \E j \in DOMAIN bindings :
                       bindings[j] = [key |-> KeyFromStr(saved[i].key),
                                      action |-> saved[i].action, param |-> saved[i].param]

\* The host's copy of on_test_keydown answers like the tip's in the same state, unless
\* this very key brought another switch_lang_with_shift: the tip has looked at the one
\* before, the host looks at the new one.
HostAgrees == agreed
=============================================================================
