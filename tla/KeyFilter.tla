----------------------------- MODULE KeyFilter -----------------------------
(***************************************************************************)
(* Which keys the input method takes from the application, and the key     *)
(* bindings (tip/src/keybind.rs, core's config.rs, on_test_keydown of the  *)
(* tip and its copy in the host).  Operators only.                         *)
(*                                                                         *)
(* An event is [sym, mods]: a key symbol and the modifiers that are down.  *)
(* A binding the user wrote is [key, action, param]: the parts of the key  *)
(* between the "+", the action, and a parameter, each a sequence of words. *)
(***************************************************************************)
EXTENDS Naturals, SequencesExt

Modifiers == {"ctrl", "shift", "alt", "super"}
Digits == {"1"}
Printable == Digits \cup {"a", "A", "Space", "="}
Named == {"F12", "Delete", "Return", "CapsLock"}
\* What the keyboard has but a binding cannot name.
Unnamed == {"Shift_L", "up", "down", "left", "right", "none"}
Syms == Printable \cup Named \cup Unnamed

Event == [sym : Syms, mods : SUBSET Modifiers]
NoKey == [sym |-> "unparsable", mods |-> {}]

\* The modifier a part of a key names ("none" if it names none).
ModifierOf(part) ==
    CASE part \in {"ctrl", "control"} -> "ctrl"
      [] part = "shift" -> "shift"
      [] part \in {"alt", "opt", "option"} -> "alt"
      [] part \in {"super", "cmd", "command"} -> "super"
      [] OTHER -> "none"

\* key_from_str goes from the right, so that the leftmost symbol wins; a key of
\* modifiers only has no symbol.
KeyFromStr(parts) ==
    LET symbols == {i \in DOMAIN parts : ModifierOf(parts[i]) = "none"}
        first == CHOOSE i \in symbols : \A j \in symbols : i <= j
    IN IF \E i \in symbols : parts[i] \notin Printable \cup Named
       THEN NoKey
       ELSE [sym  |-> IF symbols = {} THEN "none" ELSE parts[first],
             mods |-> {ModifierOf(parts[i]) : i \in DOMAIN parts} \ {"none"}]

\* Display for KeybindValue
Show(b) == b.key \o <<"=">> \o b.action \o (IF b.param = <<>> THEN <<>> ELSE <<":">> \o b.param)

\* rsplit_once: the last place of a separator, or 0.
LastOf(text, separator) ==
    LET places == {0} \cup {i \in DOMAIN text : text[i] = separator}
    IN CHOOSE i \in places : \A j \in places : j <= i

FromStr_ForgetsTheParam(text) ==
    LET equals == LastOf(text, "=")
        binding == [key |-> SubSeq(text, 1, equals - 1),
                    action |-> SubSeq(text, equals + 1, Len(text)), param |-> <<>>]
    IN IF equals = 0 THEN <<>> ELSE <<binding>>

\* FromStr for KeybindValue: nothing, or the binding.
FromStr(text) ==
    LET equals == LastOf(text, "=")
        rest == SubSeq(text, equals + 1, Len(text))
        colon == LastOf(rest, ":")
        binding == [key |-> SubSeq(text, 1, equals - 1),
                    action |-> IF colon = 0 THEN rest ELSE SubSeq(rest, 1, colon - 1),
                    param |-> IF colon = 0 THEN <<>> ELSE SubSeq(rest, colon + 1, Len(rest))]
    IN IF equals = 0 THEN <<>> ELSE <<binding>>

\* A binding whose text is read back as it was written: the last separators in it are
\* the two that Display writes.  The key may have any word.
WellFormed(b) ==
    /\ "=" \notin ToSet(b.action) /\ "=" \notin ToSet(b.param)
    /\ ":" \notin ToSet(b.param)
    /\ b.param = <<>> => ":" \notin ToSet(b.action)

\* from_reg keeps the texts that parse.
ParseAll(texts) == FlattenSeq([i \in DOMAIN texts |-> FromStr(texts[i])])

\* Keybinding::try_from: the binding, or nothing if its key does not parse.
TryFrom(b) ==
    LET key == KeyFromStr(b.key)
    IN IF key = NoKey THEN <<>> ELSE <<[key |-> key, action |-> b.action, param |-> b.param]>>

\* apply_runtime_config keeps the bindings whose key parses.
Bindings(values) == FlattenSeq([i \in DOMAIN values |-> TryFrom(values[i])])

\* Keybinding::matches
Matches(binding, ev) ==
    /\ binding.key.sym \in {ev.sym, "none"}
    /\ binding.key.mods = ev.mods

Matching(bindings, ev) == {i \in DOMAIN bindings : Matches(bindings[i], ev)}
FirstMatch(bindings, ev) ==
    bindings[CHOOSE i \in Matching(bindings, ev) : \A j \in Matching(bindings, ev) : i <= j]
-----------------------------------------------------------------------------
(***************************************************************************)
(* on_test_keydown.  s is what it looks at: [before, flags, lang,          *)
(* disabled, full, composing, mutable, shift_up, bindings], where flags    *)
(* are the settings that are on, and before those that were on until this  *)
(* key had them read again.                                                *)
(***************************************************************************)
Flags == {"switch_lang_with_shift", "enable_caps_lock", "lock_chinese_on_caps_lock",
          "easy_symbols_with_shift_ctrl", "enable_fullwidth_toggle_key",
          "simulate_english_layout"}

\* English, half width: only Shift+Space is of interest, and only if it is set so.
PureEnglish(s) ==
    s.lang = "English" /\ ~s.full /\ "simulate_english_layout" \notin s.before

CaseConversion(s, ev) ==
    /\ "enable_caps_lock" \in s.flags /\ "lock_chinese_on_caps_lock" \notin s.flags
    /\ ev.sym \in Printable

ControlKey(s, ev) ==
    \/ s.composing /\ ev.sym \in Digits
    \/ "shift" \in ev.mods /\ "easy_symbols_with_shift_ctrl" \in s.flags

PlainKey(s, ev) ==
    \/ CaseConversion(s, ev)
    \/ s.composing
    \/ PureEnglish(s) /\ ev.sym = "Space" /\ "shift" \in ev.mods
       /\ "enable_fullwidth_toggle_key" \in s.flags
    \/ ~PureEnglish(s) /\ ev.sym \in Printable /\ (ev.sym = "Space" => s.full \/ "shift" \in ev.mods)

\* The tip's answer, as a condition.
TipWants(s, ev) ==
    /\ ~s.disabled
    /\ ~(ev.sym = "Shift_L" /\ "switch_lang_with_shift" \in s.before /\ s.shift_up)
    /\ \/ Matching(s.bindings, ev) # {}
       \/ /\ ev.sym = "CapsLock" => "enable_caps_lock" \in s.flags
          /\ s.mutable
          /\ "alt" \notin ev.mods
          /\ IF "ctrl" \in ev.mods THEN ControlKey(s, ev) ELSE PlainKey(s, ev)

\* The host's, as its list of early returns: the first whose condition holds.
Rule(condition, answer) == [condition |-> condition, answer |-> answer]

HostRules(s, ev) ==
    LET shift == "shift" \in ev.mods
        ctrl == "ctrl" \in ev.mods
        idle == ~s.composing
        pure == idle /\ s.lang = "English" /\ ~s.full
                /\ "simulate_english_layout" \notin s.before
    IN << Rule(s.disabled, FALSE),
          Rule(ev.sym = "Shift_L" /\ "switch_lang_with_shift" \in s.flags /\ s.shift_up, FALSE),
          Rule(\E i \in DOMAIN s.bindings : Matches(s.bindings[i], ev), TRUE),
          Rule(ev.sym = "CapsLock" /\ "enable_caps_lock" \notin s.flags, FALSE),
          Rule(~s.mutable, FALSE),
          Rule("alt" \in ev.mods, FALSE),
          Rule(ctrl /\ s.composing /\ ev.sym \in Digits, TRUE),
          Rule(ctrl, shift /\ "easy_symbols_with_shift_ctrl" \in s.flags),
          Rule("enable_caps_lock" \in s.flags /\ "lock_chinese_on_caps_lock" \notin s.flags
               /\ ev.sym \in Printable, TRUE),
          Rule(pure, ev.sym = "Space" /\ shift /\ "enable_fullwidth_toggle_key" \in s.flags),
          Rule(idle /\ ev.sym = "Space" /\ ~s.full /\ ~shift, FALSE),
          Rule(idle /\ ev.sym \notin Printable, FALSE),
          Rule(TRUE, TRUE) >>

HostWants_IgnoresShapes(s, ev) ==
    LET rules == HostRules([s EXCEPT !.full = FALSE], ev)
        holds == {i \in DOMAIN rules : rules[i].condition}
    IN rules[CHOOSE i \in holds : \A j \in holds : i <= j].answer

HostWants(s, ev) ==
    LET rules == HostRules(s, ev)
        holds == {i \in DOMAIN rules : rules[i].condition}
    IN rules[CHOOSE i \in holds : \A j \in holds : i <= j].answer
=============================================================================
