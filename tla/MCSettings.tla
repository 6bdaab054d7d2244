---------------------------- MODULE MCSettings ----------------------------
(***************************************************************************)
(* The worlds Settings is checked in.  Each has a few of the things that   *)
(* can happen, so that they meet without multiplying with the others.      *)
(***************************************************************************)
EXTENDS Settings

CONSTANTS c1, c2

MCWords == STRING

MCDictionary == {<<"x", "y", "z">>, <<"y">>, <<>>}

Version(a, b) == <<a, 0, 0, b>>
Release(version, ch, u) == [version |-> version, channel |-> ch, url |-> u]

\* Parts that are missing, no numbers, or too many.
Old == <<Release(<<1>>, "stable", "u1")>>
New == <<Release(<<2, Junk, 0, 5>>, "development", "u3"),
         Release(<<2, 0>>, "stable", "u2"), Release(<<1, 0, 1>>, "stable", "u1")>>
MCReleaseLists == {Old, New}
MCInstallable == {Version(1, 0), Version(2, 0), Version(1, 3)}

Binding(key, action, param) == [key |-> key, action |-> action, param |-> param]
ToggleSimp == Binding(<<"ctrl", "F12">>, <<"toggle_simplified_chinese">>, <<>>)
Unlearn == Binding(<<"ctrl", "Delete">>, <<"selecting_unlearn_phrase">>, <<>>)

MCDefaults ==
    [layout |-> "Default", row |-> 3, full |-> FALSE, simp |-> FALSE, sel |-> 0, per |-> 9,
     cursor |-> TRUE, flags |-> {"switch_lang_with_shift", "lock_chinese_on_caps_lock"},
     channel |-> "stable", url |-> Absent, last |-> 0, stamp |-> 0,
     keybind |-> <<ToggleSimp, Unlearn>>]

\* What the registry holds after the defaults were saved, and before anything was.
Saved(c) == [c EXCEPT !.keybind = [i \in DOMAIN c.keybind |-> Show(c.keybind[i])]]
NeverSaved == [f \in Fields |-> Absent]

World == [start |-> Saved(MCDefaults), langs |-> {"Chinese"}, clock |-> 0, dll |-> Version(1, 0),
          published |-> Old, saves |-> <<>>, keys |-> {}, clients |-> {}, events |-> {}]

Key(sym, mods) == [sym |-> sym, mods |-> mods]
Rows == [MCDefaults EXCEPT !.per = 2, !.row = 1]
Flat == [MCDefaults EXCEPT !.per = 1, !.row = 2, !.sel = 1]

\* Choosing, while the preferences change what a page is.
ListWorld ==
    [World EXCEPT !.start = Saved(Rows), !.saves = <<Flat>>,
        !.keys = {Key("1", {}), Key("Return", {}), Key("down", {}), Key("right", {}),
                  Key("Delete", {"ctrl"})},
        !.events = {"fail", "show"}]

\* A page of three and rows of two.
RowsWorld ==
    [World EXCEPT !.start = Saved([MCDefaults EXCEPT !.row = 2, !.flags = {"enable_fullwidth_toggle_key"}]),
        !.keys = {Key("1", {}), Key("Return", {}), Key("up", {}), Key("down", {}),
                  Key("left", {}), Key("right", {}), Key("Space", {"shift"})},
        !.events = {"focus"}]

\* Checks that meet, on a new installation and when there were some before.
CheckWorld ==
    [World EXCEPT !.start = NeverSaved, !.clock = 2, !.published = New, !.clients = {c1, c2},
        !.saves = <<[MCDefaults EXCEPT !.channel = "none"]>>, !.events = {"install"}]

HourWorld ==
    [World EXCEPT !.clock = 2, !.clients = {c1, c2}, !.events = {"publish", "clock", "stop"}]

\* A check and the user's keys.
TypingWorld ==
    [World EXCEPT !.clock = 2, !.published = New, !.clients = {c1},
        !.keys = {Key("1", {}), Key("F12", {"ctrl"})}]

\* Texts that are read back as they were written, and texts that are not.
BindingsWorld ==
    [World EXCEPT !.start = [NeverSaved EXCEPT !.simp = TRUE],
        !.saves = <<[MCDefaults EXCEPT !.keybind =
            <<Binding(<<"shift", "a">>, <<"text">>, <<"=", "a">>),
              Binding(<<"ctrl", "=">>, <<"text">>, <<"b">>),
              Binding(<<"a", "control">>, <<"text">>, <<"b", "c">>),
              Binding(<<"ctrl", "F99">>, <<"toggle_hsu_keyboard">>, <<>>),
              Binding(<<"Delete", "shift", "a">>, <<"toggle_hsu_keyboard">>, <<>>),
              Binding(<<"alt">>, <<"nothing_known">>, <<>>)>>]>>,
        !.keys = {Key("a", {"ctrl"}), Key("Delete", {"shift"}), Key("1", {"alt"}),
                  Key("Delete", {"ctrl"}), Key("=", {"ctrl"})},
        !.events = {"command", "fail"}]

\* The keys tip and host look at, under all the settings they look at.
FilterWorlds ==
    {[World EXCEPT !.start = Saved([MCDefaults EXCEPT !.flags = flags]), !.langs = Langs,
        !.keys = {Key(sym, mods) : sym \in {"1", "a", "Space", "F12", "CapsLock", "Shift_L"},
                                   mods \in {{}, {"shift"}, {"ctrl"}, {"ctrl", "shift"}, {"alt"}}},
        !.events = {"ask", "command"}] : flags \in SUBSET Flags}

\* The settings change between two keys, or while they are read.
ChangeWorlds ==
    {[World EXCEPT !.start = Saved([MCDefaults EXCEPT !.flags = flags]),
        !.saves = <<[MCDefaults EXCEPT !.flags = Flags \ flags]>>,
        !.keys = {Key("a", {}), Key("Space", {"shift"}), Key("Shift_L", {"shift"})},
        !.events = {"ask", "command"}] :
        flags \in {{}, {"switch_lang_with_shift"}, {"simulate_english_layout"}}}

MCWorlds == {ListWorld, RowsWorld, CheckWorld, HourWorld, TypingWorld, BindingsWorld}
            \cup FilterWorlds \cup ChangeWorlds

\* A form that is toggled in a window that loses the focus and gets it back.
ToggledForm == {[World EXCEPT !.events = {"command", "focus"}]}
=============================================================================
