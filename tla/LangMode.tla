------------------------------ MODULE LangMode ------------------------------
(***************************************************************************)
(* The language mode of the input method (tip/src/text_service/chewing.rs, *)
(* mod.rs): what a tap of Shift, CapsLock, Ctrl+Space, a menu command and  *)
(* the changes of focus make of it, and how it is kept in step with the    *)
(* OPENCLOSE compartment of TSF.                                           *)
(*                                                                         *)
(* When the tip changes the mode it raises a flag, so that the change of   *)
(* the compartment that follows is not taken for a Ctrl+Space.             *)
(*                                                                         *)
(* All of it is heard through sinks that Activate registers, one after     *)
(* another, and Deactivate removes; either may stop half way.              *)
(***************************************************************************)
EXTENDS Naturals, Sequences

CONSTANTS
    Configs,    \* the settings the user may have
    Apps,       \* how applications give keys to TSF, of AllApps
    Refusals    \* bound: for each of the Configs, in how many calls of Activate and
                \* Deactivate TSF refuses to register or to remove a sink

\* Most ask with TestKeyDown and TestKeyUp first and give the key only if the tip
\* wants it; some do not ask.
AllApps == {"asks", "does not ask"}

Settings == [sync_lang_mode_openclose : BOOLEAN, switch_lang_with_shift : BOOLEAN,
             enable_caps_lock : BOOLEAN, lock_chinese_on_caps_lock : BOOLEAN]

ASSUME ConfigsAssumption == Configs \subseteq Settings
ASSUME AppsAssumption == Apps \subseteq AllApps
ASSUME RefusalsAssumption == Refusals \in [Configs -> Nat]

VARIABLES
    cfg, app,           \* of this process
    service,            \* inner: "on", "off", or "crashed" by a panic
    sinks,              \* how often each sink is registered
    cookies,            \* the cookies that are kept and still stand for a sink
    failures,           \* history: calls of Activate and Deactivate that failed
    lang_mode,          \* [lang, disabled]
    pending,            \* pending_lang_mode_change
    openclose,          \* the compartment: open?
    shift_key_state,
    recent,             \* Down(instant) is younger than shift_key_sensitivity
    has_focus, key_busy,
    held,               \* keys the user holds
    caps,               \* the CapsLock light
    focus,              \* a document of this thread has the focus
    active,             \* this thread has the focus
    alone,              \* history: no key went down since Shift did
    unsettled,          \* history: no handler ended well since the activation, or
                        \* since one failed
    unseen              \* history: keys changed since the mode was read from the
                        \* light, where the tip does not see them

keyboardVars == <<held, caps, alone, unseen>>
focusVars == <<has_focus, key_busy, focus, active>>
shiftVars == <<shift_key_state, recent>>
modeVars == <<lang_mode, pending, openclose, unsettled>>
serviceVars == <<service, sinks, cookies, failures>>
vars == <<cfg, app, serviceVars, modeVars, shiftVars, focusVars, keyboardVars>>
-----------------------------------------------------------------------------
Keys == {"shift", "caps", "other"}
LangModes == [lang : {"Chinese", "English"}, disabled : BOOLEAN]
OtherLang == [lang_mode EXCEPT !.lang = IF @ = "Chinese" THEN "English" ELSE "Chinese"]

\* The light turns on the mode it locks.
ByCapsLock == IF caps = cfg.lock_chinese_on_caps_lock THEN "Chinese" ELSE "English"

SyncLangMode_StoresTheLight(mode) ==
    IF ~mode.disabled /\ cfg.enable_caps_lock
    THEN [mode EXCEPT !.lang = IF caps THEN "On" ELSE "Off"]
    ELSE mode

\* What sync_lang_mode makes of the mode.
SyncLangMode(mode) ==
    IF ~mode.disabled /\ cfg.enable_caps_lock
    THEN [mode EXCEPT !.lang = ByCapsLock]
    ELSE mode

\* The value the compartment should have.
Open(mode) == mode.lang = "Chinese" /\ ~mode.disabled

\* In the order of their registration.  Threads' sinks are removed by a cookie each,
\* the compartment's by the last one; the others are one of a kind.
SinkOrder == <<"focus", "thread", "function", "keys", "openclose">>
SinkNames == {SinkOrder[i] : i \in DOMAIN SinkOrder}
ThreadSinks == {"focus", "thread"}
SingleSinks == {"function", "keys"}
Before(place) == {SinkOrder[i] : i \in 1 .. place - 1}

\* Bound: how often a sink is registered.
MaxSinks == 2

On(sink) == service = "on" /\ sinks[sink] > 0

\* The document that has the focus gives its keys to this input method.
Hears == active /\ focus /\ On("keys")

NewMode == [lang |-> "English", disabled |-> FALSE]

\* TextService::new, in a thread that has just started.
Init ==
    /\ cfg \in Configs
    /\ app \in Apps
    /\ service = "off"
    /\ sinks = [s \in SinkNames |-> 0]
    /\ cookies = {}
    /\ failures = 0
    /\ caps \in BOOLEAN
    /\ lang_mode = NewMode
    /\ pending = FALSE
    /\ openclose \in BOOLEAN
    /\ shift_key_state = "Up"
    /\ recent = FALSE
    /\ has_focus = TRUE
    /\ key_busy = FALSE
    /\ held = {}
    /\ focus = TRUE
    /\ active = TRUE
    /\ alone = FALSE
    /\ unsettled = TRUE
    /\ unseen = TRUE
-----------------------------------------------------------------------------
(***************************************************************************)
(* The end of a handler.  flag is what it left in                          *)
(* pending_lang_mode_change.                                               *)
(***************************************************************************)

Followed_KeepsLang(mode) == IF has_focus THEN [mode EXCEPT !.disabled = ~@] ELSE mode

\* What one call of OnChange makes of the mode.
Followed(mode) == IF has_focus THEN SyncLangMode([mode EXCEPT !.disabled = ~@]) ELSE mode

\* What becomes of the mode when the compartment changes: the sink is called as often
\* as it is registered, and the first call takes the flag.
Heard(mode, flag) ==
    LET calls == sinks["openclose"]
        follows == IF flag /\ calls > 0 THEN calls - 1 ELSE calls
    IN CASE follows = 0 -> mode
         [] follows = 1 -> Followed(mode)
         [] OTHER -> Followed(Followed(mode))

SyncKeyboardOpenclose_KeepsFlag(mode, flag) ==
    \/ /\ ~(flag /\ cfg.sync_lang_mode_openclose)
       /\ lang_mode' = mode /\ pending' = flag
       /\ UNCHANGED openclose
    \/ /\ flag /\ cfg.sync_lang_mode_openclose
       /\ openclose' = Open(mode)
       /\ lang_mode' = Heard(mode, flag) /\ pending' = FALSE

\* Setting the compartment calls OnChange (whose own SetValue fails); TSF need not
\* call it when the value is the same.
SyncKeyboardOpenclose(mode, flag) ==
    \/ /\ ~(flag /\ cfg.sync_lang_mode_openclose)
       /\ lang_mode' = mode /\ pending' = FALSE
       /\ UNCHANGED openclose
    \/ /\ flag /\ cfg.sync_lang_mode_openclose
       /\ openclose' = Open(mode)
       /\ \/ lang_mode' = Heard(mode, flag) /\ pending' = (sinks["openclose"] = 0)
          \/ openclose' = openclose /\ lang_mode' = mode /\ pending' = TRUE

EndHandler(mode, flag) == SyncKeyboardOpenclose(mode, flag) /\ unsettled' = FALSE

\* An error returns from the COM method before that.
FailHandler(mode, flag) ==
    /\ lang_mode' = mode /\ pending' = flag /\ unsettled' = TRUE
    /\ UNCHANGED openclose
-----------------------------------------------------------------------------
(***************************************************************************)
(* Keys.                                                                   *)
(***************************************************************************)
WatchesShift == cfg.switch_lang_with_shift /\ shift_key_state = "Up"

\* on_test_keydown: Shift goes down, or is used with another key.
TestKeyDown_NeverConsumes(k) ==
    IF k = "shift" /\ WatchesShift
    THEN shift_key_state' = "Down" /\ recent' = TRUE
    ELSE UNCHANGED shiftVars

TestKeyDown(k) ==
    IF k = "shift" /\ WatchesShift THEN shift_key_state' = "Down" /\ recent' = TRUE
    ELSE IF k # "shift" /\ "shift" \in held
    THEN shift_key_state' = "Consumed" /\ recent' = FALSE
    ELSE UNCHANGED shiftVars

\* The keys on_test_keydown never wants; the others depend on the editor.
Unwanted(k) ==
    \/ lang_mode.disabled
    \/ k = "shift" /\ WatchesShift
    \/ k = "caps" /\ ~cfg.enable_caps_lock

\* The keyboard turns the light when CapsLock goes down.  OnKeyDown raises key_busy.
KeyDown(k) ==
    /\ Hears /\ k \notin held
    /\ held' = held \cup {k}
    /\ caps' = (caps # (k = "caps"))
    /\ alone' = (k = "shift")
    /\ TestKeyDown(k)
    /\ \E wanted \in IF Unwanted(k) THEN {FALSE} ELSE BOOLEAN :
          key_busy' = (key_busy \/ wanted \/ app = "does not ask")
    /\ UNCHANGED <<cfg, app, serviceVars, modeVars, has_focus, focus, active, unseen>>

Tapped(k) ==
    k = "shift" /\ shift_key_state = "Down" /\ recent /\ cfg.switch_lang_with_shift

\* on_keyup.  The messages it shows may fail.
OnKeyUp(k) ==
    /\ IF k = "shift" THEN shift_key_state' = "Up" /\ recent' = FALSE
                      ELSE UNCHANGED shiftVars
    /\ \/ /\ Tapped(k) /\ ~cfg.enable_caps_lock
          /\ LET mode == SyncLangMode(OtherLang) IN EndHandler(mode, TRUE) \/ FailHandler(mode, TRUE)
       \/ /\ Tapped(k) /\ cfg.enable_caps_lock
          /\ EndHandler(lang_mode, pending) \/ FailHandler(lang_mode, pending)
       \/ /\ k = "caps" /\ cfg.enable_caps_lock
          /\ LET mode == SyncLangMode(lang_mode) IN EndHandler(mode, TRUE) \/ FailHandler(mode, TRUE)
       \/ /\ ~Tapped(k) /\ ~(k = "caps" /\ cfg.enable_caps_lock)
          /\ EndHandler(lang_mode, pending)

OnTestKeyUp_Always(k) == OnKeyUp(k)

\* on_test_keyup
OnTestKeyUp(k) ==
    \/ lang_mode.disabled /\ UNCHANGED shiftVars /\ EndHandler(lang_mode, pending)
    \/ ~lang_mode.disabled /\ OnKeyUp(k)

\* OnTestKeyUp wants no key, so an application that asks never calls OnKeyUp, which
\* lowers key_busy.
KeyUp(k) ==
    /\ Hears /\ k \in held
    /\ held' = held \ {k}
    /\ \/ app = "asks" /\ OnTestKeyUp(k) /\ UNCHANGED key_busy
       \/ app = "does not ask" /\ OnKeyUp(k) /\ key_busy' = FALSE
    /\ UNCHANGED <<cfg, app, serviceVars, has_focus, focus, active, caps, alone, unseen>>

\* Keys go to another window, to a control that is no document, or to an input method
\* that is off, of which a sink that was left still raises and lowers key_busy.
KeysElsewhere ==
    /\ ~Hears
    /\ \/ caps' = ~caps /\ UNCHANGED held
       \/ held' \in SUBSET held /\ held' # held /\ UNCHANGED caps
    /\ unseen' = TRUE
    /\ key_busy' \in IF service = "off" /\ sinks["keys"] > 0 /\ app = "does not ask" THEN BOOLEAN
                     ELSE {key_busy}
    /\ UNCHANGED <<cfg, app, serviceVars, modeVars, shiftVars, has_focus, focus, active, alone>>

\* shift_key_sensitivity has passed.
ShiftIsHeld ==
    /\ recent
    /\ recent' = FALSE
    /\ UNCHANGED <<cfg, app, serviceVars, modeVars, shift_key_state, focusVars, keyboardVars>>
-----------------------------------------------------------------------------
\* ID_SWITCH_LANG and ID_MODE_ICON, through the function provider: errors are logged.
OnCommand ==
    /\ active /\ On("function")
    /\ EndHandler(SyncLangMode(OtherLang), TRUE)
    /\ UNCHANGED <<cfg, app, serviceVars, shiftVars, focusVars, keyboardVars>>

\* Ctrl+Space, or the application, changes the compartment; a change that comes
\* while the flag is up, or without the focus, is not followed.
OnCompartmentChange ==
    /\ active /\ service # "crashed"
    /\ openclose' = ~openclose
    /\ IF On("openclose") THEN lang_mode' = Heard(lang_mode, pending) /\ pending' = FALSE
                          ELSE UNCHANGED <<lang_mode, pending>>
    /\ UNCHANGED <<cfg, app, serviceVars, unsettled, shiftVars, focusVars, keyboardVars>>

\* ITfThreadMgrEventSink::OnSetFocus does nothing while a key is busy.
OnSetFocus ==
    /\ active
    /\ focus' = ~focus
    /\ has_focus' = IF ~On("focus") \/ key_busy THEN has_focus ELSE focus'
    /\ UNCHANGED <<cfg, app, serviceVars, modeVars, shiftVars, key_busy, active, keyboardVars>>

OnKillThreadFocus ==
    /\ active
    /\ active' = FALSE
    /\ UNCHANGED <<cfg, app, serviceVars, modeVars, shiftVars, has_focus, key_busy, focus,
                   keyboardVars>>

\* The mode is read from CapsLock again: "resync Caps Lock state".  Before that the
\* configuration is applied, which may fail.
OnSetThreadFocus ==
    /\ ~active
    /\ active' = TRUE
    /\ \/ /\ On("thread")
          /\ LET mode == SyncLangMode(lang_mode) IN EndHandler(mode, TRUE) \/ FailHandler(mode, TRUE)
          /\ unseen' = FALSE
       \/ On("thread") /\ FailHandler(lang_mode, pending) /\ UNCHANGED unseen
       \/ ~On("thread") /\ UNCHANGED <<modeVars, unseen>>
    /\ UNCHANGED <<cfg, app, serviceVars, shiftVars, has_focus, key_busy, focus, held, caps, alone>>
-----------------------------------------------------------------------------
(***************************************************************************)
(* Activation.                                                             *)
(***************************************************************************)
Counts(failed) == failures' = failures + (IF failed THEN 1 ELSE 0) /\ failures' <= Refusals[cfg]

\* Registers what comes before the place.  That a function provider or a key sink
\* cannot be registered is logged; of these there may be one already.
Register(place, missing) ==
    LET new == {s \in Before(place) \ missing : s \in SingleSinks => sinks[s] = 0}
    IN /\ missing \subseteq SingleSinks \cap Before(place)
       /\ sinks' = [s \in SinkNames |-> IF s \in new THEN sinks[s] + 1 ELSE sinks[s]]
       /\ cookies' = (cookies \cup new) \ SingleSinks
       /\ Counts(place # 6 \/ missing # {})

\* new opens the compartment, reads the settings and the light, and ends with
\* sync_lang_mode(true) unless the configuration cannot be applied.
NewService ==
    /\ service' = "on"
    /\ openclose' = TRUE
    /\ \E default \in {"Chinese", "English"} :
          LET mode == [lang |-> default, disabled |-> FALSE]
          IN \/ lang_mode' = SyncLangMode(mode) /\ pending' = TRUE /\ unseen' = FALSE
             \/ lang_mode' = mode /\ pending' = FALSE /\ unseen' = TRUE
    /\ shift_key_state' = "Up" /\ recent' = FALSE
    /\ has_focus' = TRUE
    /\ unsettled' = TRUE

\* TSF may activate a service again that it has deactivated.  An error of new leaves
\* the service off.
Activate ==
    /\ active /\ service = "off"
    /\ \A s \in SinkNames : sinks[s] < MaxSinks
    /\ NewService
    /\ \E place \in {1, 2, 5, 6}, missing \in SUBSET SingleSinks : Register(place, missing)
    /\ UNCHANGED <<cfg, app, key_busy, focus, active, held, caps, alone>>

\* The compartment is opened while inner is borrowed: OnChange, through a sink that
\* was left, panics.
ActivatePanics ==
    /\ active /\ service = "off" /\ sinks["openclose"] > 0
    /\ service' = "crashed"
    /\ openclose' = TRUE
    /\ UNCHANGED <<cfg, app, sinks, cookies, failures, lang_mode, pending, unsettled, shiftVars,
                   focusVars, keyboardVars>>

\* It can be removed: its cookie is kept, or it is one of a kind and there.
Removable(s) == IF s \in SingleSinks THEN sinks[s] > 0 ELSE s \in cookies

Remove_NotTheCompartments(place) ==
    LET gone == {s \in Before(place) : Removable(s)} \ {"openclose"}
    IN /\ \A s \in Before(place) \ ThreadSinks : Removable(s)
       /\ sinks' = [s \in SinkNames |-> IF s \in gone THEN sinks[s] - 1 ELSE sinks[s]]
       /\ cookies' = cookies \ (gone \cup ThreadSinks)
       /\ Counts(place # 6 /\ Removable(SinkOrder[place]))

\* Removes what comes before the place, where it stops at something that is not there
\* or that TSF refuses to remove.  The cookies of the thread are forgotten.
Remove(place) ==
    LET gone == {s \in Before(place) : Removable(s)}
    IN /\ \A s \in Before(place) \ ThreadSinks : Removable(s)
       /\ sinks' = [s \in SinkNames |-> IF s \in gone THEN sinks[s] - 1 ELSE sinks[s]]
       /\ cookies' = cookies \ (gone \cup ThreadSinks)
       /\ Counts(place # 6 /\ Removable(SinkOrder[place]))

\* What the service knew is gone.
Deactivate ==
    /\ service = "on"
    /\ service' = "off"
    /\ lang_mode' = NewMode /\ pending' = FALSE
    /\ shift_key_state' = "Up" /\ recent' = FALSE
    /\ has_focus' = TRUE
    /\ unsettled' = TRUE /\ unseen' = TRUE
    /\ \E place \in 1 .. 6 :
          /\ place # 6 /\ SinkOrder[place] \in ThreadSinks => Removable(SinkOrder[place])
          /\ Remove(place)
    /\ UNCHANGED <<cfg, app, openclose, key_busy, focus, active, held, caps, alone>>

Next ==
    \/ \E k \in Keys : KeyDown(k) \/ KeyUp(k)
    \/ KeysElsewhere \/ ShiftIsHeld
    \/ OnCommand
    \/ OnCompartmentChange
    \/ OnSetFocus \/ OnKillThreadFocus \/ OnSetThreadFocus
    \/ Activate \/ ActivatePanics \/ Deactivate

Spec == Init /\ [][Next]_vars
-----------------------------------------------------------------------------
(***************************************************************************)
(* Properties.                                                             *)
(***************************************************************************)

\* Every variable has its type.
TypeOK ==
    /\ cfg \in Configs
    /\ app \in Apps
    /\ service \in {"on", "off", "crashed"}
    /\ sinks \in [SinkNames -> 0 .. MaxSinks]
    /\ cookies \subseteq SinkNames \ SingleSinks
    /\ failures \in 0 .. Refusals[cfg]
    /\ lang_mode \in LangModes
    /\ pending \in BOOLEAN
    /\ openclose \in BOOLEAN
    /\ shift_key_state \in {"Up", "Down", "Consumed"}
    /\ recent \in BOOLEAN
    /\ recent => shift_key_state = "Down"
    /\ has_focus \in BOOLEAN
    /\ key_busy \in BOOLEAN
    /\ held \in SUBSET Keys
    /\ caps \in BOOLEAN
    /\ focus \in BOOLEAN
    /\ active \in BOOLEAN
    /\ alone \in BOOLEAN
    /\ unsettled \in BOOLEAN
    /\ unseen \in BOOLEAN

\* Each change of the compartment is heard once.
HearsOnce == service = "on" /\ sinks["openclose"] = 1

Released(k) == k \in held /\ k \notin held'

\* Shift changes the language only when it was tapped, for no other key and not for
\* long: "Only toggle lang mode when short press Shift".
OnlyATapToggles ==
    [][Released("shift") /\ HearsOnce /\ Hears /\ lang_mode'.lang # lang_mode.lang
         => alone /\ recent]_vars

\* With the lock enabled the light decides, whatever was done while the input
\* method was closed or the thread had no focus ("Correctly detect application
\* focus change and resync Caps Lock state"): what is left are keys that are not
\* heard, until the mode is read from the light again.
CapsLockDecides ==
    cfg.enable_caps_lock /\ ~lang_mode.disabled /\ ~unseen /\ "caps" \notin held
        => lang_mode.lang = ByCapsLock

\* While the input method is closed no key changes its mode, in an application
\* that asks first: "Ignore all keys if keyboard is closed".
ClosedIgnoresKeys ==
    [][lang_mode.disabled /\ held' # held /\ app = "asks" /\ HearsOnce => UNCHANGED lang_mode]_vars

CompartmentChanged == HearsOnce /\ service' = "on" /\ openclose' # openclose

\* Without the synchronisation only Ctrl+Space changes the compartment; it is missed
\* only before the first handler since the activation, or since one that failed.
MissedOnlyWhenUnsettled ==
    [][ ~cfg.sync_lang_mode_openclose /\ CompartmentChanged /\ has_focus /\ ~unsettled
        => lang_mode'.disabled # lang_mode.disabled ]_vars

\* Unless TSF has refused to register or to remove one, a service that is on has every
\* sink once and hears everything once, and one that is off leaves nothing behind that
\* would make its next activation panic (Activate, Deactivate).
LeavesNothingBehind ==
    failures = 0 => /\ service # "crashed"
                    /\ \A s \in SinkNames : sinks[s] = IF service = "on" THEN 1 ELSE 0

\* Ctrl+Space closes and opens the input method: "completely disable input
\* processing via Ctrl+Space".
CtrlSpaceToggles ==
    [][ ~cfg.sync_lang_mode_openclose /\ CompartmentChanged /\ has_focus
        => lang_mode'.disabled # lang_mode.disabled ]_vars

\* The focus is followed except during a key: "Skip focus event during key down".
FollowsFocus ==
    [][On("focus") /\ focus' # focus /\ held = {} => has_focus' = focus']_vars
=============================================================================
